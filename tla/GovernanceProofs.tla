--------------------------- MODULE GovernanceProofs ---------------------------
(***************************************************************************)
(* Machine-checked theorems about the five governance workers and about    *)
(* their composition, for any projects, mappings, resources, principals,   *)
(* sources and days, any number of overlapping runs, and without the       *)
(* bounds of the runs.  One section each: the registry, the owners, the    *)
(* hygiene flags, the metrics, the forecasts, then Governance itself.      *)
(***************************************************************************)
EXTENDS Governance, SumTheorems

-----------------------------------------------------------------------------
(***************************************************************************)
(* SdaRegistry.                                                            *)
(*                                                                         *)
(* OverlapOnlyByRace needs to know what an administrator whose check is    *)
(* still current (calm) has checked: the mapping in hand overlaps with no  *)
(* other committed one (CheckedApart).  AttachmentIsCurrent needs the same *)
(* of a calm pass: what it read is what is committed (SeesTheRegistry),    *)
(* and what it is about to write is right for it (MovesAreRight).          *)
(***************************************************************************)
-----------------------------------------------------------------------------
(* Lemmas about the operators of sda_matching.py.                          *)

\* mappings_overlap does not depend on the order of its arguments.
LEMMA OverlapIsSymmetric ==
    ASSUME NEW m, NEW n, Overlap(m, n)
    PROVE  Overlap(n, m)
BY DEF Overlap

\* find_matching_sda always answers, with a registered project or the "No SDA" bucket.
LEMMA MatchesOfAnswers ==
    ASSUME NEW listing, NEW carried
    PROVE  /\ MatchesOf(listing, carried) # {}
           /\ MatchesOf(listing, carried) \subseteq Projects \cup {NoProject}
           /\ \A p \in MatchesOf(listing, carried) : p = NoProject \/ listing[p].listed
BY DEF MatchesOf, Candidates

-----------------------------------------------------------------------------
(* Types.                                                                  *)

\* A transaction that is open has a project in hand.
EditsNameProjects == \A e \in Editors : edit[e] # NoEdit => edit[e].project \in Projects

RegistryTypeInv == RegistryTypeOK /\ EditsNameProjects

LEMMA RowTypes == Absentee \in Rows /\ NoEdit \in [project : Projects \cup {NoProject}, mapping : Mappings]
BY RegistryAssumption DEF Absentee, NoEdit, Rows

LEMMA IdleClassifierType ==
    IdleClassifier \in [stage : {"idle", "projects", "matched"}, seen : [Projects -> Rows],
                        moves : [Holders -> SUBSET (Projects \cup {NoProject})]]
BY RowTypes DEF IdleClassifier

LEMMA RegistryTypeInit == RegistryInit => RegistryTypeInv
BY RowTypes, IdleClassifierType, RegistryAssumption
   DEF RegistryInit, RegistryTypeInv, RegistryTypeOK, EditsNameProjects, Listed, Absentee

LEMMA RegistryTypeStep == RegistryTypeInv /\ [RegistryNext]_registryVars => RegistryTypeInv'
<1>. SUFFICES ASSUME RegistryTypeInv, [RegistryNext]_registryVars PROVE RegistryTypeInv'
  OBVIOUS
<1>. USE RegistryAssumption
<1>a. RegistryTypeOK /\ EditsNameProjects
  BY DEF RegistryTypeInv
<1>1. ASSUME NEW e \in Editors, NEW p \in Projects, NEW m \in Mappings, Checks(e, p, m)
      PROVE  RegistryTypeInv'
  BY <1>1, <1>a DEF Checks, RegistryTypeInv, RegistryTypeOK, EditsNameProjects, Listed
<1>2. ASSUME NEW e \in Editors, CommitEdit(e) PROVE RegistryTypeInv'
  <2>1. edit[e].project \in Projects /\ edit[e].mapping \in Mappings
    BY <1>2, <1>a DEF CommitEdit, RegistryTypeOK, EditsNameProjects
  <2>2. registry' \in [Projects -> Rows]
    BY <1>2, <1>a, <2>1 DEF CommitEdit, RegistryTypeOK, Rows
  <2>3. Listed' = Listed \cup {edit[e].project}
    BY <1>2, <1>a, <2>1 DEF CommitEdit, RegistryTypeOK, Listed
  <2>4. edit' \in [Editors -> [project : Projects \cup {NoProject}, mapping : Mappings]]
    BY <1>2, <1>a, RowTypes DEF CommitEdit, RegistryTypeOK
  <2>5. EditsNameProjects'
    BY <1>2, <1>a DEF CommitEdit, RegistryTypeOK, EditsNameProjects
  <2>6. attached' \in [Holders -> Listed' \cup {NoProject}]
    BY <1>2, <1>a, <2>3 DEF CommitEdit, RegistryTypeOK
  <2>. QED
    BY <1>2, <1>a, <2>1, <2>2, <2>3, <2>4, <2>5, <2>6 DEF CommitEdit, RegistryTypeInv, RegistryTypeOK
<1>3. ASSUME NEW e \in Editors, AbandonEdit(e) PROVE RegistryTypeInv'
  BY <1>3, <1>a, RowTypes DEF AbandonEdit, RegistryTypeInv, RegistryTypeOK, EditsNameProjects, Listed
<1>4. ASSUME NEW p \in Projects, RemoveProject(p) PROVE RegistryTypeInv'
  <2>1. registry' \in [Projects -> Rows]
    BY <1>4, <1>a, RowTypes DEF RemoveProject, RegistryTypeOK
  <2>2. Listed' = Listed \ {p}
    BY <1>4, <1>a DEF RemoveProject, RegistryTypeOK, Listed, Absentee
  <2>3. attached' \in [Holders -> Listed' \cup {NoProject}]
    BY <1>4, <1>a, <2>2 DEF RemoveProject, RegistryTypeOK
  <2>. QED
    BY <1>4, <1>a, <2>1, <2>2, <2>3
       DEF RemoveProject, RegistryTypeInv, RegistryTypeOK, EditsNameProjects
<1>5. ASSUME NEW r \in Holders, NEW carried \in TagSets, Retag(r, carried) PROVE RegistryTypeInv'
  BY <1>5, <1>a DEF Retag, RegistryTypeInv, RegistryTypeOK, EditsNameProjects, Listed
<1>6. ASSUME NEW c \in Classifiers, ReadProjects(c) PROVE RegistryTypeInv'
  <2>1. [IdleClassifier EXCEPT !.stage = "projects", !.seen = registry] \in
           [stage : {"idle", "projects", "matched"}, seen : [Projects -> Rows],
            moves : [Holders -> SUBSET (Projects \cup {NoProject})]]
    BY <1>a, IdleClassifierType DEF RegistryTypeOK
  <2>. QED
    BY <1>6, <1>a, <2>1
       DEF ReadProjects, RegistryTypeInv, RegistryTypeOK, EditsNameProjects, Listed
<1>7. ASSUME NEW c \in Classifiers, ReadHolders(c) PROVE RegistryTypeInv'
  <2>1. PICK found \in [Holders -> Projects \cup {NoProject}] :
           classifier' = [classifier EXCEPT ![c].stage = "matched",
                             ![c].moves = [r \in Holders |-> Move(r, found[r])]]
    BY <1>7 DEF ReadHolders
  <2>2. [r \in Holders |-> Move(r, found[r])] \in [Holders -> SUBSET (Projects \cup {NoProject})]
    BY DEF Move
  <2>. DEFINE moves == [r \in Holders |-> Move(r, found[r])]
              next == [stage |-> "matched", seen |-> classifier[c].seen, moves |-> moves]
  <2>3. next \in [stage : {"idle", "projects", "matched"}, seen : [Projects -> Rows],
                   moves : [Holders -> SUBSET (Projects \cup {NoProject})]]
    <3>. HIDE DEF moves
    <3>. QED
      BY <1>a, <2>2 DEF RegistryTypeOK, moves
  <2>4. /\ classifier'[c] = next /\ \A d \in Classifiers \ {c} : classifier'[d] = classifier[d]
        /\ classifier' = [d \in Classifiers |-> classifier'[d]]
    <3>1. classifier' = [classifier EXCEPT ![c].stage = "matched", ![c].moves = moves]
      BY <2>1
    <3>2. /\ classifier[c] \in [stage : {"idle", "projects", "matched"}, seen : [Projects -> Rows],
                               moves : [Holders -> SUBSET (Projects \cup {NoProject})]]
          /\ DOMAIN classifier = Classifiers
      BY <1>a DEF RegistryTypeOK
    <3>. HIDE DEF moves
    <3>3. classifier'[c] = next
      BY <3>1, <3>2
    <3>4. /\ \A d \in Classifiers \ {c} : classifier'[d] = classifier[d]
          /\ classifier' = [d \in Classifiers |-> classifier'[d]]
      BY <3>1, <3>2
    <3>. QED
      BY <3>3, <3>4
  <2>5. classifier' \in [Classifiers ->
           [stage : {"idle", "projects", "matched"}, seen : [Projects -> Rows],
            moves : [Holders -> SUBSET (Projects \cup {NoProject})]]]
    <3>. HIDE DEF next
    <3>. QED
      BY <1>a, <2>3, <2>4 DEF RegistryTypeOK
  <2>. QED
    BY <1>7, <1>a, <2>5
       DEF ReadHolders, RegistryTypeInv, RegistryTypeOK, EditsNameProjects, Listed
<1>8. ASSUME NEW c \in Classifiers, CommitMoves(c) PROVE RegistryTypeInv'
  <2>1. attached' \in [Holders -> Listed \cup {NoProject}]
    BY <1>8, <1>a DEF CommitMoves, RegistryTypeOK
  <2>. QED
    BY <1>8, <1>a, <2>1, IdleClassifierType
       DEF CommitMoves, RegistryTypeInv, RegistryTypeOK, EditsNameProjects, Listed
<1>9. ASSUME NEW c \in Classifiers, AbandonPass(c) PROVE RegistryTypeInv'
  BY <1>9, <1>a, IdleClassifierType
     DEF AbandonPass, RegistryTypeInv, RegistryTypeOK, EditsNameProjects, Listed
<1>10. CASE UNCHANGED registryVars
  BY <1>10, <1>a DEF registryVars, RegistryTypeInv, RegistryTypeOK, EditsNameProjects, Listed
<1>. QED
  BY <1>1, <1>2, <1>3, <1>4, <1>5, <1>6, <1>7, <1>8, <1>9, <1>10
     DEF RegistryNext, CheckRegistration, CheckUpdate

LEMMA RegistryTypeInvariant == RegistrySpec => []RegistryTypeInv
<1>. QED
  BY RegistryTypeInit, RegistryTypeStep, PTL DEF RegistrySpec

\* Every variable keeps its type; in particular no resource is ever left attached to a
\* project that is gone, whichever of a removal and a pass commits first.
THEOREM RegistryTypeCorrect == RegistrySpec => []RegistryTypeOK
<1>1. RegistryTypeInv => RegistryTypeOK
  BY DEF RegistryTypeInv
<1>. QED
  BY <1>1, RegistryTypeInvariant, PTL

-----------------------------------------------------------------------------
(* OverlapOnlyByRace.                                                      *)

\* The mapping of an administrator nobody has overtaken overlaps with no other project.
CheckedApart ==
    \A e \in Editors : e \in calm /\ edit[e] # NoEdit =>
        \A q \in Listed \ {edit[e].project} : ~Overlap(edit[e].mapping, registry[q].mapping)

OverlapInv == CheckedApart /\ OverlapOnlyByRace

LEMMA OverlapInit == RegistryInit => OverlapInv
BY DEF RegistryInit, OverlapInv, CheckedApart, OverlapOnlyByRace, Listed, Absentee

LEMMA OverlapStep ==
    RegistryTypeInv /\ OverlapInv /\ [RegistryNext]_registryVars => OverlapInv'
<1>. SUFFICES ASSUME RegistryTypeInv, OverlapInv, [RegistryNext]_registryVars PROVE OverlapInv'
  OBVIOUS
<1>. USE RegistryAssumption
<1>a. RegistryTypeOK /\ EditsNameProjects
  BY DEF RegistryTypeInv
<1>b. CheckedApart /\ OverlapOnlyByRace
  BY DEF OverlapInv
<1>1. ASSUME NEW e \in Editors, NEW p \in Projects, NEW m \in Mappings, Checks(e, p, m)
      PROVE  OverlapInv'
  <2>1. registry' = registry /\ Listed' = Listed /\ raced' = raced
    BY <1>1 DEF Checks, Listed
  <2>2. edit' = [edit EXCEPT ![e] = [project |-> p, mapping |-> m]] /\ calm' = calm \cup {e}
    BY <1>1 DEF Checks
  <2>3. \A q \in Listed \ {p} : ~Overlap(m, registry[q].mapping)
    BY <1>1 DEF Checks, Rejected
  <2>4. edit'[e] = [project |-> p, mapping |-> m] /\ \A f \in Editors \ {e} : edit'[f] = edit[f]
    BY <1>a, <2>2 DEF RegistryTypeOK
  <2>5. CheckedApart'
    BY <1>b, <2>1, <2>2, <2>3, <2>4 DEF CheckedApart
  <2>. QED
    BY <1>b, <2>1, <2>5 DEF OverlapInv, OverlapOnlyByRace
<1>2. ASSUME NEW e \in Editors, CommitEdit(e) PROVE OverlapInv'
  <2>. DEFINE p == edit[e].project
              m == edit[e].mapping
  <2>1. p \in Projects /\ Listed' = Listed \cup {p}
    BY <1>2, <1>a DEF CommitEdit, RegistryTypeOK, EditsNameProjects, Listed
  <2>2. registry'[p].mapping = m /\ \A q \in Listed \ {p} : registry'[q] = registry[q]
    BY <1>2, <1>a, <2>1 DEF CommitEdit, RegistryTypeOK, Listed
  <2>3. e \in calm => \A q \in Listed \ {p} : ~Overlap(m, registry[q].mapping)
    BY <1>2, <1>b DEF CommitEdit, CheckedApart
  <2>4. raced' = IF e \in calm THEN raced \ {p} ELSE raced \cup {p}
    BY <1>2 DEF CommitEdit
  <2>5. CheckedApart'
    BY <1>2 DEF CommitEdit, CheckedApart
  <2>6. ASSUME NEW q \in Listed \ {p}, p \notin raced'
        PROVE  ~Overlap(registry'[p].mapping, registry'[q].mapping)
    BY <2>2, <2>3, <2>4, <2>6
  <2>7. ASSUME NEW q \in Listed \ {p}, p \notin raced'
        PROVE  ~Overlap(registry'[q].mapping, registry'[p].mapping)
    BY <2>6, <2>7, OverlapIsSymmetric
  <2>8. ASSUME NEW q \in Listed \ {p}, NEW r \in Listed \ {p}, q # r,
               Overlap(registry'[q].mapping, registry'[r].mapping)
        PROVE  q \in raced' \/ r \in raced'
    BY <1>b, <2>2, <2>4, <2>8 DEF OverlapOnlyByRace
  <2>9. OverlapOnlyByRace'
    BY <2>1, <2>6, <2>7, <2>8 DEF OverlapOnlyByRace
  <2>. QED
    BY <2>5, <2>9 DEF OverlapInv
<1>3. ASSUME NEW e \in Editors, AbandonEdit(e) PROVE OverlapInv'
  BY <1>3, <1>a, <1>b
     DEF AbandonEdit, RegistryTypeOK, OverlapInv, CheckedApart, OverlapOnlyByRace, Listed
<1>4. ASSUME NEW p \in Projects, RemoveProject(p) PROVE OverlapInv'
  <2>1. Listed' = Listed \ {p} /\ \A q \in Listed' : registry'[q] = registry[q]
    BY <1>4, <1>a DEF RemoveProject, RegistryTypeOK, Listed, Absentee
  <2>2. raced' = raced \ {p} /\ edit' = edit /\ calm' \subseteq calm
    BY <1>4 DEF RemoveProject
  <2>3. CheckedApart'
    BY <1>b, <2>1, <2>2 DEF CheckedApart
  <2>4. OverlapOnlyByRace'
    BY <1>b, <2>1, <2>2 DEF OverlapOnlyByRace
  <2>. QED
    BY <2>3, <2>4 DEF OverlapInv
<1>5. ASSUME UNCHANGED <<registry, edit, raced>>, calm' \cap Editors \subseteq calm
      PROVE  OverlapInv'
  BY <1>5, <1>b DEF OverlapInv, CheckedApart, OverlapOnlyByRace, Listed
<1>6. ASSUME NEW r \in Holders, NEW carried \in TagSets, Retag(r, carried) PROVE OverlapInv'
  BY <1>6, <1>5 DEF Retag
<1>7. ASSUME NEW c \in Classifiers,
             ReadProjects(c) \/ ReadHolders(c) \/ CommitMoves(c) \/ AbandonPass(c)
      PROVE  OverlapInv'
  BY <1>7, <1>5 DEF ReadProjects, ReadHolders, CommitMoves, AbandonPass
<1>8. CASE UNCHANGED registryVars
  BY <1>8, <1>5 DEF registryVars
<1>. QED
  BY <1>1, <1>2, <1>3, <1>4, <1>6, <1>7, <1>8 DEF RegistryNext, CheckRegistration, CheckUpdate

\* FR-010a: two registered mappings overlap only if one of them was checked while another
\* administrator was committing, for any number of projects and administrators.
THEOREM OverlapOnlyByRaceHolds == RegistrySpec => []OverlapOnlyByRace
<1>1. OverlapInv => OverlapOnlyByRace
  BY DEF OverlapInv
<1>. QED
  BY <1>1, OverlapInit, OverlapStep, RegistryTypeInvariant, PTL DEF RegistrySpec

\* Two registered projects whose mappings both match a resource.
SharesKey(p, q) == DOMAIN registry[p].mapping \cap DOMAIN registry[q].mapping # {}

OneMatchPerKey ==
    \A r \in Holders : \A p, q \in Candidates(registry, tags[r]) :
        p # q /\ SharesKey(p, q) => p \in raced \/ q \in raced

\* find_matching_sda's "at most one match" (AtMostOneMatch): a resource has two matching
\* projects only if their mappings have no tag key in common, which mappings_overlap does
\* not compare, or if one of them was checked while another administrator was committing.
THEOREM OneMatchPerKeyHolds == RegistrySpec => []OneMatchPerKey
<1>1. ASSUME OverlapOnlyByRace, NEW r \in Holders, NEW p \in Candidates(registry, tags[r]),
             NEW q \in Candidates(registry, tags[r]), p # q, SharesKey(p, q)
      PROVE  p \in raced \/ q \in raced
  <2>1. p \in Listed /\ q \in Listed
    BY DEF Candidates, Listed
  <2>2. \A k \in DOMAIN registry[p].mapping \cap DOMAIN registry[q].mapping :
           registry[p].mapping[k] = tags[r][k] /\ registry[q].mapping[k] = tags[r][k]
    BY DEF Candidates, Matches
  <2>3. Overlap(registry[p].mapping, registry[q].mapping)
    BY <1>1, <2>2 DEF Overlap, SharesKey
  <2>. QED
    BY <1>1, <2>1, <2>3 DEF OverlapOnlyByRace
<1>2. OverlapOnlyByRace => OneMatchPerKey
  BY <1>1 DEF OneMatchPerKey
<1>. QED
  BY <1>2, OverlapOnlyByRaceHolds, PTL

-----------------------------------------------------------------------------
(* AttachmentIsCurrent.                                                    *)

\* A pass during which nothing was committed has seen the projects that are registered,
SeesTheRegistry ==
    \A c \in Classifiers : c \in calm /\ classifier[c].stage # "idle" =>
        classifier[c].seen = registry

\* and what it is about to write puts each resource where its tags say.
MovesAreRight ==
    \A c \in Classifiers : c \in calm /\ classifier[c].stage = "matched" =>
        \A r \in Holders : \E p \in MatchesOf(registry, tags[r]) :
                               classifier[c].moves[r] = Move(r, p)

PassInv == SeesTheRegistry /\ MovesAreRight

LEMMA PassInit == RegistryInit => PassInv
BY DEF RegistryInit, PassInv, SeesTheRegistry, MovesAreRight

\* What has to be written depends on the attachments alone.
LEMMA SameMoves ==
    ASSUME attached' = attached
    PROVE  \A r, p : Move(r, p)' = Move(r, p)
BY DEF Move

LEMMA PassStep == RegistryTypeInv /\ PassInv /\ [RegistryNext]_registryVars => PassInv'
<1>. SUFFICES ASSUME RegistryTypeInv, PassInv, [RegistryNext]_registryVars PROVE PassInv'
  OBVIOUS
<1>. USE RegistryAssumption
<1>a. RegistryTypeOK
  BY DEF RegistryTypeInv
<1>b. SeesTheRegistry /\ MovesAreRight
  BY DEF PassInv
<1>1. ASSUME calm' \cap Classifiers = {} PROVE PassInv'
  BY <1>1 DEF PassInv, SeesTheRegistry, MovesAreRight
<1>2. ASSUME UNCHANGED <<registry, tags, attached, classifier>>, calm' \cap Classifiers \subseteq calm
      PROVE  PassInv'
  BY <1>2, <1>b DEF PassInv, SeesTheRegistry, MovesAreRight, Move
<1>3. ASSUME NEW e \in Editors, NEW p \in Projects, NEW m \in Mappings, Checks(e, p, m)
      PROVE  PassInv'
  BY <1>3, <1>2 DEF Checks
<1>4. ASSUME NEW e \in Editors, CommitEdit(e) \/ AbandonEdit(e) PROVE PassInv'
  BY <1>4, <1>1, <1>2 DEF CommitEdit, AbandonEdit
<1>5. ASSUME NEW p \in Projects, RemoveProject(p) PROVE PassInv'
  BY <1>5, <1>1 DEF RemoveProject
<1>6. ASSUME NEW r \in Holders, NEW carried \in TagSets, Retag(r, carried) PROVE PassInv'
  BY <1>6, <1>1 DEF Retag
<1>7. ASSUME NEW c \in Classifiers, ReadProjects(c) PROVE PassInv'
  <2>1. /\ classifier'[c].stage = "projects" /\ classifier'[c].seen = registry
        /\ \A d \in Classifiers \ {c} : classifier'[d] = classifier[d]
    BY <1>7, <1>a DEF ReadProjects, RegistryTypeOK, IdleClassifier
  <2>2. UNCHANGED <<registry, tags, attached>> /\ calm' = calm \cup {c}
    BY <1>7 DEF ReadProjects
  <2>3. SeesTheRegistry'
    BY <1>b, <2>1, <2>2 DEF SeesTheRegistry
  <2>4. MovesAreRight'
    BY <1>b, <2>1, <2>2, SameMoves DEF MovesAreRight
  <2>. QED
    BY <2>3, <2>4 DEF PassInv
<1>8. ASSUME NEW c \in Classifiers, ReadHolders(c) PROVE PassInv'
  <2>1. PICK found \in [Holders -> Projects \cup {NoProject}] :
           /\ \A r \in Holders : found[r] \in MatchesOf(classifier[c].seen, tags[r])
           /\ classifier' = [classifier EXCEPT ![c].stage = "matched",
                                ![c].moves = [r \in Holders |-> Move(r, found[r])]]
    BY <1>8 DEF ReadHolders
  <2>2. UNCHANGED <<registry, tags, attached, calm>> /\ classifier[c].stage # "idle"
    BY <1>8 DEF ReadHolders
  <2>3. /\ classifier'[c].seen = classifier[c].seen
        /\ classifier'[c].moves = [r \in Holders |-> Move(r, found[r])]
        /\ \A d \in Classifiers \ {c} : classifier'[d] = classifier[d]
    BY <1>a, <2>1 DEF RegistryTypeOK
  <2>4. ASSUME c \in calm, NEW r \in Holders
        PROVE  found[r] \in MatchesOf(registry, tags[r])
    BY <1>b, <2>1, <2>2, <2>4 DEF SeesTheRegistry
  <2>5. SeesTheRegistry'
    BY <1>b, <2>2, <2>3 DEF SeesTheRegistry
  <2>6. ASSUME c \in calm, NEW r \in Holders
        PROVE  \E p \in MatchesOf(registry, tags[r]) : classifier'[c].moves[r] = Move(r, p)
    BY <2>3, <2>4, <2>6
  <2>7. ASSUME c \in calm, NEW r \in Holders
        PROVE  \E p \in MatchesOf(registry', tags'[r]) : classifier'[c].moves[r] = Move(r, p)'
    BY <2>2, <2>6, <2>7, SameMoves
  <2>8. ASSUME NEW d \in Classifiers \ {c}, d \in calm, classifier[d].stage = "matched",
               NEW r \in Holders
        PROVE  \E p \in MatchesOf(registry', tags'[r]) : classifier'[d].moves[r] = Move(r, p)'
    BY <1>b, <2>2, <2>3, <2>8, SameMoves DEF MovesAreRight
  <2>9. MovesAreRight'
    BY <2>2, <2>3, <2>7, <2>8 DEF MovesAreRight
  <2>. QED
    BY <2>5, <2>9 DEF PassInv
<1>9. ASSUME NEW c \in Classifiers, CommitMoves(c) PROVE PassInv'
  BY <1>9, <1>1 DEF CommitMoves
<1>10. ASSUME NEW c \in Classifiers, AbandonPass(c) PROVE PassInv'
  <2>1. classifier'[c].stage = "idle" /\ \A d \in Classifiers \ {c} : classifier'[d] = classifier[d]
    BY <1>10, <1>a DEF AbandonPass, RegistryTypeOK, IdleClassifier
  <2>2. UNCHANGED <<registry, tags, attached, calm>>
    BY <1>10 DEF AbandonPass
  <2>3. SeesTheRegistry'
    BY <1>b, <2>1, <2>2 DEF SeesTheRegistry
  <2>4. MovesAreRight'
    BY <1>b, <2>1, <2>2, SameMoves DEF MovesAreRight
  <2>. QED
    BY <2>3, <2>4 DEF PassInv
<1>11. CASE UNCHANGED registryVars
  BY <1>11, <1>2 DEF registryVars
<1>. QED
  BY <1>3, <1>4, <1>5, <1>6, <1>7, <1>8, <1>9, <1>10, <1>11
     DEF RegistryNext, CheckRegistration, CheckUpdate

\* The condition of AttachmentIsCurrent on one commit.
LEMMA CommitIsCurrent ==
    ASSUME RegistryTypeInv, PassInv, NEW c \in Classifiers, c \in calm, CommitMoves(c),
           NEW r \in Holders
    PROVE  attached'[r] \in MatchesOf(registry, tags[r])
<1>1. PICK p \in MatchesOf(registry, tags[r]) : classifier[c].moves[r] = Move(r, p)
  BY DEF PassInv, MovesAreRight, CommitMoves
<1>2. attached'[r] = IF classifier[c].moves[r] = {} THEN attached[r]
                     ELSE CHOOSE q \in classifier[c].moves[r] : TRUE
  BY DEF CommitMoves
<1>3. CASE attached[r] = p
  BY <1>1, <1>2, <1>3 DEF Move
<1>4. CASE attached[r] # p
  <2>1. classifier[c].moves[r] = {p}
    BY <1>1, <1>4 DEF Move
  <2>. QED
    BY <1>2, <2>1
<1>. QED
  BY <1>3, <1>4

\* FR-008, FR-009, FR-010: a pass during which nothing was committed leaves every resource
\* where its tags say, for any number of resources, projects and overlapping passes.
THEOREM AttachmentIsCurrentHolds == RegistrySpec => AttachmentIsCurrent
<1>1. RegistryTypeInv /\ PassInv /\ [RegistryNext]_registryVars =>
        [\A c \in Classifiers : c \in calm /\ CommitMoves(c) =>
            \A r \in Holders : attached'[r] \in MatchesOf(registry, tags[r])]_registryVars
  BY CommitIsCurrent
<1>. QED
  BY <1>1, PassInit, PassStep, RegistryTypeInvariant, PTL DEF RegistrySpec, AttachmentIsCurrent

-----------------------------------------------------------------------------
(***************************************************************************)
(* OwnerAttribution.                                                       *)
(*                                                                         *)
(* An owner can only be replaced by a better one because of what a sweep   *)
(* holds: creators that did create a resource of the name, never more      *)
(* writes of somebody than there were (TrailIsTrue), rows that rest on     *)
(* evidence (RowsAreEvidenced), nothing taken from a creator on record     *)
(* (KeepsCreators); and no two sweeps have written one row (WroteApart).   *)
(***************************************************************************)
\* Resources of one short name, and those in regions a sweep has left behind.
Behind(n, region) == {q \in Assets : Name[q] = n /\ Place[q] < region}

\* The creators a sweep holds did create a resource of that name, and it counts no write
\* twice.
TrailIsTrue(s) ==
    \A n \in Names :
       /\ s.created[n] # Nobody => \E q \in Assets : Name[q] = n /\ s.created[n] = creator[q]
       /\ \A h \in Humans : s.modified[n][h] <= WritesTo(Behind(n, s.region), h)

\* The rows it has written rest on evidence,
RowsAreEvidenced(s) == \A r \in Assets : s.wrote[r] # NoOwner => Evidenced(r, s.wrote[r])

\* and take nothing from a creator on record.
KeepsCreators(s) ==
    \A r \in Assets : s.wrote[r] # NoOwner /\ owner[r].confidence = "high"
                         => s.wrote[r].confidence = "high"

SweepIsSafe(s) == TrailIsTrue(s) /\ RowsAreEvidenced(s) /\ KeepsCreators(s)

\* Two sweeps have not written the same row: the second waits for the first.
WroteApart(s, t) == \A r \in Assets : s.wrote[r] = NoOwner \/ t.wrote[r] = NoOwner

OwnerInv ==
    /\ OwnerTypeOK
    /\ \A w \in Sweepers : SweepIsSafe(sweep[w])
    /\ \A v, w \in Sweepers : v # w => WroteApart(sweep[v], sweep[w])

LEMMA OwnerRowTypes ==
    /\ NoOwner \in Owners /\ NoOwner.confidence = "none"
    /\ \A row \in Owners : row # NoOwner => /\ row.by \in Humans /\ row.confidence \in {"medium", "high"}
                                            /\ row.by # Nobody
    /\ \A h \in Humans, c \in {"medium", "high"}, k \in Contacts :
          /\ [by |-> h, confidence |-> c, contact |-> k] \in Owners
          /\ [by |-> h, confidence |-> c, contact |-> k] # NoOwner
BY OwnerAssumption DEF Owners, NoOwner

\* The writes of a human to two sets of resources without a common one add up, ...
LEMMA WritesAdd ==
    ASSUME writes \in [Assets -> [Humans -> 0..MinWrites]], NEW h \in Humans,
           NEW S \in SUBSET Assets, NEW T \in SUBSET Assets
    PROVE  /\ WritesTo(S, h) \in Nat
           /\ S \subseteq T => WritesTo(S, h) <= WritesTo(T, h)
           /\ S \cap T = {} => WritesTo(S \cup T, h) = WritesTo(S, h) + WritesTo(T, h)
<1>. DEFINE f == [r \in Assets |-> writes[r][h]]
<1>1. /\ \A s \in SUBSET Assets : IsFiniteSet(s) /\ Integral(f, s)
      /\ \A r \in Assets : f[r] \in Nat
  BY OwnerAssumption, FS_Subset DEF Integral
<1>2. ASSUME NEW s \in SUBSET Assets
      PROVE  /\ WritesTo(s, h) = SumFunctionOnSet(f, s)
             /\ WritesTo(s, h) \in Nat
  <2>. DEFINE g == [r \in s |-> writes[r][h]]
  <2>1. WritesTo(s, h) = SumFunctionOnSet(g, s)
    BY DEF WritesTo, SumFunction
  <2>2. \A r \in s : f[r] = g[r]
    OBVIOUS
  <2>. HIDE DEF f, g
  <2>3. SumFunctionOnSet(f, s) = SumFunctionOnSet(g, s)
    BY <1>1, <2>2, SumsAgree
  <2>4. SumFunctionOnSet(f, s) \in Nat
    BY <1>1, SumIsPositive
  <2>. QED
    BY <2>1, <2>3, <2>4
<1>. HIDE DEF f
<1>3. ASSUME NEW s \in SUBSET Assets, NEW t \in SUBSET s
      PROVE  WritesTo(s, h) = WritesTo(t, h) + WritesTo(s \ t, h)
  <2>1. SumFunctionOnSet(f, s) = SumFunctionOnSet(f, t) + SumFunctionOnSet(f, s \ t)
    BY <1>1, SumOfParts
  <2>. QED
    BY <1>2, <2>1
<1>4. S \subseteq T => WritesTo(T, h) = WritesTo(S, h) + WritesTo(T \ S, h)
  BY <1>3
<1>5. ASSUME S \cap T = {} PROVE WritesTo(S \cup T, h) = WritesTo(S, h) + WritesTo(T, h)
  <2>1. (S \cup T) \ S = T /\ S \cup T \in SUBSET Assets /\ S \in SUBSET (S \cup T)
    BY <1>5
  <2>2. WritesTo(S \cup T, h) = WritesTo(S, h) + WritesTo((S \cup T) \ S, h)
    BY <1>3, <2>1
  <2>. QED
    BY <2>1, <2>2
<1>6. WritesTo(S, h) \in Nat /\ WritesTo(T, h) \in Nat /\ WritesTo(T \ S, h) \in Nat
  BY <1>2
<1>. QED
  BY <1>4, <1>5, <1>6

\* ... and only grow.
LEMMA WritesGrow ==
    ASSUME writes \in [Assets -> [Humans -> 0..MinWrites]],
           writes' \in [Assets -> [Humans -> 0..MinWrites]],
           \A r \in Assets, h \in Humans : writes[r][h] <= writes'[r][h],
           NEW h \in Humans, NEW S \in SUBSET Assets
    PROVE  WritesTo(S, h) <= WritesTo(S, h)'
<1>. DEFINE f == [r \in S |-> writes[r][h]]
            g == [r \in S |-> writes'[r][h]]
<1>1. WritesTo(S, h) = SumFunctionOnSet(f, S) /\ WritesTo(S, h)' = SumFunctionOnSet(g, S)
  BY DEF WritesTo, SumFunction
<1>2. /\ IsFiniteSet(S) /\ Integral(f, S) /\ Integral(g, S)
      /\ \A r \in S : f[r] <= g[r]
  BY OwnerAssumption, FS_Subset DEF Integral
<1>. HIDE DEF f, g
<1>. QED
  BY <1>1, <1>2, SumsGrow

LEMMA IdleSweepFacts ==
    /\ IdleSweep \in Sweeps /\ IdleSweep.stage = "idle" /\ IdleSweep.region = 1
    /\ \A r \in Assets : IdleSweep.wrote[r] = NoOwner
    /\ \A n \in Names : IdleSweep.created[n] = Nobody
    /\ \A n \in Names : \A h \in Humans : IdleSweep.modified[n][h] = 0
BY OwnerAssumption, OwnerRowTypes DEF IdleSweep, Sweeps, NoTrail, NoWrites

\* A sweep that has read and written nothing is safe.
LEMMA FreshSweep ==
    ASSUME OwnerTypeOK, NEW s, \A r \in Assets : s.wrote[r] = NoOwner,
           \A n \in Names : s.created[n] = Nobody,
           \A n \in Names : \A h \in Humans : s.modified[n][h] = 0
    PROVE  SweepIsSafe(s) /\ \A t : WroteApart(s, t) /\ WroteApart(t, s)
<1>1. \A n \in Names : \A h \in Humans : WritesTo(Behind(n, s.region), h) \in Nat
  BY WritesAdd DEF OwnerTypeOK, Behind
<1>2. TrailIsTrue(s)
  BY <1>1 DEF TrailIsTrue
<1>. QED
  BY <1>2 DEF SweepIsSafe, RowsAreEvidenced, KeepsCreators, WroteApart

LEMMA OwnerInitInv == OwnerInit => OwnerInv
<1>. SUFFICES ASSUME OwnerInit PROVE OwnerInv
  OBVIOUS
<1>1. OwnerTypeOK
  <2>1. /\ writes \in [Assets -> [Humans -> 0..MinWrites]]
        /\ age \in [Assets -> {"recent", "modified", "forgotten"}]
        /\ owner \in [Assets -> Owners] /\ sweep \in [Sweepers -> Sweeps]
    BY OwnerAssumption, OwnerRowTypes, IdleSweepFacts DEF OwnerInit
  <2>2. swept \in 0..MaxSweeps /\ events \in 0..MaxEvents
    BY OwnerAssumption DEF OwnerInit
  <2>3. pattern \in BOOLEAN /\ overrides \subseteq Humans /\ alive \subseteq Assets
    BY DEF OwnerInit
  <2>. QED
    BY <2>1, <2>2, <2>3 DEF OwnerInit, OwnerTypeOK
<1>2. \A w \in Sweepers : sweep[w] = IdleSweep
  BY DEF OwnerInit
<1>. QED
  BY <1>1, <1>2, IdleSweepFacts, FreshSweep DEF OwnerInv

\* What is true of the trail and of a row stays so, whatever happens in the cloud.
LEMMA EvidenceStands ==
    ASSUME OwnerTypeOK, OwnerTypeOK', creator' = creator,
           \A r \in Assets, h \in Humans : writes[r][h] <= writes'[r][h]
    PROVE  /\ \A s \in Sweeps : TrailIsTrue(s) => TrailIsTrue(s)'
           /\ \A r \in Assets : \A row \in Owners :
                 row # NoOwner /\ Evidenced(r, row) => Evidenced(r, row)'
<1>0. ASSUME NEW h \in Humans, NEW S \in SUBSET Assets
      PROVE  /\ WritesTo(S, h) <= WritesTo(S, h)'
             /\ WritesTo(S, h) \in Nat /\ WritesTo(S, h)' \in Nat
  <2>1. WritesTo(S, h) <= WritesTo(S, h)'
    BY WritesGrow DEF OwnerTypeOK
  <2>2. WritesTo(S, h) \in Nat
    BY WritesAdd DEF OwnerTypeOK
  <2>3. WritesTo(S, h)' \in Nat
    <3>. DEFINE g == [r \in S |-> writes'[r][h]]
    <3>1. WritesTo(S, h)' = SumFunctionOnSet(g, S)
      BY DEF WritesTo, SumFunction
    <3>2. IsFiniteSet(S) /\ \A r \in S : g[r] \in Nat
      BY OwnerAssumption, FS_Subset DEF OwnerTypeOK
    <3>. HIDE DEF g
    <3>. QED
      BY <3>1, <3>2, SumIsPositive
  <2>. QED
    BY <2>1, <2>2, <2>3
<1>1. ASSUME NEW s \in Sweeps, TrailIsTrue(s) PROVE TrailIsTrue(s)'
  <2>. SUFFICES ASSUME NEW n \in Names
                PROVE  /\ s.created[n] # Nobody => \E q \in Assets : Name[q] = n /\ s.created[n] = creator'[q]
                       /\ \A h \in Humans : s.modified[n][h] <= WritesTo(Behind(n, s.region), h)'
    BY DEF TrailIsTrue
  <2>1. s.created[n] # Nobody => \E q \in Assets : Name[q] = n /\ s.created[n] = creator'[q]
    BY <1>1 DEF TrailIsTrue
  <2>2. ASSUME NEW h \in Humans PROVE s.modified[n][h] <= WritesTo(Behind(n, s.region), h)'
    <3>1. PICK S \in SUBSET Assets : S = Behind(n, s.region)
      BY DEF Behind
    <3>2. s.modified[n][h] <= WritesTo(S, h) /\ s.modified[n][h] \in Nat
      BY <1>1, <3>1 DEF TrailIsTrue, Sweeps
    <3>3. WritesTo(Behind(n, s.region), h)' = WritesTo(S, h)'
      BY <3>1 DEF Behind, WritesTo
    <3>. QED
      BY <1>0, <3>2, <3>3
  <2>. QED
    BY <2>1, <2>2
<1>2. ASSUME NEW r \in Assets, NEW row \in Owners, row # NoOwner, Evidenced(r, row)
      PROVE  Evidenced(r, row)'
  <2>1. PICK S \in SUBSET Assets : S = Namesakes(r)
    BY DEF Namesakes
  <2>2. row.by \in Humans
    BY <1>2, OwnerRowTypes
  <2>3. WritesTo(Namesakes(r), row.by)' = WritesTo(S, row.by)'
    BY <2>1 DEF Namesakes, WritesTo
  <2>4. WritesTo(Namesakes(r), row.by) >= MinWrites => WritesTo(Namesakes(r), row.by)' >= MinWrites
    BY <1>0, <2>1, <2>2, <2>3, OwnerAssumption
  <2>. QED
    BY <1>2, <2>4 DEF Evidenced, Namesakes
<1>. QED
  BY <1>1, <1>2

OnlySweepOf(w) ==
    /\ \A v \in Sweepers \ {w} : sweep'[v] = sweep[v]
    /\ sweep' = [v \in Sweepers |-> sweep'[v]]

\* Steps of a sweep that only change its own record.
LEMMA OneSweepStep ==
    ASSUME OwnerInv, NEW w \in Sweepers, NEW s \in Sweeps, SweepIsSafe(s),
           \A v \in Sweepers \ {w} : WroteApart(s, sweep[v]),
           OnlySweepOf(w), sweep'[w] = s, swept' \in 0..MaxSweeps,
           UNCHANGED <<trailVars, alive, identityVars, owner, events>>
    PROVE  OwnerInv'
<1>0. UNCHANGED <<creator, writes, age, alive, pattern, overrides, owner, events>>
  BY DEF trailVars, identityVars
<1>1. OwnerTypeOK'
  BY <1>0 DEF OwnerInv, OwnerTypeOK, OnlySweepOf
<1>2. \A v \in Sweepers : SweepIsSafe(sweep'[v])
  BY DEF OwnerInv, OnlySweepOf
<1>3. ASSUME NEW v \in Sweepers PROVE SweepIsSafe(sweep[v])'
  <2>1. TrailIsTrue(sweep[v])'
    BY <1>0, <1>2 DEF SweepIsSafe, TrailIsTrue, WritesTo, Behind
  <2>2. RowsAreEvidenced(sweep[v])'
    <3>1. RowsAreEvidenced(sweep'[v])
      BY <1>2 DEF SweepIsSafe
    <3>. QED
      BY <1>0, <3>1 DEF RowsAreEvidenced, Evidenced, WritesTo, Namesakes
  <2>3. KeepsCreators(sweep[v])'
    <3>1. KeepsCreators(sweep'[v])
      BY <1>2 DEF SweepIsSafe
    <3>. QED
      BY <1>0, <3>1 DEF KeepsCreators
  <2>. QED
    BY <2>1, <2>2, <2>3 DEF SweepIsSafe
<1>4. \A u, v \in Sweepers : u # v => WroteApart(sweep'[u], sweep'[v])
  BY DEF OwnerInv, OnlySweepOf, WroteApart
<1>. QED
  BY <1>1, <1>3, <1>4 DEF OwnerInv, WroteApart

\* Steps of the cloud, the inventory and the administrators.
LEMMA OwnerWorldStep ==
    ASSUME OwnerInv, OwnerTypeOK', UNCHANGED <<creator, owner, sweep, swept>>,
           \A r \in Assets, h \in Humans : writes[r][h] <= writes'[r][h]
    PROVE  OwnerInv'
<1>1. ASSUME NEW w \in Sweepers PROVE SweepIsSafe(sweep[w])'
  <2>1. PICK s \in Sweeps : s = sweep[w] /\ s = sweep'[w]
    BY DEF OwnerInv, OwnerTypeOK
  <2>2. SweepIsSafe(s)
    BY <2>1 DEF OwnerInv
  <2>3. \A r \in Assets : s.wrote[r] \in Owners
    BY DEF Sweeps
  <2>4. TrailIsTrue(s)'
    BY <2>2, EvidenceStands DEF OwnerInv, SweepIsSafe
  <2>5. RowsAreEvidenced(s)'
    BY <2>2, <2>3, EvidenceStands DEF OwnerInv, SweepIsSafe, RowsAreEvidenced
  <2>6. KeepsCreators(s)'
    BY <2>2 DEF SweepIsSafe, KeepsCreators
  <2>. QED
    BY <2>1, <2>4, <2>5, <2>6
       DEF SweepIsSafe, TrailIsTrue, RowsAreEvidenced, KeepsCreators, WritesTo, Behind, Evidenced, Namesakes
<1>. QED
  BY <1>1 DEF OwnerInv, WroteApart

LEMMA CloudAndSettings ==
    ASSUME OwnerInv,
           \/ \E r \in Assets : \/ Forget(r) \/ DeleteAsset(r)
                                \/ \E h \in Humans : Modify(r, h)
           \/ \E valid \in BOOLEAN : SetPattern(valid)
           \/ \E h \in Humans : SetOverride(h)
    PROVE  OwnerInv'
<1>. USE OwnerAssumption
<1>a. OwnerTypeOK
  BY DEF OwnerInv
<1>b. Happens => events' \in 0..MaxEvents
  BY <1>a DEF Happens, OwnerTypeOK
<1>1. ASSUME NEW r \in Assets, NEW h \in Humans, Modify(r, h) PROVE OwnerInv'
  <2>1. /\ UNCHANGED <<creator, age, alive, pattern, overrides, owner, sweep, swept>>
        /\ events' \in 0..MaxEvents
    BY <1>1, <1>b DEF Modify, identityVars
  <2>2. /\ writes' \in [Assets -> [Humans -> 0..MinWrites]]
        /\ \A q \in Assets, g \in Humans : writes[q][g] <= writes'[q][g]
    BY <1>1, <1>a DEF Modify, OwnerTypeOK
  <2>3. OwnerTypeOK'
    BY <1>a, <2>1, <2>2 DEF OwnerTypeOK
  <2>. QED
    BY <2>1, <2>2, <2>3, OwnerWorldStep
<1>2. ASSUME UNCHANGED <<creator, writes, owner, sweep, swept>>, OwnerTypeOK' PROVE OwnerInv'
  <2>1. \A q \in Assets, g \in Humans : writes[q][g] <= writes'[q][g]
    BY <1>2, <1>a DEF OwnerTypeOK
  <2>. QED
    BY <1>2, <2>1, OwnerWorldStep
<1>3. ASSUME NEW r \in Assets, Forget(r) PROVE OwnerInv'
  <2>1. /\ UNCHANGED <<creator, writes, alive, pattern, overrides, owner, sweep, swept>>
        /\ events' \in 0..MaxEvents
    BY <1>3, <1>b DEF Forget, identityVars
  <2>2. age' \in [Assets -> {"recent", "modified", "forgotten"}]
    BY <1>3, <1>a DEF Forget, OwnerTypeOK
  <2>3. OwnerTypeOK'
    BY <1>a, <2>1, <2>2 DEF OwnerTypeOK
  <2>. QED
    BY <1>2, <2>1, <2>3
<1>4. ASSUME NEW r \in Assets, DeleteAsset(r) PROVE OwnerInv'
  <2>1. /\ UNCHANGED <<creator, writes, age, pattern, overrides, owner, sweep, swept>>
        /\ events' \in 0..MaxEvents /\ alive' \subseteq alive
    BY <1>4, <1>b DEF DeleteAsset, identityVars, trailVars
  <2>2. OwnerTypeOK'
    BY <1>a, <2>1 DEF OwnerTypeOK
  <2>. QED
    BY <1>2, <2>1, <2>2
<1>5. ASSUME NEW valid \in BOOLEAN, SetPattern(valid) PROVE OwnerInv'
  <2>1. /\ UNCHANGED <<creator, writes, age, alive, overrides, owner, sweep, swept>>
        /\ events' \in 0..MaxEvents /\ pattern' \in BOOLEAN
    BY <1>5, <1>b DEF SetPattern, trailVars
  <2>2. OwnerTypeOK'
    BY <1>a, <2>1 DEF OwnerTypeOK
  <2>. QED
    BY <1>2, <2>1, <2>2
<1>6. ASSUME NEW h \in Humans, SetOverride(h) PROVE OwnerInv'
  <2>1. /\ UNCHANGED <<creator, writes, age, alive, pattern, owner, sweep, swept>>
        /\ events' \in 0..MaxEvents /\ overrides' = overrides \cup {h}
    BY <1>6, <1>b DEF SetOverride, trailVars
  <2>2. OwnerTypeOK'
    BY <1>a, <2>1 DEF OwnerTypeOK
  <2>. QED
    BY <1>2, <2>1, <2>2
<1>. QED
  BY <1>1, <1>3, <1>4, <1>5, <1>6

LEMMA BeginSweepStep ==
    ASSUME OwnerInv, NEW w \in Sweepers, BeginSweep(w)
    PROVE  OwnerInv'
<1>. DEFINE s == [IdleSweep EXCEPT !.stage = "sweeping"]
<1>1. /\ s \in Sweeps /\ \A r \in Assets : s.wrote[r] = NoOwner
      /\ \A n \in Names : s.created[n] = Nobody
      /\ \A n \in Names : \A h \in Humans : s.modified[n][h] = 0
  BY IdleSweepFacts DEF Sweeps
<1>2. /\ sweep' = [sweep EXCEPT ![w] = s] /\ swept' \in 0..MaxSweeps
      /\ UNCHANGED <<trailVars, alive, identityVars, owner, events>>
  BY OwnerAssumption DEF BeginSweep, OwnerInv, OwnerTypeOK
<1>. HIDE DEF s
<1>3. OnlySweepOf(w) /\ sweep'[w] = s
  BY <1>2 DEF OwnerInv, OwnerTypeOK, OnlySweepOf
<1>4. SweepIsSafe(s) /\ \A v \in Sweepers \ {w} : WroteApart(s, sweep[v])
  BY <1>1, FreshSweep DEF OwnerInv
<1>. QED
  BY <1>1, <1>2, <1>3, <1>4, OneSweepStep

LEMMA RollbackSweepStep ==
    ASSUME OwnerInv, NEW w \in Sweepers, RollbackSweep(w)
    PROVE  OwnerInv'
<1>1. /\ OnlySweepOf(w) /\ sweep'[w] = IdleSweep /\ swept' \in 0..MaxSweeps
      /\ UNCHANGED <<trailVars, alive, identityVars, owner, events>>
  BY DEF RollbackSweep, OwnerInv, OwnerTypeOK, OnlySweepOf
<1>2. SweepIsSafe(IdleSweep) /\ \A v \in Sweepers \ {w} : WroteApart(IdleSweep, sweep[v])
  BY IdleSweepFacts, FreshSweep DEF OwnerInv
<1>. QED
  BY <1>1, <1>2, IdleSweepFacts, OneSweepStep

LEMMA SweepRegionStep ==
    ASSUME OwnerInv, NEW w \in Sweepers, SweepRegion(w)
    PROVE  OwnerInv'
<1>. DEFINE q == sweep[w]
            s == sweep'[w]
            created == [n \in Names |->
               IF Made(n, q.region) = {} THEN q.created[n]
               ELSE creator[CHOOSE r \in Made(n, q.region) : TRUE]]
            modified == [n \in Names |-> [h \in Humans |->
               q.modified[n][h] + WritesTo(Changed(n, q.region), h)]]
<1>0. OwnerTypeOK /\ q \in Sweeps /\ SweepIsSafe(q) /\ q.region \in 1..LastRegion
  <2>1. OwnerTypeOK /\ q \in Sweeps /\ SweepIsSafe(q)
    BY DEF OwnerInv, OwnerTypeOK
  <2>2. q.region <= LastRegion
    BY DEF SweepRegion
  <2>. HIDE DEF q
  <2>3. q.region \in 1..LastRegion
    BY <2>1, <2>2, OwnerAssumption DEF Sweeps
  <2>. QED
    BY <2>1, <2>3
<1>1. /\ sweep' = [sweep EXCEPT ![w].region = @ + 1, ![w].created = created,
                                ![w].modified = modified]
      /\ UNCHANGED <<trailVars, alive, identityVars, owner, swept, events>>
  BY DEF SweepRegion
<1>2. ASSUME NEW n \in Names, NEW h \in Humans
      PROVE  /\ modified[n][h] \in Nat
             /\ modified[n][h] <= WritesTo(Behind(n, q.region + 1), h)
  <2>. DEFINE old == Behind(n, q.region)
              here == Here(n, q.region)
              some == Changed(n, q.region)
  <2>1. /\ old \in SUBSET Assets /\ here \in SUBSET Assets /\ some \in SUBSET here
        /\ old \cap here = {} /\ Behind(n, q.region + 1) = old \cup here
    <3>1. \A r \in Assets : Place[r] \in Nat
      BY OwnerAssumption DEF ScanRegions
    <3>2. q.region \in Nat
      BY <1>0
    <3>3. \A k \in Nat : (k < q.region + 1 <=> k < q.region \/ k = q.region) /\ ~(k < q.region /\ k = q.region)
      BY <3>2
    <3>. HIDE DEF q
    <3>4. Behind(n, q.region + 1) = old \cup here
      BY <3>1, <3>3 DEF Behind, Here
    <3>5. old \cap here = {}
      BY <3>1, <3>3 DEF Behind, Here
    <3>. QED
      BY <3>4, <3>5 DEF Behind, Here, Changed
  <2>2. q.modified[n][h] \in Nat /\ q.modified[n][h] <= WritesTo(old, h)
    BY <1>0 DEF SweepIsSafe, TrailIsTrue, Sweeps
  <2>3. modified[n][h] = q.modified[n][h] + WritesTo(some, h)
    OBVIOUS
  <2>. HIDE DEF q, old, here, some, modified
  <2>4. /\ WritesTo(some, h) <= WritesTo(here, h) /\ WritesTo(some, h) \in Nat
        /\ WritesTo(old \cup here, h) = WritesTo(old, h) + WritesTo(here, h)
        /\ WritesTo(old, h) \in Nat /\ WritesTo(here, h) \in Nat
    <3>1. some \in SUBSET Assets /\ writes \in [Assets -> [Humans -> 0..MinWrites]]
      BY <1>0, <2>1 DEF OwnerTypeOK
    <3>2. WritesTo(some, h) <= WritesTo(here, h) /\ WritesTo(some, h) \in Nat
      BY <2>1, <3>1, WritesAdd
    <3>3. WritesTo(old \cup here, h) = WritesTo(old, h) + WritesTo(here, h)
      BY <2>1, <3>1, WritesAdd
    <3>4. WritesTo(old, h) \in Nat /\ WritesTo(here, h) \in Nat
      BY <2>1, <3>1, WritesAdd
    <3>. QED
      BY <3>2, <3>3, <3>4
  <2>5. WritesTo(Behind(n, q.region + 1), h) = WritesTo(old \cup here, h)
    BY <2>1, Zenon
  <2>. QED
    BY <2>2, <2>3, <2>4, <2>5
<1>3. ASSUME NEW n \in Names
      PROVE  /\ created[n] \in Humans \cup {Robot, Nobody}
             /\ created[n] # Nobody => \E r \in Assets : Name[r] = n /\ created[n] = creator[r]
  <2>1. CASE Made(n, q.region) = {}
    BY <1>0, <2>1 DEF SweepIsSafe, TrailIsTrue, Sweeps
  <2>2. CASE Made(n, q.region) # {}
    <3>1. PICK r \in Made(n, q.region) : created[n] = creator[r]
      BY <2>2
    <3>2. r \in Assets /\ Name[r] = n
      BY DEF Made, Here
    <3>. QED
      BY <1>0, <3>1, <3>2 DEF OwnerTypeOK
  <2>. QED
    BY <2>1, <2>2
<1>4. /\ created \in [Names -> Humans \cup {Robot, Nobody}]
      /\ modified \in [Names -> [Humans -> Nat]]
  BY <1>2, <1>3
<1>. HIDE DEF created, modified
<1>5. /\ s.stage = q.stage /\ s.region = q.region + 1 /\ s.created = created
      /\ s.modified = modified /\ s.wrote = q.wrote
  BY <1>0, <1>1 DEF OwnerTypeOK, Sweeps
<1>6. s \in Sweeps
  <2>. DEFINE next == q.region + 1
  <2>1. next \in 1..(LastRegion + 1)
    BY <1>0, OwnerAssumption
  <2>2. s = [q EXCEPT !.region = next, !.created = created, !.modified = modified]
    BY <1>0, <1>1 DEF OwnerTypeOK
  <2>. HIDE DEF next, q, s
  <2>. QED
    BY <1>0, <1>4, <2>1, <2>2 DEF Sweeps
<1>7. OnlySweepOf(w)
  BY <1>0, <1>1 DEF OwnerTypeOK, OnlySweepOf
<1>. HIDE DEF q, s
<1>8. SweepIsSafe(s)
  BY <1>0, <1>2, <1>3, <1>5 DEF SweepIsSafe, TrailIsTrue, RowsAreEvidenced, KeepsCreators
<1>9. \A v \in Sweepers \ {w} : WroteApart(s, sweep[v])
  BY <1>5 DEF OwnerInv, WroteApart, q
<1>10. swept' \in 0..MaxSweeps
  BY <1>0, <1>1 DEF OwnerTypeOK
<1>. QED
  BY <1>1, <1>6, <1>7, <1>8, <1>9, <1>10, OneSweepStep DEF s

LEMMA ListAssetsStep ==
    ASSUME OwnerInv, NEW w \in Sweepers, ListAssets(w)
    PROVE  OwnerInv'
<1>. DEFINE q == sweep[w]
            s == sweep'[w]
<1>1. /\ OwnerTypeOK /\ q \in Sweeps /\ SweepIsSafe(q) /\ alive \subseteq Assets
      /\ sweep' = [sweep EXCEPT ![w].stage = "attributing", ![w].left = alive]
      /\ UNCHANGED <<trailVars, alive, identityVars, owner, swept, events>>
      /\ swept' \in 0..MaxSweeps
  BY DEF OwnerInv, OwnerTypeOK, ListAssets
<1>2. /\ s \in Sweeps /\ s.region = q.region /\ s.created = q.created
      /\ s.modified = q.modified /\ s.wrote = q.wrote
  BY <1>1 DEF OwnerTypeOK, Sweeps
<1>3. OnlySweepOf(w)
  BY <1>1 DEF OwnerTypeOK, OnlySweepOf
<1>. HIDE DEF q, s
<1>4. SweepIsSafe(s)
  BY <1>1, <1>2 DEF SweepIsSafe, TrailIsTrue, RowsAreEvidenced, KeepsCreators
<1>5. \A v \in Sweepers \ {w} : WroteApart(s, sweep[v])
  BY <1>2 DEF OwnerInv, WroteApart, q
<1>. QED
  BY <1>1, <1>2, <1>3, <1>4, <1>5, OneSweepStep DEF s

LEMMA ContactIsKnown == \A r, principal0 : Contact(r, principal0) \in Contacts
BY DEF Contact, Contacts

\* Whoever a sweep finds did create, or often enough modify, a resource of that name.
LEMMA FoundIsEvidenced ==
    ASSUME OwnerInv, NEW w \in Sweepers, NEW r \in Assets, NEW new \in Found(w, r)
    PROVE  new \in Owners /\ new # NoOwner /\ Evidenced(r, new)
<1>. DEFINE n == Name[r]
            q == sweep[w]
<1>1. OwnerTypeOK /\ q \in Sweeps /\ TrailIsTrue(q) /\ n \in Names
  BY DEF OwnerInv, OwnerTypeOK, SweepIsSafe, Names
<1>2. CASE IsHuman(q.created[n])
  <2>. DEFINE by == q.created[n]
  <2>1. new = [by |-> by, confidence |-> "high", contact |-> Contact(r, by)]
    BY <1>2 DEF Found
  <2>2. by \in Humans
    BY <1>2 DEF IsHuman
  <2>3. \E p \in Assets : Name[p] = n /\ by = creator[p]
    BY <1>1, <2>2, OwnerAssumption DEF TrailIsTrue
  <2>. HIDE DEF by
  <2>4. new \in Owners /\ new # NoOwner
    BY <2>1, <2>2, ContactIsKnown, OwnerRowTypes
  <2>5. Evidenced(r, new)
    BY <2>1, <2>3 DEF Evidenced, Namesakes
  <2>. QED
    BY <2>4, <2>5
<1>3. CASE ~IsHuman(q.created[n])
  <2>1. PICK h \in MostFrequent(q.modified[n]) :
           new = [by |-> h, confidence |-> "medium", contact |-> Contact(r, h)]
    BY <1>3 DEF Found
  <2>2. h \in Humans /\ q.modified[n][h] >= MinWrites
    BY DEF MostFrequent
  <2>. DEFINE S == Behind(n, q.region)
              T == Namesakes(r)
  <2>3. S \in SUBSET T /\ T \in SUBSET Assets
    BY DEF Behind, Namesakes
  <2>4. q.modified[n][h] <= WritesTo(S, h) /\ q.modified[n][h] \in Nat
    BY <1>1, <2>2 DEF TrailIsTrue, Sweeps
  <2>5. new \in Owners /\ new # NoOwner
    BY <2>1, <2>2, ContactIsKnown, OwnerRowTypes
  <2>. HIDE DEF S, q, n
  <2>6. WritesTo(S, h) <= WritesTo(T, h) /\ WritesTo(S, h) \in Nat /\ WritesTo(T, h) \in Nat
    BY <1>1, <2>2, <2>3, WritesAdd DEF OwnerTypeOK
  <2>7. WritesTo(T, h) >= MinWrites
    BY <2>2, <2>4, <2>6, OwnerAssumption
  <2>8. Evidenced(r, new)
    BY <2>1, <2>7 DEF Evidenced
  <2>. QED
    BY <2>5, <2>8
<1>. QED
  BY <1>2, <1>3

LEMMA AttributeAssetStep ==
    ASSUME OwnerInv, NEW w \in Sweepers, NEW r \in Assets, AttributeAsset(w, r)
    PROVE  OwnerInv'
<1>. DEFINE q == sweep[w]
            s == sweep'[w]
<1>1. /\ OwnerTypeOK /\ q \in Sweeps /\ SweepIsSafe(q) /\ OnlySweepOf(w)
      /\ UNCHANGED <<trailVars, alive, identityVars, owner, swept, events>>
      /\ swept' \in 0..MaxSweeps
  BY DEF OwnerInv, OwnerTypeOK, AttributeAsset, OnlySweepOf
<1>2. ASSUME NEW row \in Owners, s = [q EXCEPT !.left = @ \ {r}, !.wrote[r] = row],
             \/ row = q.wrote[r]
             \/ /\ row # NoOwner /\ Evidenced(r, row) /\ MayReplace(r, row)
                /\ \A v \in Sweepers \ {w} : sweep[v].wrote[r] = NoOwner
      PROVE  OwnerInv'
  <2>1. /\ s \in Sweeps /\ s.region = q.region /\ s.created = q.created
        /\ s.modified = q.modified /\ s.wrote[r] = row
        /\ \A p \in Assets \ {r} : s.wrote[p] = q.wrote[p]
    <3>. DEFINE wrote == [q.wrote EXCEPT ![r] = row]
                left == q.left \ {r}
    <3>1. q.wrote \in [Assets -> Owners] /\ left \in SUBSET Assets
      BY <1>1 DEF Sweeps
    <3>2. /\ wrote \in [Assets -> Owners] /\ wrote[r] = row
          /\ \A p \in Assets \ {r} : wrote[p] = q.wrote[p]
      BY <1>2, <3>1
    <3>3. s = [q EXCEPT !.left = left, !.wrote = wrote]
      BY <1>2
    <3>. HIDE DEF wrote, left, q, s
    <3>4. s \in Sweeps /\ s.wrote = wrote
      BY <1>1, <3>1, <3>2, <3>3 DEF Sweeps
    <3>5. s.region = q.region /\ s.created = q.created /\ s.modified = q.modified
      BY <1>1, <3>3 DEF Sweeps
    <3>. QED
      BY <3>2, <3>4, <3>5
  <2>. HIDE DEF q, s
  <2>2. TrailIsTrue(s)
    BY <1>1, <2>1 DEF SweepIsSafe, TrailIsTrue
  <2>3. RowsAreEvidenced(s)
    BY <1>1, <1>2, <2>1 DEF SweepIsSafe, RowsAreEvidenced
  <2>4. KeepsCreators(s)
    BY <1>1, <1>2, <2>1 DEF SweepIsSafe, KeepsCreators, MayReplace
  <2>5. \A v \in Sweepers \ {w} : WroteApart(q, sweep[v])
    BY DEF OwnerInv, q
  <2>6. \A v \in Sweepers \ {w} : WroteApart(s, sweep[v])
    BY <1>2, <2>1, <2>5 DEF WroteApart
  <2>. QED
    BY <1>1, <2>1, <2>2, <2>3, <2>4, <2>6, OneSweepStep DEF s, SweepIsSafe
<1>3. q.wrote \in [Assets -> Owners] /\ q.wrote[r] \in Owners
  BY <1>1 DEF Sweeps
<1>4. CASE sweep' = [sweep EXCEPT ![w].left = @ \ {r}]
  <2>1. s = [q EXCEPT !.left = @ \ {r}]
    BY <1>1, <1>4 DEF OwnerTypeOK
  <2>2. s = [q EXCEPT !.left = @ \ {r}, !.wrote[r] = q.wrote[r]]
    <3>. HIDE DEF q, s
    <3>. QED
      BY <1>1, <1>3, <2>1 DEF Sweeps
  <2>. HIDE DEF q, s
  <2>. QED
    BY <1>2, <1>3, <2>2
<1>5. ASSUME NEW new \in Found(w, r), \A v \in Sweepers \ {w} : sweep[v].wrote[r] = NoOwner,
             sweep' = [sweep EXCEPT ![w].left = @ \ {r},
                          ![w].wrote[r] = IF MayReplace(r, new) THEN new ELSE @]
      PROVE  OwnerInv'
  <2>. DEFINE row == IF MayReplace(r, new) THEN new ELSE q.wrote[r]
  <2>1. new \in Owners /\ new # NoOwner /\ Evidenced(r, new)
    BY FoundIsEvidenced
  <2>2. row \in Owners
    BY <1>3, <2>1
  <2>3. s = [q EXCEPT !.left = @ \ {r}, !.wrote[r] = row]
    BY <1>1, <1>5 DEF OwnerTypeOK
  <2>4. \/ row = q.wrote[r]
        \/ row # NoOwner /\ Evidenced(r, row) /\ MayReplace(r, row)
    BY <2>1
  <2>. HIDE DEF q, s, row
  <2>. QED
    BY <1>2, <1>5, <2>2, <2>3, <2>4
<1>. QED
  BY <1>4, <1>5 DEF AttributeAsset

LEMMA CommitSweepStep ==
    ASSUME OwnerInv, NEW w \in Sweepers, CommitSweep(w)
    PROVE  OwnerInv'
<1>. DEFINE q == sweep[w]
<1>1. /\ OwnerTypeOK /\ q \in Sweeps /\ SweepIsSafe(q)
      /\ UNCHANGED <<creator, writes, age, alive, pattern, overrides, swept, events>>
      /\ sweep' = [sweep EXCEPT ![w] = IdleSweep]
  BY DEF OwnerInv, OwnerTypeOK, CommitSweep, trailVars, identityVars
<1>2. /\ owner' \in [Assets -> Owners]
      /\ \A r \in Assets : owner'[r] = IF q.wrote[r] = NoOwner THEN owner[r] ELSE q.wrote[r]
  BY <1>1 DEF CommitSweep, OwnerTypeOK, Sweeps
<1>3. OwnerTypeOK'
  BY <1>1, <1>2, IdleSweepFacts DEF OwnerTypeOK
<1>4. ASSUME NEW v \in Sweepers PROVE SweepIsSafe(sweep[v])'
  <2>1. PICK s \in Sweeps : s = sweep'[v]
    BY <1>3 DEF OwnerTypeOK
  <2>2. SweepIsSafe(s)
    BY <1>1, <2>1, IdleSweepFacts, FreshSweep DEF OwnerInv, OwnerTypeOK
  <2>3. \A r \in Assets : s.wrote[r] = NoOwner \/ q.wrote[r] = NoOwner
    <3>1. CASE v = w
      BY <1>1, <2>1, <3>1, IdleSweepFacts DEF OwnerTypeOK
    <3>2. CASE v # w
      BY <1>1, <2>1, <3>2 DEF OwnerInv, OwnerTypeOK, WroteApart
    <3>. QED
      BY <3>1, <3>2
  <2>4. \A r \in Assets : s.wrote[r] # NoOwner => owner'[r] = owner[r]
    BY <1>2, <2>3
  <2>5. TrailIsTrue(s)'
    BY <1>1, <2>2 DEF SweepIsSafe, TrailIsTrue, WritesTo, Behind
  <2>6. RowsAreEvidenced(s)'
    BY <1>1, <2>2 DEF SweepIsSafe, RowsAreEvidenced, Evidenced, WritesTo, Namesakes
  <2>7. KeepsCreators(s)'
    BY <2>2, <2>4 DEF SweepIsSafe, KeepsCreators
  <2>. QED
    BY <2>1, <2>5, <2>6, <2>7
       DEF SweepIsSafe, TrailIsTrue, RowsAreEvidenced, KeepsCreators, WritesTo, Behind, Evidenced, Namesakes
<1>5. ASSUME NEW u \in Sweepers, NEW v \in Sweepers, u # v PROVE WroteApart(sweep'[u], sweep'[v])
  <2>1. CASE u # w /\ v # w
    BY <1>1, <1>5, <2>1 DEF OwnerInv, OwnerTypeOK
  <2>2. CASE u = w \/ v = w
    BY <1>1, <2>2, IdleSweepFacts DEF OwnerTypeOK, WroteApart
  <2>. QED
    BY <2>1, <2>2
<1>. QED
  BY <1>3, <1>4, <1>5 DEF OwnerInv, WroteApart

LEMMA OwnerStep == OwnerInv /\ [OwnerNext]_ownerVars => OwnerInv'
<1>. SUFFICES ASSUME OwnerInv, [OwnerNext]_ownerVars PROVE OwnerInv'
  OBVIOUS
<1>1. CASE UNCHANGED ownerVars
  <2>1. UNCHANGED <<creator, writes, age, alive, pattern, overrides, owner, sweep, swept, events>>
    BY <1>1 DEF ownerVars, trailVars, identityVars
  <2>2. OwnerTypeOK' /\ \A q \in Assets, g \in Humans : writes[q][g] <= writes'[q][g]
    BY <2>1 DEF OwnerInv, OwnerTypeOK
  <2>. QED
    BY <2>1, <2>2, OwnerWorldStep
<1>. QED
  BY <1>1, CloudAndSettings, BeginSweepStep, SweepRegionStep, ListAssetsStep, CommitSweepStep,
     RollbackSweepStep, AttributeAssetStep DEF OwnerNext

LEMMA OwnerInvariant == OwnerSpec => []OwnerInv
BY OwnerInitInv, OwnerStep, PTL DEF OwnerSpec

\* Every variable of the ownership worker keeps its type.
THEOREM OwnerTypeCorrect == OwnerSpec => []OwnerTypeOK
<1>1. OwnerInv => OwnerTypeOK
  BY DEF OwnerInv
<1>. QED
  BY <1>1, OwnerInvariant, PTL

\* The condition of OwnersOnlyImprove on one step.
Improve ==
    \A r \in Assets :
       /\ owner[r] # NoOwner => owner'[r] # NoOwner
       /\ owner[r].confidence = "high" => owner'[r].confidence = "high"
       /\ owner'[r] # owner[r] => Evidenced(r, owner'[r])

LEMMA CommitImproves ==
    ASSUME OwnerInv, NEW w \in Sweepers, CommitSweep(w)
    PROVE  Improve
<1>1. \A r \in Assets : owner'[r] = IF sweep[w].wrote[r] = NoOwner THEN owner[r] ELSE sweep[w].wrote[r]
  BY DEF CommitSweep
<1>2. RowsAreEvidenced(sweep[w]) /\ KeepsCreators(sweep[w])
  BY DEF OwnerInv, SweepIsSafe
<1>. QED
  BY <1>1, <1>2 DEF Improve, RowsAreEvidenced, KeepsCreators

\* FR-023, FR-025, FR-026: whatever order repeated and overlapping sweeps finish in, and
\* whatever the trail forgets, an owner on record is never lost, a creator never replaced
\* by a fallback, and none rests on less than the threshold of writes or on a creator that
\* is not one, for any number of resources, regions, humans and sweeps.
THEOREM OwnersOnlyImproveHolds == OwnerSpec => OwnersOnlyImprove
<1>1. ASSUME UNCHANGED owner PROVE Improve
  BY <1>1 DEF Improve
<1>2. OwnerInv /\ [OwnerNext]_ownerVars => [Improve]_ownerVars
  <2>. SUFFICES ASSUME OwnerInv, OwnerNext PROVE Improve
    BY <1>1 DEF ownerVars
  <2>1. ASSUME NEW r \in Assets,
               \/ Forget(r) \/ DeleteAsset(r)
               \/ \E h \in Humans : Modify(r, h)
        PROVE  Improve
    BY <1>1, <2>1 DEF Forget, DeleteAsset, Modify
  <2>2. ASSUME \/ \E valid \in BOOLEAN : SetPattern(valid)
               \/ \E h \in Humans : SetOverride(h)
        PROVE  Improve
    BY <1>1, <2>2 DEF SetPattern, SetOverride
  <2>3. ASSUME NEW w \in Sweepers,
               \/ BeginSweep(w) \/ SweepRegion(w) \/ ListAssets(w) \/ RollbackSweep(w)
               \/ \E r \in Assets : AttributeAsset(w, r)
        PROVE  Improve
    BY <1>1, <2>3 DEF BeginSweep, SweepRegion, ListAssets, RollbackSweep, AttributeAsset
  <2>. QED
    BY <2>1, <2>2, <2>3, CommitImproves DEF OwnerNext
<1>. QED
  BY <1>2, OwnerInvariant, PTL DEF OwnerSpec, OwnersOnlyImprove, Improve

HighMeansCreatorOfUnshared ==
    \A r \in Assets :
        Namesakes(r) = {r} /\ owner[r].confidence = "high" => owner[r].by = creator[r]

\* FR-020 (HighMeansCreator): whoever is on record as the creator of a resource has created
\* it, unless another resource of the account has the same short name; nothing else -- no
\* repeated or overlapping sweep, no forgotten event -- puts a creator on record wrongly.
THEOREM HighMeansCreatorUnlessShared == OwnerSpec => []HighMeansCreatorOfUnshared
<1>1. OwnerInit => HighMeansCreatorOfUnshared
  BY DEF OwnerInit, HighMeansCreatorOfUnshared, NoOwner
<1>2. OwnerNext => creator' = creator
  BY DEF OwnerNext, Forget, DeleteAsset, Modify, SetPattern, SetOverride, BeginSweep, SweepRegion,
     ListAssets, CommitSweep, RollbackSweep, AttributeAsset, trailVars
<1>3. ASSUME HighMeansCreatorOfUnshared, UNCHANGED creator, Improve
      PROVE  HighMeansCreatorOfUnshared'
  <2>. SUFFICES ASSUME NEW r \in Assets, Namesakes(r) = {r}, owner'[r].confidence = "high"
                PROVE  owner'[r].by = creator[r]
    BY <1>3 DEF HighMeansCreatorOfUnshared, Namesakes
  <2>1. CASE owner'[r] = owner[r]
    BY <1>3, <2>1 DEF HighMeansCreatorOfUnshared
  <2>2. CASE owner'[r] # owner[r]
    BY <1>3, <2>2 DEF Improve, Evidenced
  <2>. QED
    BY <2>1, <2>2
<1>4. HighMeansCreatorOfUnshared /\ UNCHANGED ownerVars => HighMeansCreatorOfUnshared'
  BY DEF HighMeansCreatorOfUnshared, Namesakes, ownerVars, trailVars
<1>5. HighMeansCreatorOfUnshared /\ [OwnerNext]_ownerVars /\ [Improve]_ownerVars =>
         HighMeansCreatorOfUnshared'
  BY <1>2, <1>3, <1>4
<1>. QED
  BY <1>1, <1>5, OwnersOnlyImproveHolds, PTL DEF OwnerSpec, OwnersOnlyImprove, Improve

-----------------------------------------------------------------------------
(***************************************************************************)
(* IamHygiene.                                                             *)
(*                                                                         *)
(* The invariant says of every pass what its decisions rest on             *)
(* (DecidedOnEvidence), and of a pass nobody has overtaken that its        *)
(* decisions are complete for the accounts it has analysed (Complete);     *)
(* FlagsCounted bounds the number of flags by the runs that have begun.    *)
(***************************************************************************)
Marks == [Principals -> Nat]

PassRecords == [stage : {"idle", "next", "analysed", "decided", "broken"},
                left : SUBSET Verified, account : SUBSET Verified,
                listed : SUBSET Principals, unused : SUBSET Principals,
                raise : SUBSET Principals, clear : Marks,
                analysed : SUBSET Verified, alone : BOOLEAN]

\* A flag is raised for what appeared unused, and cleared for what did not, in accounts
\* that could be read; an account is read once.
DecidedOnEvidence(r) ==
    /\ r.analysed \cap r.left = {} /\ r.account \cap r.left = {}
    /\ r.stage \in {"analysed", "decided"} \/ r.account = {}
    /\ r.stage = "analysed" => r.account \cap r.analysed = {}
    /\ \A p \in r.raise : p \in r.unused /\ AccountOf[p] \in r.analysed
    /\ \A p \in Principals : r.clear[p] # 0 => p \notin r.unused /\ AccountOf[p] \in r.analysed

\* Nothing of those accounts is left undecided.
Complete(r) ==
    r.alone => \A p \in Principals : AccountOf[p] \in r.analysed =>
                  IF p \in r.unused THEN p \in r.raise \/ flag[p] # 0 ELSE r.clear[p] = flag[p]

HygieneInv ==
    /\ flag \in Marks /\ raised \in Marks
    /\ pass \in [Passes -> PassRecords]
    /\ \A w \in Passes : DecidedOnEvidence(pass[w]) /\ Complete(pass[w])

LEMMA IdlePassFacts ==
    /\ IdlePass \in PassRecords
    /\ IdlePass.stage = "idle" /\ IdlePass.analysed = {} /\ IdlePass.account = {}
    /\ IdlePass.raise = {} /\ IdlePass.left = {} /\ \A p \in Principals : IdlePass.clear[p] = 0
BY DEF IdlePass, PassRecords, Marks, NoFlags

\* Which principals belong to an account.
LEMMA AccountMembers == \A a : \A p \in Principals : p \in In(a) <=> AccountOf[p] = a
BY DEF In

LEMMA HygieneInitInv == HygieneInit => HygieneInv
<1>. SUFFICES ASSUME HygieneInit PROVE HygieneInv
  OBVIOUS
<1>1. \A w \in Passes : pass[w] = IdlePass
  BY DEF HygieneInit
<1>2. flag \in Marks /\ raised \in Marks /\ pass \in [Passes -> PassRecords]
  BY IdlePassFacts DEF HygieneInit, NoFlags, Marks
<1>. QED
  BY <1>1, <1>2, IdlePassFacts DEF HygieneInv, DecidedOnEvidence, Complete

OnlyPassOf(w) ==
    /\ \A v \in Passes \ {w} : pass'[v] = pass[v]
    /\ pass' = [v \in Passes |-> pass'[v]]

\* Steps of a pass that only change its own record.
LEMMA OnePassStep ==
    ASSUME HygieneInv, NEW w \in Passes, NEW r \in PassRecords,
           DecidedOnEvidence(r), Complete(r), OnlyPassOf(w), pass'[w] = r, UNCHANGED flagVars
    PROVE  HygieneInv'
<1>1. flag' \in Marks /\ raised' \in Marks /\ pass' \in [Passes -> PassRecords]
  BY DEF HygieneInv, OnlyPassOf, flagVars
<1>2. \A v \in Passes : DecidedOnEvidence(pass'[v]) /\ Complete(pass'[v])
  BY DEF HygieneInv, OnlyPassOf
<1>3. \A v \in Passes : Complete(pass[v])'
  BY <1>2 DEF Complete, flagVars
<1>. QED
  BY <1>1, <1>2, <1>3 DEF HygieneInv, DecidedOnEvidence

\* A record in which nothing has been analysed yet is safe.
LEMMA FreshRecord ==
    ASSUME NEW r, r.analysed = {}, r.account = {}, r.raise = {},
           \A p \in Principals : r.clear[p] = 0
    PROVE  DecidedOnEvidence(r) /\ Complete(r)
BY DEF DecidedOnEvidence, Complete

LEMMA BeginPassStep ==
    ASSUME HygieneInv, NEW w \in Passes, BeginPass(w)
    PROVE  HygieneInv'
<1>. DEFINE r == [IdlePass EXCEPT !.stage = "next", !.left = Verified]
<1>1. r \in PassRecords
  BY IdlePassFacts DEF PassRecords
<1>2. /\ r.analysed = {} /\ r.account = {} /\ r.raise = {} /\ r.stage = "next"
      /\ \A p \in Principals : r.clear[p] = 0
  BY DEF IdlePass, NoFlags
<1>3. pass' = [pass EXCEPT ![w] = r] /\ UNCHANGED flagVars
  BY DEF BeginPass
<1>. HIDE DEF r
<1>4. OnlyPassOf(w) /\ pass'[w] = r
  BY <1>3 DEF HygieneInv, OnlyPassOf
<1>5. DecidedOnEvidence(r) /\ Complete(r)
  BY <1>2, FreshRecord
<1>. QED
  BY <1>1, <1>3, <1>4, <1>5, OnePassStep

LEMMA RollbackPassStep ==
    ASSUME HygieneInv, NEW w \in Passes, RollbackPass(w)
    PROVE  HygieneInv'
<1>1. OnlyPassOf(w) /\ pass'[w] = IdlePass /\ UNCHANGED flagVars
  BY DEF RollbackPass, HygieneInv, OnlyPassOf
<1>2. DecidedOnEvidence(IdlePass) /\ Complete(IdlePass)
  BY IdlePassFacts, FreshRecord
<1>. QED
  BY <1>1, <1>2, IdlePassFacts, OnePassStep

LEMMA AnalyseStep ==
    ASSUME HygieneInv, NEW w \in Passes, NEW a \in Verified, Analyse(w, a)
    PROVE  HygieneInv'
<1>. DEFINE q == pass[w]
            r == pass'[w]
            found == {p \in In(a) : IsUnused(p)}
            listed == {p \in In(a) : principal[p].there}
<1>1. /\ q \in PassRecords /\ DecidedOnEvidence(q) /\ Complete(q)
      /\ q.stage = "next" /\ a \in q.left /\ UNCHANGED flagVars
      /\ found \subseteq Principals /\ listed \subseteq Principals
  BY DEF Analyse, HygieneInv, In
<1>2. pass' = [pass EXCEPT ![w].stage = "analysed", ![w].left = @ \ {a}, ![w].account = {a},
                  ![w].listed = @ \cup listed, ![w].unused = @ \cup found]
  BY DEF Analyse
<1>3. \A p \in found : AccountOf[p] = a
  BY DEF In
<1>. HIDE DEF found, listed
<1>4. OnlyPassOf(w)
  BY <1>2 DEF HygieneInv, OnlyPassOf
<1>5. r \in PassRecords
  BY <1>1, <1>2 DEF HygieneInv, PassRecords
<1>6. /\ r.left = q.left \ {a} /\ r.raise = q.raise /\ r.clear = q.clear
      /\ r.analysed = q.analysed /\ r.alone = q.alone
      /\ r.stage = "analysed" /\ r.account = {a} /\ r.unused = q.unused \cup found
  BY <1>1, <1>2 DEF HygieneInv, PassRecords
<1>. HIDE DEF q, r
<1>7. a \notin q.analysed
  BY <1>1 DEF DecidedOnEvidence
<1>8. DecidedOnEvidence(r)
  BY <1>1, <1>3, <1>6, <1>7 DEF DecidedOnEvidence
<1>9. Complete(r)
  BY <1>1, <1>3, <1>6, <1>7 DEF Complete
<1>. QED
  BY <1>1, <1>4, <1>5, <1>8, <1>9, OnePassStep DEF r

LEMMA FailAnalysisStep ==
    ASSUME HygieneInv, NEW w \in Passes, NEW a \in Verified, Fail(w, a)
    PROVE  HygieneInv'
<1>. DEFINE q == pass[w]
            r == pass'[w]
<1>1. /\ q \in PassRecords /\ DecidedOnEvidence(q) /\ Complete(q) /\ UNCHANGED flagVars
      /\ pass' = [pass EXCEPT ![w].left = @ \ {a}]
  BY DEF Fail, HygieneInv
<1>2. OnlyPassOf(w) /\ r \in PassRecords
  BY <1>1 DEF HygieneInv, OnlyPassOf, PassRecords
<1>3. /\ r.left = q.left \ {a} /\ r.raise = q.raise /\ r.clear = q.clear
      /\ r.analysed = q.analysed /\ r.alone = q.alone
      /\ r.stage = q.stage /\ r.account = q.account /\ r.unused = q.unused
  BY <1>1 DEF HygieneInv, PassRecords
<1>. HIDE DEF q, r
<1>4. DecidedOnEvidence(r) /\ Complete(r)
  BY <1>1, <1>3 DEF DecidedOnEvidence, Complete
<1>. QED
  BY <1>1, <1>2, <1>4, OnePassStep DEF r

LEMMA ReadFlagsStep ==
    ASSUME HygieneInv, NEW w \in Passes, ReadFlags(w)
    PROVE  HygieneInv'
<1>. DEFINE q == pass[w]
            r == pass'[w]
<1>1. /\ q \in PassRecords /\ DecidedOnEvidence(q) /\ Complete(q) /\ q.stage = "analysed"
      /\ flag \in Marks /\ UNCHANGED flagVars
  BY DEF ReadFlags, HygieneInv
<1>2. PICK a \in q.account :
         pass' = [pass EXCEPT ![w].stage = "decided", ![w].analysed = @ \cup {a},
            ![w].raise = @ \cup {p \in In(a) : flag[p] = 0 /\ p \in pass[w].unused},
            ![w].clear = [p \in Principals |-> IF p \in In(a) /\ Clears(w, p) THEN flag[p] ELSE @[p]]]
  BY DEF ReadFlags
<1>. DEFINE clear == [p \in Principals |-> IF p \in In(a) /\ Clears(w, p) THEN flag[p] ELSE q.clear[p]]
            raise == {p \in In(a) : flag[p] = 0 /\ p \in q.unused}
<1>3. clear \in Marks /\ raise \subseteq Principals
  BY <1>1 DEF Marks, PassRecords, In
<1>4. /\ \A p \in Principals : AccountOf[p] = a =>
            clear[p] = (IF flag[p] # 0 /\ p \notin q.unused THEN flag[p] ELSE q.clear[p])
      /\ \A p \in Principals : AccountOf[p] # a => clear[p] = q.clear[p]
      /\ \A p \in Principals : p \in raise <=> AccountOf[p] = a /\ flag[p] = 0 /\ p \in q.unused
  BY AccountMembers DEF Clears
<1>5. pass' = [pass EXCEPT ![w].stage = "decided", ![w].analysed = @ \cup {a},
                  ![w].raise = @ \cup raise, ![w].clear = clear]
  BY <1>2
<1>. HIDE DEF clear, raise
<1>6. OnlyPassOf(w)
  BY <1>5 DEF HygieneInv, OnlyPassOf
<1>7. r \in PassRecords
  <2>1. r = [q EXCEPT !.stage = "decided", !.analysed = @ \cup {a}, !.raise = @ \cup raise,
                      !.clear = clear]
    BY <1>5 DEF HygieneInv
  <2>2. a \in Verified
    BY <1>1 DEF PassRecords
  <2>. HIDE DEF q, r
  <2>. QED
    BY <1>1, <1>3, <2>1, <2>2 DEF PassRecords
<1>8. /\ r.stage = "decided" /\ r.left = q.left /\ r.account = q.account /\ r.alone = q.alone
      /\ r.analysed = q.analysed \cup {a} /\ r.raise = q.raise \cup raise /\ r.clear = clear
      /\ r.unused = q.unused
  BY <1>1, <1>5 DEF HygieneInv, PassRecords
<1>9. a \notin q.analysed /\ a \notin q.left
  BY <1>1 DEF DecidedOnEvidence
<1>. HIDE DEF q, r
<1>10. DecidedOnEvidence(r)
  BY <1>1, <1>3, <1>4, <1>8, <1>9 DEF DecidedOnEvidence
<1>11. \A p \in Principals : AccountOf[p] = a => q.clear[p] = 0
  BY <1>1, <1>9 DEF DecidedOnEvidence
<1>12. Complete(r)
  BY <1>1, <1>3, <1>4, <1>8, <1>9, <1>11 DEF Complete
<1>. QED
  BY <1>1, <1>6, <1>7, <1>10, <1>12, OnePassStep DEF r

LEMMA FlushFlagsStep ==
    ASSUME HygieneInv, NEW w \in Passes, FlushFlags(w)
    PROVE  HygieneInv'
<1>. DEFINE q == pass[w]
            r == pass'[w]
<1>1. /\ q \in PassRecords /\ DecidedOnEvidence(q) /\ Complete(q) /\ UNCHANGED flagVars
  BY DEF FlushFlags, HygieneInv
<1>2. OnlyPassOf(w)
  BY DEF FlushFlags, HygieneInv, OnlyPassOf
<1>3. r \in PassRecords
  BY <1>1 DEF FlushFlags, HygieneInv, PassRecords
<1>4. /\ r.stage \in {"broken", "next"} /\ r.account = {} /\ r.left = q.left /\ r.alone = q.alone
      /\ r.analysed = q.analysed /\ r.raise = q.raise /\ r.clear = q.clear /\ r.unused = q.unused
  BY <1>1 DEF FlushFlags, HygieneInv, PassRecords
<1>. HIDE DEF q, r
<1>5. DecidedOnEvidence(r) /\ Complete(r)
  BY <1>1, <1>4 DEF DecidedOnEvidence, Complete
<1>. QED
  BY <1>1, <1>2, <1>3, <1>5, OnePassStep DEF r

LEMMA CommitPassStep ==
    ASSUME HygieneInv, NEW w \in Passes, CommitPass(w)
    PROVE  HygieneInv'
<1>1. flag' \in Marks /\ raised' \in Marks
  BY DEF CommitPass, HygieneInv, Marks
<1>2. pass' = [v \in Passes |-> IF v = w THEN IdlePass ELSE [pass[v] EXCEPT !.alone = FALSE]]
  BY DEF CommitPass
<1>3. ASSUME NEW v \in Passes
      PROVE  /\ pass'[v] \in PassRecords /\ DecidedOnEvidence(pass'[v])
             /\ pass'[v].alone = FALSE \/ pass'[v].analysed = {}
  <2>1. CASE v = w
    BY <1>2, <2>1, IdlePassFacts DEF DecidedOnEvidence
  <2>2. CASE v # w
    <3>1. pass[v] \in PassRecords /\ DecidedOnEvidence(pass[v])
      BY DEF HygieneInv
    <3>2. pass'[v] = [pass[v] EXCEPT !.alone = FALSE]
      BY <1>2, <2>2
    <3>. QED
      BY <3>1, <3>2 DEF DecidedOnEvidence, PassRecords
  <2>. QED
    BY <2>1, <2>2
<1>4. \A v \in Passes : Complete(pass[v])'
  BY <1>3 DEF Complete
<1>. QED
  BY <1>1, <1>2, <1>3, <1>4 DEF HygieneInv, DecidedOnEvidence

LEMMA HygieneStep == HygieneInv /\ [HygieneNext]_hygieneVars => HygieneInv'
<1>. SUFFICES ASSUME HygieneInv, [HygieneNext]_hygieneVars PROVE HygieneInv'
  OBVIOUS
<1>1. ASSUME UNCHANGED <<flagVars, pass>> PROVE HygieneInv'
  BY <1>1 DEF HygieneInv, DecidedOnEvidence, Complete, flagVars
<1>2. ASSUME NEW p \in Principals,
             CreatePrincipal(p) \/ Use(p) \/ GoQuiet(p) \/ DeletePrincipal(p)
      PROVE  HygieneInv'
  BY <1>1, <1>2 DEF CreatePrincipal, Use, GoQuiet, DeletePrincipal, Becomes
<1>3. CASE UNCHANGED hygieneVars
  BY <1>1, <1>3 DEF hygieneVars
<1>. QED
  BY <1>2, <1>3, BeginPassStep, RollbackPassStep, AnalyseStep, FailAnalysisStep, ReadFlagsStep, FlushFlagsStep, CommitPassStep
     DEF HygieneNext

-----------------------------------------------------------------------------
(* The theorem.                                                            *)

\* The condition of FlagsFollowEvidence on one step.
Follow ==
    /\ \A p \in Principals : flag'[p] # flag[p] =>
          \E w \in Passes : /\ Commits(w) /\ AccountOf[p] \in pass[w].analysed
                            /\ (flag'[p] # 0) = (p \in pass[w].unused)
    /\ \A w \in Passes : Commits(w) /\ pass[w].alone =>
          \A p \in Principals : AccountOf[p] \in pass[w].analysed =>
             ((flag'[p] # 0) = (p \in pass[w].unused))

LEMMA CommitFollows ==
    ASSUME HygieneInv, NEW w \in Passes, CommitPass(w)
    PROVE  Follow
<1>1. DecidedOnEvidence(pass[w]) /\ Complete(pass[w]) /\ flag \in Marks /\ raised \in Marks
  BY DEF HygieneInv
<1>2. \A p \in Principals : flag'[p] = IF p \in pass[w].raise THEN raised[p] + 1
                                       ELSE IF flag[p] = pass[w].clear[p] THEN 0 ELSE flag[p]
  BY DEF CommitPass
<1>3. /\ begun' = begun /\ pass[w].stage = "next" /\ pass'[w].stage = "idle"
      /\ \A v \in Passes \ {w} : pass'[v].stage = pass[v].stage
  BY IdlePassFacts DEF CommitPass, HygieneInv, PassRecords
<1>4. ASSUME NEW p \in Principals, flag'[p] # flag[p]
      PROVE  /\ Commits(w) /\ AccountOf[p] \in pass[w].analysed
             /\ (flag'[p] # 0) = (p \in pass[w].unused)
  <2>1. Commits(w)
    BY <1>3, <1>4 DEF Commits, flagVars
  <2>2. CASE p \in pass[w].raise
    <3>1. flag'[p] # 0 /\ p \in pass[w].unused /\ AccountOf[p] \in pass[w].analysed
      BY <1>1, <1>2, <2>2 DEF DecidedOnEvidence, Marks
    <3>. QED
      BY <2>1, <3>1
  <2>3. CASE p \notin pass[w].raise
    <3>1. flag'[p] = 0 /\ p \notin pass[w].unused /\ AccountOf[p] \in pass[w].analysed
      BY <1>1, <1>2, <1>4, <2>3 DEF DecidedOnEvidence
    <3>. QED
      BY <2>1, <3>1
  <2>. QED
    BY <2>2, <2>3
<1>5. ASSUME NEW v \in Passes, Commits(v), pass[v].alone,
             NEW p \in Principals, AccountOf[p] \in pass[v].analysed
      PROVE  (flag'[p] # 0) = (p \in pass[v].unused)
  <2>1. v = w
    BY <1>3, <1>5 DEF Commits
  <2>2. CASE p \in pass[w].unused
    <3>1. p \in pass[w].raise \/ (flag[p] # 0 /\ pass[w].clear[p] = 0)
      BY <1>1, <1>5, <2>1, <2>2 DEF Complete, DecidedOnEvidence
    <3>2. flag'[p] # 0
      BY <1>1, <1>2, <3>1 DEF Marks
    <3>. QED
      BY <2>1, <2>2, <3>2
  <2>3. CASE p \notin pass[w].unused
    <3>1. p \notin pass[w].raise /\ pass[w].clear[p] = flag[p]
      BY <1>1, <1>5, <2>1, <2>3 DEF Complete, DecidedOnEvidence
    <3>2. flag'[p] = 0
      BY <1>2, <3>1
    <3>. QED
      BY <2>1, <2>3, <3>2
  <2>. QED
    BY <2>2, <2>3
<1>. QED
  BY <1>4, <1>5 DEF Follow

\* FR-019, FR-020: flags change only when a run commits, only those of accounts it could
\* read and in the direction of its evidence, and a run nobody has overtaken leaves none
\* wrong, for any number of accounts, principals and runs.
THEOREM FlagsFollowEvidenceHolds == HygieneSpec => FlagsFollowEvidence
<1>1. ASSUME UNCHANGED flagVars PROVE Follow
  BY <1>1 DEF Follow, Commits, flagVars
<1>2. HygieneInv /\ [HygieneNext]_hygieneVars => Follow
  <2>. SUFFICES ASSUME HygieneInv, [HygieneNext]_hygieneVars PROVE Follow
    OBVIOUS
  <2>1. ASSUME NEW p \in Principals,
               CreatePrincipal(p) \/ Use(p) \/ GoQuiet(p) \/ DeletePrincipal(p)
        PROVE  Follow
    BY <1>1, <2>1 DEF CreatePrincipal, Use, GoQuiet, DeletePrincipal, Becomes
  <2>2. ASSUME NEW w \in Passes,
               BeginPass(w) \/ ReadFlags(w) \/ FlushFlags(w) \/ RollbackPass(w)
        PROVE  Follow
    BY <1>1, <2>2 DEF BeginPass, ReadFlags, FlushFlags, RollbackPass
  <2>3. ASSUME NEW w \in Passes, NEW a \in Verified, Analyse(w, a) \/ Fail(w, a) PROVE Follow
    BY <1>1, <2>3 DEF Analyse, Fail
  <2>4. CASE UNCHANGED hygieneVars
    BY <1>1, <2>4 DEF hygieneVars
  <2>. QED
    BY <2>1, <2>2, <2>3, <2>4, CommitFollows DEF HygieneNext
<1>3. HygieneInv /\ [HygieneNext]_hygieneVars => [Follow]_hygieneVars
  BY <1>2
<1>4. HygieneSpec => []HygieneInv
  BY HygieneInitInv, HygieneStep, PTL DEF HygieneSpec
<1>. QED
  BY <1>3, <1>4, PTL DEF HygieneSpec, FlagsFollowEvidence, Follow

\* What the numbers of flags are bounded by: every flag was committed by a run that has
\* begun, and a run that is open has committed none.
OpenPasses == {w \in Passes : pass[w].stage # "idle"}

FlagsCounted ==
    /\ IsFiniteSet(OpenPasses)
    /\ \A p \in Principals : raised[p] + Cardinality(OpenPasses) <= begun /\ flag[p] <= raised[p]
    /\ \A w \in Passes : \A p \in Principals : pass[w].clear[p] <= MaxPasses

HygieneCounts ==
    /\ principal \in [Principals -> Reports]
    /\ changes \in 0..MaxChanges /\ begun \in 0..MaxPasses

HygieneFlags == HygieneInv /\ FlagsCounted /\ HygieneCounts

LEMMA HygieneFlagsInit == HygieneInit => HygieneFlags
<1>. SUFFICES ASSUME HygieneInit PROVE HygieneFlags
  OBVIOUS
<1>1. \A w \in Passes : pass[w] = IdlePass
  BY DEF HygieneInit
<1>2. OpenPasses = {}
  BY <1>1, IdlePassFacts DEF OpenPasses
<1>3. IsFiniteSet(OpenPasses) /\ Cardinality(OpenPasses) = 0
  BY <1>2, FS_EmptySet
<1>4. \A w \in Passes : \A p \in Principals : pass[w].clear[p] <= MaxPasses
  BY <1>1, IdlePassFacts, HygieneAssumption
<1>5. \A p \in Principals : raised[p] = 0 /\ flag[p] = 0
  BY DEF HygieneInit, NoFlags
<1>6. FlagsCounted
  BY <1>3, <1>4, <1>5 DEF FlagsCounted, HygieneInit
<1>7. HygieneCounts
  <2>1. Created \in Reports /\ Dormant \in Reports
    BY DEF Created, Dormant, Reports
  <2>. QED
    BY <2>1, HygieneAssumption DEF HygieneCounts, HygieneInit
<1>. QED
  BY <1>6, <1>7, HygieneInitInv DEF HygieneFlags

\* A step of an open pass that stays open counts nothing.
LEMMA OpenPassCounts ==
    ASSUME HygieneFlags, NEW w \in Passes, pass[w].stage # "idle", pass'[w].stage # "idle",
           OnlyPassOf(w), UNCHANGED <<flagVars, begun>>,
           \A p \in Principals : pass'[w].clear[p] <= MaxPasses
    PROVE  FlagsCounted'
<1>1. OpenPasses' = OpenPasses
  BY DEF OpenPasses, OnlyPassOf
<1>. QED
  BY <1>1 DEF HygieneFlags, FlagsCounted, OnlyPassOf, flagVars

LEMMA BeginCounts ==
    ASSUME HygieneFlags, NEW w \in Passes, BeginPass(w)
    PROVE  FlagsCounted'
<1>. DEFINE r == [IdlePass EXCEPT !.stage = "next", !.left = Verified]
<1>1. r.stage = "next" /\ \A p \in Principals : r.clear[p] = 0
  BY DEF IdlePass, NoFlags
<1>2. pass' = [pass EXCEPT ![w] = r] /\ UNCHANGED flagVars /\ begun' = begun + 1 /\ pass[w].stage = "idle"
  BY DEF BeginPass
<1>. HIDE DEF r
<1>3. OnlyPassOf(w) /\ pass'[w] = r
  BY <1>2 DEF HygieneFlags, HygieneInv, OnlyPassOf
<1>4. OpenPasses' = OpenPasses \cup {w} /\ w \notin OpenPasses
  BY <1>1, <1>2, <1>3 DEF OpenPasses, OnlyPassOf
<1>5. IsFiniteSet(OpenPasses') /\ Cardinality(OpenPasses') = Cardinality(OpenPasses) + 1
  BY <1>4, FS_AddElement DEF HygieneFlags, FlagsCounted
<1>6. Cardinality(OpenPasses) \in Nat /\ raised \in Marks /\ begun \in Nat
  BY FS_CardinalityType DEF HygieneFlags, FlagsCounted, HygieneInv, HygieneCounts
<1>7. \A p \in Principals : raised'[p] + Cardinality(OpenPasses') <= begun' /\ flag'[p] <= raised'[p]
  BY <1>2, <1>5, <1>6 DEF HygieneFlags, FlagsCounted, flagVars, Marks
<1>8. \A v \in Passes : \A p \in Principals : pass'[v].clear[p] <= MaxPasses
  BY <1>1, <1>3, HygieneAssumption DEF HygieneFlags, FlagsCounted, OnlyPassOf
<1>. QED
  BY <1>5, <1>7, <1>8 DEF FlagsCounted

LEMMA ClosesCounts ==
    ASSUME HygieneFlags, NEW w \in Passes, pass[w].stage # "idle", pass'[w] = IdlePass,
           \A v \in Passes \ {w} : /\ pass'[v].stage = pass[v].stage
                                   /\ pass'[v].clear = pass[v].clear
    PROVE  /\ IsFiniteSet(OpenPasses') /\ Cardinality(OpenPasses') = Cardinality(OpenPasses) - 1
           /\ Cardinality(OpenPasses) \in Nat /\ Cardinality(OpenPasses') \in Nat
           /\ \A v \in Passes : \A p \in Principals : pass'[v].clear[p] <= MaxPasses
<1>1. OpenPasses' = OpenPasses \ {w} /\ w \in OpenPasses
  BY IdlePassFacts DEF OpenPasses
<1>2. IsFiniteSet(OpenPasses) /\ Cardinality(OpenPasses) \in Nat
  BY FS_CardinalityType DEF HygieneFlags, FlagsCounted
<1>3. IsFiniteSet(OpenPasses') /\ Cardinality(OpenPasses') = Cardinality(OpenPasses) - 1
  BY <1>1, <1>2, FS_RemoveElement
<1>4. Cardinality(OpenPasses') \in Nat
  BY <1>3, FS_CardinalityType
<1>5. \A v \in Passes : \A p \in Principals : pass'[v].clear[p] <= MaxPasses
  BY IdlePassFacts, HygieneAssumption DEF HygieneFlags, FlagsCounted
<1>. QED
  BY <1>2, <1>3, <1>4, <1>5

LEMMA RollbackCounts ==
    ASSUME HygieneFlags, NEW w \in Passes, RollbackPass(w)
    PROVE  FlagsCounted'
<1>1. /\ pass'[w] = IdlePass /\ pass[w].stage # "idle" /\ UNCHANGED <<flagVars, begun>>
      /\ \A v \in Passes \ {w} : pass'[v] = pass[v]
  BY DEF RollbackPass, HygieneFlags, HygieneInv
<1>2. /\ IsFiniteSet(OpenPasses') /\ Cardinality(OpenPasses') = Cardinality(OpenPasses) - 1
      /\ Cardinality(OpenPasses) \in Nat /\ Cardinality(OpenPasses') \in Nat
      /\ \A v \in Passes : \A p \in Principals : pass'[v].clear[p] <= MaxPasses
  BY <1>1, ClosesCounts
<1>3. raised \in Marks /\ begun \in Nat
  BY DEF HygieneFlags, HygieneInv, HygieneCounts
<1>4. \A p \in Principals : raised'[p] + Cardinality(OpenPasses') <= begun' /\ flag'[p] <= raised'[p]
  BY <1>1, <1>2, <1>3 DEF HygieneFlags, FlagsCounted, flagVars, Marks
<1>. QED
  BY <1>2, <1>4 DEF FlagsCounted

LEMMA CommitCounts ==
    ASSUME HygieneFlags, NEW w \in Passes, CommitPass(w)
    PROVE  FlagsCounted'
<1>1. /\ pass'[w] = IdlePass /\ pass[w].stage # "idle" /\ UNCHANGED begun
      /\ \A v \in Passes \ {w} : pass'[v] = [pass[v] EXCEPT !.alone = FALSE]
  BY DEF CommitPass, HygieneFlags, HygieneInv
<1>2. ASSUME NEW v \in Passes \ {w}
      PROVE  pass'[v].stage = pass[v].stage /\ pass'[v].clear = pass[v].clear
  <2>1. pass[v] \in PassRecords /\ pass'[v] = [pass[v] EXCEPT !.alone = FALSE]
    BY <1>1 DEF HygieneFlags, HygieneInv
  <2>. QED
    BY <2>1 DEF PassRecords
<1>3. /\ IsFiniteSet(OpenPasses') /\ Cardinality(OpenPasses') = Cardinality(OpenPasses) - 1
      /\ Cardinality(OpenPasses) \in Nat /\ Cardinality(OpenPasses') \in Nat
      /\ \A v \in Passes : \A p \in Principals : pass'[v].clear[p] <= MaxPasses
  BY <1>1, <1>2, ClosesCounts
<1>4. raised \in Marks /\ flag \in Marks /\ begun \in Nat
  BY DEF HygieneFlags, HygieneInv, HygieneCounts
<1>5. ASSUME NEW p \in Principals
      PROVE  raised'[p] + Cardinality(OpenPasses') <= begun' /\ flag'[p] <= raised'[p]
  <2>1. /\ raised[p] \in Nat /\ flag[p] \in Nat /\ flag[p] <= raised[p]
        /\ raised[p] + Cardinality(OpenPasses) <= begun
    BY <1>4 DEF Marks, HygieneFlags, FlagsCounted
  <2>2. \/ raised'[p] = raised[p] + 1 /\ flag'[p] = raised[p] + 1
        \/ raised'[p] = raised[p] /\ (flag'[p] = 0 \/ flag'[p] = flag[p])
    BY DEF CommitPass
  <2>. QED
    BY <1>1, <1>3, <1>4, <2>1, <2>2
<1>. QED
  BY <1>3, <1>5 DEF FlagsCounted

LEMMA ReadCounts ==
    ASSUME HygieneFlags, NEW w \in Passes, ReadFlags(w)
    PROVE  FlagsCounted'
<1>1. PICK a \in pass[w].account :
         pass' = [pass EXCEPT ![w].stage = "decided", ![w].analysed = @ \cup {a},
            ![w].raise = @ \cup {p \in In(a) : flag[p] = 0 /\ p \in pass[w].unused},
            ![w].clear = [p \in Principals |-> IF p \in In(a) /\ Clears(w, p) THEN flag[p] ELSE @[p]]]
  BY DEF ReadFlags
<1>. DEFINE clear == [p \in Principals |-> IF p \in In(a) /\ Clears(w, p) THEN flag[p] ELSE pass[w].clear[p]]
            raise == {p \in In(a) : flag[p] = 0 /\ p \in pass[w].unused}
<1>2. pass' = [pass EXCEPT ![w].stage = "decided", ![w].analysed = @ \cup {a},
                  ![w].raise = @ \cup raise, ![w].clear = clear]
  BY <1>1
<1>3. ASSUME NEW p \in Principals PROVE clear[p] <= MaxPasses
  <2>1. /\ flag[p] \in Nat /\ raised[p] \in Nat /\ begun \in 0..MaxPasses
        /\ Cardinality(OpenPasses) \in Nat /\ MaxPasses \in Nat
    BY FS_CardinalityType, HygieneAssumption
       DEF Marks, HygieneFlags, HygieneInv, FlagsCounted, HygieneCounts
  <2>2. flag[p] <= MaxPasses /\ pass[w].clear[p] <= MaxPasses
    BY <2>1 DEF HygieneFlags, FlagsCounted
  <2>. QED
    BY <2>2
<1>. HIDE DEF clear, raise
<1>4. UNCHANGED <<flagVars, begun>> /\ pass[w].stage # "idle"
  BY DEF ReadFlags
<1>5. pass \in [Passes -> PassRecords]
  BY DEF HygieneFlags, HygieneInv
<1>6. OnlyPassOf(w)
  BY <1>2, <1>5 DEF OnlyPassOf
<1>7. pass'[w].stage = "decided" /\ pass'[w].clear = clear
  BY <1>2, <1>5 DEF PassRecords
<1>. QED
  BY <1>3, <1>4, <1>6, <1>7, OpenPassCounts

LEMMA OtherPassCounts ==
    ASSUME HygieneFlags, NEW w \in Passes,
           FlushFlags(w) \/ \E a \in Verified : Analyse(w, a) \/ Fail(w, a)
    PROVE  FlagsCounted'
<1>1. /\ OnlyPassOf(w) /\ UNCHANGED <<flagVars, begun>>
      /\ pass[w].stage # "idle" /\ pass'[w].stage # "idle" /\ pass'[w].clear = pass[w].clear
  <2>1. CASE FlushFlags(w)
    BY <2>1 DEF FlushFlags, HygieneFlags, HygieneInv, PassRecords, OnlyPassOf
  <2>2. ASSUME NEW a \in Verified, Analyse(w, a)
        PROVE  /\ OnlyPassOf(w) /\ UNCHANGED <<flagVars, begun>>
               /\ pass[w].stage # "idle" /\ pass'[w].stage # "idle" /\ pass'[w].clear = pass[w].clear
    <3>1. pass \in [Passes -> PassRecords]
      BY DEF HygieneFlags, HygieneInv
    <3>2. OnlyPassOf(w) /\ UNCHANGED <<flagVars, begun>> /\ pass[w].stage # "idle"
      BY <2>2, <3>1 DEF Analyse, OnlyPassOf
    <3>3. pass'[w] = [pass[w] EXCEPT !.stage = "analysed", !.left = @ \ {a}, !.account = {a},
                        !.listed = @ \cup {p \in In(a) : principal[p].there},
                        !.unused = @ \cup {p \in In(a) : IsUnused(p)}]
      BY <2>2, <3>1 DEF Analyse
    <3>4. pass'[w].stage # "idle" /\ pass'[w].clear = pass[w].clear
      BY <3>1, <3>3 DEF PassRecords
    <3>. QED
      BY <3>2, <3>4
  <2>3. ASSUME NEW a \in Verified, Fail(w, a)
        PROVE  /\ OnlyPassOf(w) /\ UNCHANGED <<flagVars, begun>>
               /\ pass[w].stage # "idle" /\ pass'[w].stage # "idle" /\ pass'[w].clear = pass[w].clear
    BY <2>3 DEF Fail, HygieneFlags, HygieneInv, PassRecords, OnlyPassOf
  <2>. QED
    BY <2>1, <2>2, <2>3
<1>2. \A p \in Principals : pass'[w].clear[p] <= MaxPasses
  BY <1>1 DEF HygieneFlags, FlagsCounted
<1>. QED
  BY <1>1, <1>2, OpenPassCounts

LEMMA HygieneFlagsStep == HygieneFlags /\ [HygieneNext]_hygieneVars => HygieneFlags'
<1>. SUFFICES ASSUME HygieneFlags, [HygieneNext]_hygieneVars PROVE FlagsCounted' /\ HygieneCounts'
  BY HygieneStep DEF HygieneFlags
<1>1. ASSUME UNCHANGED <<flagVars, pass, begun>> PROVE FlagsCounted'
  BY <1>1 DEF HygieneFlags, FlagsCounted, OpenPasses, flagVars
<1>2. ASSUME UNCHANGED iamVars, begun' = begun \/ (begun < MaxPasses /\ begun' = begun + 1)
      PROVE  HygieneCounts'
  BY <1>2, HygieneAssumption DEF HygieneFlags, HygieneCounts, iamVars
<1>3. ASSUME NEW p \in Principals,
             CreatePrincipal(p) \/ Use(p) \/ GoQuiet(p) \/ DeletePrincipal(p)
      PROVE  FlagsCounted' /\ HygieneCounts'
  <2>1. FlagsCounted'
    BY <1>1, <1>3 DEF CreatePrincipal, Use, GoQuiet, DeletePrincipal, Becomes
  <2>2. PICK report \in Reports : Becomes(p, report)
    BY <1>3 DEF CreatePrincipal, Use, GoQuiet, DeletePrincipal, Created, Dormant, Missing, Reports,
                HygieneFlags, HygieneCounts
  <2>3. HygieneCounts'
    BY <2>2, HygieneAssumption DEF Becomes, HygieneFlags, HygieneCounts
  <2>. QED
    BY <2>1, <2>3
<1>4. ASSUME NEW w \in Passes, BeginPass(w) PROVE FlagsCounted' /\ HygieneCounts'
  BY <1>2, <1>4, BeginCounts DEF BeginPass
<1>5. ASSUME NEW w \in Passes, ReadFlags(w) PROVE FlagsCounted' /\ HygieneCounts'
  BY <1>2, <1>5, ReadCounts DEF ReadFlags
<1>6. ASSUME NEW w \in Passes, FlushFlags(w) PROVE FlagsCounted' /\ HygieneCounts'
  BY <1>2, <1>6, OtherPassCounts DEF FlushFlags
<1>7. ASSUME NEW w \in Passes, CommitPass(w) PROVE FlagsCounted' /\ HygieneCounts'
  BY <1>2, <1>7, CommitCounts DEF CommitPass
<1>8. ASSUME NEW w \in Passes, RollbackPass(w) PROVE FlagsCounted' /\ HygieneCounts'
  BY <1>2, <1>8, RollbackCounts DEF RollbackPass
<1>9. ASSUME NEW w \in Passes, NEW a \in Verified, Analyse(w, a) \/ Fail(w, a)
      PROVE  FlagsCounted' /\ HygieneCounts'
  <2>1. UNCHANGED <<iamVars, begun>>
    BY <1>9 DEF Analyse, Fail
  <2>. QED
    BY <1>2, <1>9, <2>1, OtherPassCounts
<1>10. CASE UNCHANGED hygieneVars
  BY <1>1, <1>2, <1>10 DEF hygieneVars
<1>. QED
  BY <1>3, <1>4, <1>5, <1>6, <1>7, <1>8, <1>9, <1>10 DEF HygieneNext

\* The declarations of IamHygiene: no flag has a number beyond the passes that have begun,
\* so a pass that is rolled back, or loses to another at the index, raises none.
THEOREM HygieneTypeCorrect == HygieneSpec => []HygieneTypeOK
<1>1. HygieneFlags => HygieneTypeOK
  <2>. SUFFICES ASSUME HygieneFlags PROVE HygieneTypeOK
    OBVIOUS
  <2>1. ASSUME NEW p \in Principals PROVE flag[p] \in 0..MaxPasses /\ raised[p] \in 0..MaxPasses
    <3>1. /\ flag[p] \in Nat /\ raised[p] \in Nat /\ begun \in 0..MaxPasses
          /\ Cardinality(OpenPasses) \in Nat /\ MaxPasses \in Nat
      BY FS_CardinalityType, HygieneAssumption
         DEF Marks, HygieneFlags, HygieneInv, FlagsCounted, HygieneCounts
    <3>. QED
      BY <3>1 DEF HygieneFlags, FlagsCounted
  <2>2. flag \in FlagNumbers /\ raised \in FlagNumbers
    BY <2>1 DEF HygieneFlags, HygieneInv, Marks, FlagNumbers
  <2>3. ASSUME NEW w \in Passes PROVE pass[w].clear \in FlagNumbers
    <3>1. pass[w].clear \in Marks /\ \A p \in Principals : pass[w].clear[p] <= MaxPasses
      BY DEF HygieneFlags, HygieneInv, FlagsCounted, PassRecords
    <3>. QED
      BY <3>1, HygieneAssumption DEF Marks, FlagNumbers
  <2>. QED
    BY <2>2, <2>3 DEF HygieneFlags, HygieneCounts, HygieneInv, PassRecords, HygieneTypeOK
<1>. QED
  BY <1>1, HygieneFlagsInit, HygieneFlagsStep, PTL DEF HygieneSpec

-----------------------------------------------------------------------------
(***************************************************************************)
(* MetricStore.                                                            *)
(*                                                                         *)
(* The invariant: a run that counts an account as collected has written,   *)
(* or still holds or will ask for, every live resource of it (Covers); the *)
(* row it has written does not contradict a committed measurement          *)
(* (KeepsReadings); and no two runs have written the same row of a day     *)
(* (Apart), which is what the row locks of the database guarantee.         *)
(***************************************************************************)
RunRecords ==
    [stage : {"idle", "next", "regions", "answered"}, day : Days,
     left : SUBSET Due, zones : SUBSET Zones, batch : SUBSET Servers,
     answer : [Servers -> Rows0], wrote : [Servers -> Rows0], collected : SUBSET Due]

Covers(r) ==
    \A s \in live : AccountOfZone[Zone[s]] \in r.collected =>
        \/ r.wrote[s] # NoRow
        \/ /\ r.stage \in {"regions", "answered"} /\ s \in r.batch
           /\ Zone[s] \in r.zones \/ r.answer[s] # NoRow

KeepsReadings(r) ==
    \A s \in Servers : r.wrote[s] # NoRow /\ stored[s][r.day] \in Readings
                         => r.wrote[s] = stored[s][r.day]

RunIsSafe(r) ==
    /\ r.stage # "answered" => r.answer = NoRows
    /\ Covers(r)
    /\ KeepsReadings(r)

Apart(r, q) == r.day = q.day => \A s \in Servers : r.wrote[s] = NoRow \/ q.wrote[s] = NoRow

MetricInv ==
    /\ MetricTypeOK
    /\ \A c \in Collectors : RunIsSafe(run[c])
    /\ \A c, e \in Collectors : c # e => Apart(run[c], run[e])

LEMMA MarksAreNoReadings ==
    /\ Silence \notin Readings /\ NoRow \notin Readings /\ Silence # NoRow
    /\ Silence \in Rows0 /\ NoRow \in Rows0
BY MetricAssumption DEF Silence, NoRow, Rows0

LEMMA IdleRunType == IdleRun \in RunRecords
BY MetricAssumption, MarksAreNoReadings DEF IdleRun, RunRecords, NoRows, Days

LEMMA IdleRunSafe == RunIsSafe(IdleRun) /\ \A q : Apart(IdleRun, q) /\ Apart(q, IdleRun)
<1>. DEFINE r == IdleRun
<1>1. /\ r.stage = "idle" /\ r.answer = NoRows /\ r.collected = {}
      /\ \A s \in Servers : r.wrote[s] = NoRow
  BY DEF IdleRun, NoRows
<1>. HIDE DEF r
<1>2. RunIsSafe(r) /\ \A q : Apart(r, q) /\ Apart(q, r)
  BY <1>1 DEF RunIsSafe, Covers, KeepsReadings, Apart
<1>. QED
  BY <1>2 DEF r

\* The conditional upsert always leaves a row, and never changes a measurement.
LEMMA UpsertKeeps ==
    ASSUME NEW row \in Rows0, NEW answer \in Rows0, answer # NoRow
    PROVE  /\ Upsert(row, answer) \in Rows0 \ {NoRow}
           /\ row \in Readings => Upsert(row, answer) = row
BY MarksAreNoReadings DEF Upsert

LEMMA MetricInitInv == MetricInit => MetricInv
<1>. SUFFICES ASSUME MetricInit PROVE MetricInv
  OBVIOUS
<1>1. MetricTypeOK
  BY MetricAssumption, MarksAreNoReadings, IdleRunType
     DEF MetricInit, MetricTypeOK, Days, RunRecords, Rows0
<1>2. \A c \in Collectors : run[c] = IdleRun
  BY DEF MetricInit
<1>. QED
  BY <1>1, <1>2, IdleRunSafe DEF MetricInv

OnlyRunOf(c) ==
    /\ \A e \in Collectors \ {c} : run'[e] = run[e]
    /\ run' = [e \in Collectors |-> run'[e]]

\* Steps of a run that only change its own record.
LEMMA OneRunStep ==
    ASSUME MetricInv, NEW c \in Collectors, NEW r \in RunRecords, RunIsSafe(r),
           \A e \in Collectors \ {c} : Apart(r, run[e]) /\ Apart(run[e], r),
           OnlyRunOf(c), run'[c] = r, runsBegun' \in 0..MaxRuns,
           UNCHANGED <<yesterday, published, live, stored>>
    PROVE  MetricInv'
<1>1. MetricTypeOK'
  BY DEF MetricInv, MetricTypeOK, RunRecords, OnlyRunOf
<1>2. \A e \in Collectors \ {c} : run'[e] = run[e]
  BY DEF OnlyRunOf
<1>3. \A e \in Collectors : RunIsSafe(run'[e])
  BY <1>2 DEF MetricInv
<1>4. \A e \in Collectors : RunIsSafe(run[e])'
  BY <1>3 DEF RunIsSafe, Covers, KeepsReadings
<1>5. \A d, e \in Collectors : d # e => Apart(run'[d], run'[e])
  BY <1>2 DEF MetricInv
<1>. QED
  BY <1>1, <1>4, <1>5 DEF MetricInv, Apart

\* A step that leaves the told a run has written and its day alone leaves it apart.
LEMMA StaysApart ==
    ASSUME MetricInv, NEW c \in Collectors, NEW r, r.day = run[c].day, r.wrote = run[c].wrote
    PROVE  \A e \in Collectors \ {c} : Apart(r, run[e]) /\ Apart(run[e], r)
BY DEF MetricInv, Apart

LEMMA CloudStep ==
    ASSUME MetricInv, UNCHANGED <<stored, run, runsBegun>>, live' \subseteq live,
           yesterday' \in Days, published' \in [Servers -> [Days -> Readings \cup {Silence}]]
    PROVE  MetricInv'
<1>1. MetricTypeOK'
  BY DEF MetricInv, MetricTypeOK
<1>2. \A c \in Collectors : RunIsSafe(run[c])'
  BY DEF MetricInv, RunIsSafe, Covers, KeepsReadings
<1>. QED
  BY <1>1, <1>2 DEF MetricInv, Apart

LEMMA BeginRunStep == ASSUME MetricInv, NEW c \in Collectors, BeginRun(c) PROVE MetricInv'
<1>. DEFINE r == [IdleRun EXCEPT !.stage = "next", !.day = yesterday, !.left = Due]
<1>1. r \in RunRecords
  BY IdleRunType DEF RunRecords, MetricInv, MetricTypeOK
<1>2. /\ r.stage = "next" /\ r.answer = NoRows /\ r.collected = {}
      /\ \A s \in Servers : r.wrote[s] = NoRow
  BY DEF IdleRun, NoRows
<1>3. /\ run' = [run EXCEPT ![c] = r] /\ runsBegun' \in 0..MaxRuns
      /\ UNCHANGED <<yesterday, published, live, stored>>
  BY MetricAssumption DEF BeginRun, MetricInv, MetricTypeOK
<1>. HIDE DEF r
<1>4. OnlyRunOf(c) /\ run'[c] = r
  BY <1>3 DEF MetricInv, MetricTypeOK, OnlyRunOf
<1>5. RunIsSafe(r) /\ \A e \in Collectors \ {c} : Apart(r, run[e]) /\ Apart(run[e], r)
  BY <1>2 DEF RunIsSafe, Covers, KeepsReadings, Apart
<1>. QED
  BY <1>1, <1>3, <1>5, <1>4, OneRunStep

LEMMA ListServersStep ==
    ASSUME MetricInv, NEW c \in Collectors, NEW a \in Due, ListServers(c, a)
    PROVE  MetricInv'
<1>. DEFINE mine == {s \in live : AccountOfZone[Zone[s]] = a}
            q == run[c]
            r == run'[c]
<1>1. /\ q \in RunRecords /\ RunIsSafe(q) /\ q.stage = "next" /\ live \subseteq Servers
      /\ run \in [Collectors -> RunRecords]
      /\ runsBegun' \in 0..MaxRuns /\ UNCHANGED <<yesterday, published, live, stored>>
  BY DEF ListServers, MetricInv, MetricTypeOK, RunRecords
<1>2. /\ r.stage = (IF mine = {} THEN "next" ELSE "regions") /\ r.day = q.day
      /\ r.zones = {Zone[s] : s \in mine} /\ r.batch = mine
      /\ r.answer = q.answer /\ r.wrote = q.wrote /\ r.collected = q.collected \cup {a}
  BY <1>1 DEF ListServers, RunRecords
<1>3. r \in RunRecords
  <2>1. r = [q EXCEPT !.stage = IF mine = {} THEN "next" ELSE "regions", !.left = @ \ {a},
                      !.batch = mine, !.zones = {Zone[s] : s \in mine},
                      !.collected = @ \cup {a}]
    BY <1>1 DEF ListServers
  <2>2. mine \in SUBSET Servers /\ {Zone[s] : s \in mine} \in SUBSET Zones
    BY <1>1 DEF Zones
  <2>. HIDE DEF q, r, mine
  <2>. QED
    BY <1>1, <2>1, <2>2 DEF RunRecords
<1>4. OnlyRunOf(c)
  BY <1>1 DEF ListServers, OnlyRunOf
<1>. HIDE DEF q, r
<1>5. Covers(r)
  BY <1>1, <1>2 DEF RunIsSafe, Covers
<1>6. RunIsSafe(r)
  BY <1>1, <1>2, <1>5 DEF RunIsSafe, KeepsReadings
<1>. QED
  BY <1>1, <1>2, <1>3, <1>4, <1>6, StaysApart, OneRunStep DEF q, r

LEMMA AskStep ==
    ASSUME MetricInv, NEW c \in Collectors, NEW z \in Zones, Ask(c, z)
    PROVE  MetricInv'
<1>. DEFINE q == run[c]
            r == run'[c]
            answer == [s \in Servers |-> IF s \in q.batch /\ Zone[s] = z
                                         THEN published[s][q.day] ELSE NoRow]
<1>1. /\ q \in RunRecords /\ RunIsSafe(q) /\ q.stage = "regions" /\ live \subseteq Servers
      /\ run \in [Collectors -> RunRecords]
      /\ runsBegun' \in 0..MaxRuns /\ UNCHANGED <<yesterday, published, live, stored>>
  BY DEF Ask, MetricInv, MetricTypeOK, RunRecords
<1>2. \A s \in Servers : published[s][q.day] \in Rows0 /\ published[s][q.day] # NoRow
  BY <1>1, MarksAreNoReadings DEF MetricInv, MetricTypeOK, RunRecords, Rows0
<1>3. /\ r.stage = "answered" /\ r.day = q.day /\ r.zones = q.zones \ {z}
      /\ r.batch = q.batch /\ r.answer = answer
      /\ r.wrote = q.wrote /\ r.collected = q.collected
  BY <1>1 DEF Ask, RunRecords
<1>4. answer \in [Servers -> Rows0]
  BY <1>2, MarksAreNoReadings
<1>5. r \in RunRecords
  <2>1. run' = [run EXCEPT ![c].stage = "answered", ![c].zones = @ \ {z}, ![c].answer = answer]
    BY DEF Ask
  <2>. HIDE DEF answer
  <2>. QED
    BY <1>1, <1>4, <2>1 DEF RunRecords
<1>6. OnlyRunOf(c)
  BY <1>1 DEF Ask, OnlyRunOf
<1>7. \A s \in Servers : s \in q.batch /\ Zone[s] = z => r.answer[s] # NoRow
  BY <1>2, <1>3
<1>. HIDE DEF q, r, answer
<1>8. \A s \in Servers : q.answer[s] = NoRow
  BY <1>1 DEF RunIsSafe, NoRows
<1>9. Covers(r)
  BY <1>1, <1>3, <1>7, <1>8 DEF RunIsSafe, Covers
<1>10. RunIsSafe(r)
  BY <1>1, <1>3, <1>9 DEF RunIsSafe, KeepsReadings
<1>. QED
  BY <1>1, <1>3, <1>5, <1>6, <1>10, StaysApart, OneRunStep DEF q, r

LEMMA FailAccountStep ==
    ASSUME MetricInv, NEW c \in Collectors, FailAccount(c)
    PROVE  MetricInv'
<1>. DEFINE q == run[c]
            r == run'[c]
<1>1. /\ q \in RunRecords /\ RunIsSafe(q) /\ q.stage = "regions" /\ live \subseteq Servers
      /\ run \in [Collectors -> RunRecords]
      /\ runsBegun' \in 0..MaxRuns /\ UNCHANGED <<yesterday, published, live, stored>>
  BY DEF FailAccount, MetricInv, MetricTypeOK, RunRecords
<1>2. /\ r.stage = "next" /\ r.day = q.day /\ r.answer = q.answer /\ r.wrote = q.wrote
      /\ r.collected = q.collected \ {AccountOfZone[z] : z \in q.zones}
  BY <1>1 DEF FailAccount, RunRecords
<1>3. r \in RunRecords
  BY <1>1 DEF FailAccount, RunRecords
<1>4. OnlyRunOf(c)
  BY <1>1 DEF FailAccount, OnlyRunOf
<1>. HIDE DEF q, r
<1>5. \A s \in Servers : q.answer[s] = NoRow
  BY <1>1 DEF RunIsSafe, NoRows
<1>6. Covers(r)
  BY <1>1, <1>2, <1>5 DEF RunIsSafe, Covers
<1>7. RunIsSafe(r)
  BY <1>1, <1>2, <1>6 DEF RunIsSafe, KeepsReadings
<1>. QED
  BY <1>1, <1>2, <1>3, <1>4, <1>7, StaysApart, OneRunStep DEF q, r

LEMMA PersistStep ==
    ASSUME MetricInv, NEW c \in Collectors, Persist(c)
    PROVE  MetricInv'
<1>. DEFINE q == run[c]
            r == run'[c]
            told == {s \in Servers : q.answer[s] # NoRow}
            sees(s) == IF q.wrote[s] # NoRow THEN q.wrote[s] ELSE stored[s][q.day]
            wrote == [s \in Servers |-> IF s \in told THEN Upsert(sees(s), q.answer[s]) ELSE q.wrote[s]]
<1>1. /\ q \in RunRecords /\ RunIsSafe(q) /\ q.stage = "answered" /\ live \subseteq Servers
      /\ run \in [Collectors -> RunRecords]
      /\ runsBegun' \in 0..MaxRuns /\ UNCHANGED <<yesterday, published, live, stored>>
  BY DEF Persist, MetricInv, MetricTypeOK, RunRecords
<1>2. /\ \A e \in Collectors \ {c} : run[e].day = q.day => \A s \in told : run[e].wrote[s] = NoRow
      /\ run' = [run EXCEPT ![c].wrote = wrote, ![c].answer = NoRows,
                            ![c].stage = IF q.zones = {} THEN "next" ELSE "regions",
                            ![c].batch = IF q.zones = {} THEN {} ELSE @]
  BY DEF Persist, Sees
<1>3. ASSUME NEW s \in Servers
      PROVE  /\ q.answer[s] \in Rows0 /\ q.wrote[s] \in Rows0
             /\ stored[s][q.day] \in Rows0 /\ sees(s) \in Rows0
  BY <1>1 DEF RunRecords, MetricInv, MetricTypeOK
<1>4. ASSUME NEW s \in told
      PROVE  /\ Upsert(sees(s), q.answer[s]) \in Rows0 \ {NoRow}
             /\ sees(s) \in Readings => Upsert(sees(s), q.answer[s]) = sees(s)
  <2>1. sees(s) \in Rows0 /\ q.answer[s] \in Rows0 /\ q.answer[s] # NoRow
    BY <1>3
  <2>. HIDE DEF sees, q
  <2>. QED
    BY <2>1, UpsertKeeps
<1>5. wrote \in [Servers -> Rows0] /\ NoRows \in [Servers -> Rows0]
  <2>1. NoRows \in [Servers -> Rows0]
    BY MarksAreNoReadings DEF NoRows
  <2>. HIDE DEF sees, q, told
  <2>. QED
    BY <1>3, <1>4, <2>1
<1>6. /\ \A s \in told : wrote[s] # NoRow
      /\ \A s \in Servers \ told : wrote[s] = q.wrote[s]
  <2>. HIDE DEF sees, q
  <2>. QED
    BY <1>4
<1>7. \A s \in told : stored[s][q.day] \in Readings => wrote[s] = stored[s][q.day]
  <2>. TAKE s \in told
  <2>1. stored[s][q.day] \in Readings => sees(s) = stored[s][q.day]
    BY <1>1 DEF RunIsSafe, KeepsReadings
  <2>2. wrote[s] = Upsert(sees(s), q.answer[s])
    OBVIOUS
  <2>. HIDE DEF sees, wrote, q
  <2>. QED
    BY <1>4, <2>1, <2>2
<1>. HIDE DEF wrote
<1>8. /\ r.stage = (IF q.zones = {} THEN "next" ELSE "regions") /\ r.day = q.day
      /\ r.zones = q.zones /\ r.batch = (IF q.zones = {} THEN {} ELSE q.batch)
      /\ r.answer = NoRows /\ r.wrote = wrote /\ r.collected = q.collected
  BY <1>1, <1>2 DEF RunRecords
<1>9. r \in RunRecords
  BY <1>1, <1>2, <1>5 DEF RunRecords
<1>10. OnlyRunOf(c)
  BY <1>1, <1>2 DEF OnlyRunOf
<1>. HIDE DEF q, r
<1>11. Covers(r)
  BY <1>1, <1>6, <1>8 DEF RunIsSafe, Covers
<1>12. KeepsReadings(r)
  BY <1>1, <1>6, <1>7, <1>8 DEF RunIsSafe, KeepsReadings
<1>13. RunIsSafe(r)
  BY <1>8, <1>11, <1>12 DEF RunIsSafe
<1>14. \A e \in Collectors \ {c} : Apart(q, run[e])
  BY DEF MetricInv, q
<1>15. \A e \in Collectors \ {c} : Apart(r, run[e]) /\ Apart(run[e], r)
  BY <1>2, <1>6, <1>8, <1>14 DEF Apart
<1>. QED
  BY <1>1, <1>9, <1>10, <1>13, <1>15, OneRunStep DEF q, r

LEMMA AbandonRunStep ==
    ASSUME MetricInv, NEW c \in Collectors, AbandonRun(c)
    PROVE  MetricInv'
<1>1. /\ OnlyRunOf(c) /\ run'[c] = IdleRun /\ runsBegun' \in 0..MaxRuns
      /\ UNCHANGED <<yesterday, published, live, stored>>
  BY DEF AbandonRun, MetricInv, MetricTypeOK, OnlyRunOf
<1>. QED
  BY <1>1, IdleRunType, IdleRunSafe, OneRunStep

\* What a commit does to one row.
LEMMA CommittedRow ==
    ASSUME MetricInv, NEW c \in Collectors, CommitRun(c), NEW s \in Servers, NEW d \in Days
    PROVE  stored'[s][d] = IF d = run[c].day /\ run[c].wrote[s] # NoRow THEN run[c].wrote[s]
                                                                        ELSE stored[s][d]
BY DEF CommitRun, MetricInv, MetricTypeOK

LEMMA CommitRunStep ==
    ASSUME MetricInv, NEW c \in Collectors, CommitRun(c)
    PROVE  MetricInv'
<1>1. /\ run' = [run EXCEPT ![c] = IdleRun] /\ OnlyRunOf(c) /\ run'[c] = IdleRun
      /\ UNCHANGED <<yesterday, published, live, runsBegun>>
      /\ run[c] \in RunRecords
  BY DEF CommitRun, MetricInv, MetricTypeOK, RunRecords, OnlyRunOf
<1>2. stored' \in [Servers -> [Days -> Rows0]]
  BY <1>1 DEF CommitRun, MetricInv, MetricTypeOK, RunRecords
<1>3. MetricTypeOK'
  BY <1>1, <1>2, IdleRunType DEF MetricInv, MetricTypeOK, RunRecords
<1>4. ASSUME NEW e \in Collectors PROVE RunIsSafe(run[e])'
  <2>1. CASE e = c
    <3>1. RunIsSafe(IdleRun) /\ \A s \in Servers : IdleRun.wrote[s] = NoRow
      BY IdleRunSafe DEF IdleRun, NoRows
    <3>. QED
      BY <1>1, <2>1, <3>1 DEF RunIsSafe, Covers, KeepsReadings
  <2>2. CASE e # c
    <3>1. /\ run'[e] = run[e] /\ RunIsSafe(run[e]) /\ Apart(run[c], run[e])
          /\ run[e].day \in Days
      BY <1>1, <2>2 DEF OnlyRunOf, MetricInv, MetricTypeOK
    <3>2. ASSUME NEW s \in Servers, run[e].wrote[s] # NoRow
          PROVE  stored'[s][run[e].day] = stored[s][run[e].day]
      BY <3>1, <3>2, CommittedRow DEF Apart
    <3>. QED
      BY <1>1, <3>1, <3>2 DEF RunIsSafe, Covers, KeepsReadings
  <2>. QED
    BY <2>1, <2>2
<1>5. ASSUME NEW d \in Collectors, NEW e \in Collectors, d # e PROVE Apart(run'[d], run'[e])
  BY <1>1, <1>5, IdleRunSafe DEF OnlyRunOf, MetricInv
<1>. QED
  BY <1>3, <1>4, <1>5 DEF MetricInv, Apart

LEMMA MetricStep == MetricInv /\ [MetricNext]_metricVars => MetricInv'
<1>. SUFFICES ASSUME MetricInv, [MetricNext]_metricVars PROVE MetricInv'
  OBVIOUS
<1>1. CASE Midnight
  BY <1>1, MetricAssumption, CloudStep DEF Midnight, MetricInv, MetricTypeOK, Days
<1>2. ASSUME NEW s \in Servers, Retire(s) PROVE MetricInv'
  BY <1>2, CloudStep DEF Retire, MetricInv, MetricTypeOK
<1>3. ASSUME NEW s \in Servers, NEW d \in Days, NEW v \in Readings, Publish(s, d, v)
      PROVE  MetricInv'
  <2>1. published' \in [Servers -> [Days -> Readings \cup {Silence}]]
    BY <1>3 DEF Publish, MetricInv, MetricTypeOK
  <2>. QED
    BY <1>3, <2>1, CloudStep DEF Publish, MetricInv, MetricTypeOK
<1>4. CASE UNCHANGED metricVars
  BY <1>4, CloudStep DEF metricVars, MetricInv, MetricTypeOK
<1>. QED
  BY <1>1, <1>2, <1>3, <1>4, BeginRunStep, ListServersStep, AskStep, FailAccountStep, PersistStep, CommitRunStep,
     AbandonRunStep DEF MetricNext

LEMMA MetricInvariant == MetricSpec => []MetricInv
<1>. QED
  BY MetricInitInv, MetricStep, PTL DEF MetricSpec

-----------------------------------------------------------------------------
(* The theorems.                                                           *)

\* Every variable keeps its type.
THEOREM MetricTypeCorrect == MetricSpec => []MetricTypeOK
<1>1. MetricInv => MetricTypeOK
  BY DEF MetricInv
<1>. QED
  BY <1>1, MetricInvariant, PTL

\* The condition of MeasurementsStand on one step.
Stands ==
    /\ \A s \in Servers : \A d \in Days :
          /\ stored[s][d] \in Readings => stored'[s][d] = stored[s][d]
          /\ stored[s][d] = Silence => stored'[s][d] # NoRow
    /\ \A c \in Collectors : CommitRun(c) =>
          \A s \in live : AccountOfZone[Zone[s]] \in run[c].collected => stored'[s][run[c].day] # NoRow

LEMMA CommitStands == ASSUME MetricInv, NEW c \in Collectors, CommitRun(c) PROVE Stands
<1>1. /\ RunIsSafe(run[c]) /\ run[c].stage = "next" /\ run[c].day \in Days /\ live \subseteq Servers
  BY DEF CommitRun, MetricInv, MetricTypeOK
<1>2. ASSUME NEW e \in Collectors, CommitRun(e) PROVE e = c
  <2>1. e # c => run'[e] = run[e]
    BY DEF CommitRun, MetricInv, MetricTypeOK
  <2>2. run'[e].stage = "idle" /\ run[e].stage = "next"
    BY <1>2 DEF CommitRun, MetricInv, MetricTypeOK, IdleRun
  <2>. QED
    BY <2>1, <2>2
<1>3. ASSUME NEW s \in Servers, NEW d \in Days
      PROVE  /\ stored[s][d] \in Readings => stored'[s][d] = stored[s][d]
             /\ stored[s][d] = Silence => stored'[s][d] # NoRow
  BY <1>1, CommittedRow, MarksAreNoReadings DEF RunIsSafe, KeepsReadings
<1>4. ASSUME NEW s \in live, AccountOfZone[Zone[s]] \in run[c].collected
      PROVE  stored'[s][run[c].day] # NoRow
  <2>1. run[c].wrote[s] # NoRow
    BY <1>1, <1>4 DEF RunIsSafe, Covers
  <2>. QED
    BY <1>1, <2>1, CommittedRow
<1>. QED
  BY <1>2, <1>3, <1>4 DEF Stands

\* FR-019, FR-020: a stored measurement never changes and an unknown never disappears,
\* and a run that commits leaves a row for every live resource of an account it counts as
\* collected, however many runs overlap.
THEOREM MeasurementsStandHolds == MetricSpec => MeasurementsStand
<1>1. ASSUME stored' = stored, MetricInv, ~\E c \in Collectors : CommitRun(c) PROVE Stands
  BY <1>1, MarksAreNoReadings DEF Stands
<1>2. MetricInv /\ [MetricNext]_metricVars => Stands
  <2>. SUFFICES ASSUME MetricInv, [MetricNext]_metricVars PROVE Stands
    OBVIOUS
  <2>1. CASE \E c \in Collectors : CommitRun(c)
    BY <2>1, CommitStands
  <2>2. CASE ~\E c \in Collectors : CommitRun(c)
    <3>1. CASE Midnight \/ UNCHANGED metricVars
      BY <1>1, <2>2, <3>1 DEF Midnight, metricVars
    <3>2. ASSUME NEW s \in Servers, Retire(s) \/ \E d \in Days, v \in Readings : Publish(s, d, v)
          PROVE  Stands
      BY <1>1, <2>2, <3>2 DEF Retire, Publish
    <3>3. ASSUME NEW c \in Collectors, BeginRun(c) \/ FailAccount(c) \/ Persist(c) \/ AbandonRun(c)
          PROVE  Stands
      BY <1>1, <2>2, <3>3 DEF BeginRun, FailAccount, Persist, AbandonRun
    <3>4. ASSUME NEW c \in Collectors,
                 (\E a \in Due : ListServers(c, a)) \/ \E z \in Zones : Ask(c, z)
          PROVE  Stands
      BY <1>1, <2>2, <3>4 DEF ListServers, Ask
    <3>. QED
      BY <2>2, <3>1, <3>2, <3>3, <3>4 DEF MetricNext
  <2>. QED
    BY <2>1, <2>2
<1>3. MetricInv /\ [MetricNext]_metricVars => [Stands]_metricVars
  BY <1>2
<1>. QED
  BY <1>3, MetricInvariant, PTL DEF MetricSpec, MeasurementsStand, Stands

-----------------------------------------------------------------------------
(***************************************************************************)
(* Forecasts.                                                              *)
(*                                                                         *)
(* Nothing here is about steps: the three promises follow from the type of *)
(* the rows.  A backtest reads days before its cutoff (BlindBacktest), an  *)
(* unknown row adds nothing to any sum (UnknownCountsForNothing), and the  *)
(* fitted line obeys the normal equations, so that the error of any other  *)
(* line exceeds its own by a sum of squares (NoBetterLine).                *)
(***************************************************************************)
-----------------------------------------------------------------------------
(* Days.                                                                   *)

\* Min of FiniteSetsExt is the first of some days.
LEMMA MinIsFirst ==
    ASSUME NEW S \in SUBSET Int, IsFiniteSet(S), S # {}
    PROVE  Min(S) \in S /\ \A d \in S : Min(S) <= d
<1>1. \E x \in S : \A y \in S : x <= y
  BY FirstAndLast
<1>. QED
  BY <1>1 DEF Min

\* The latest n of some days exist.
LEMMA LatestAre ==
    ASSUME NEW days \in SUBSET Int, IsFiniteSet(days), NEW n \in Nat, n <= Cardinality(days)
    PROVE  /\ Latest(days, n) \in SUBSET days /\ Cardinality(Latest(days, n)) = n
           /\ \A d \in Latest(days, n) : \A e \in days \ Latest(days, n) : e < d
<1>. DEFINE Late(s, k) == Cardinality(s) = k /\ \A d \in s : \A e \in days \ s : e < d
            G == {k \in Nat : k <= Cardinality(days) => \E s \in SUBSET days : Late(s, k)}
<1>1. 0 \in G
  <2>1. Late({}, 0)
    BY FS_EmptySet
  <2>. HIDE DEF Late
  <2>. QED
    BY <2>1
<1>2. ASSUME NEW k \in Nat, k \in G PROVE k + 1 \in G
  <2>. SUFFICES ASSUME k + 1 <= Cardinality(days)
                PROVE  \E s \in SUBSET days : Late(s, k + 1)
    OBVIOUS
  <2>0. Cardinality(days) \in Nat
    BY FS_CardinalityType
  <2>1. PICK s \in SUBSET days : Late(s, k)
    BY <1>2, <2>0
  <2>2. IsFiniteSet(s) /\ s # days /\ IsFiniteSet(days \ s) /\ days \ s # {}
    <3>1. IsFiniteSet(s) /\ IsFiniteSet(days \ s)
      BY FS_Subset
    <3>2. s # days
      BY <2>0, <2>1
    <3>. QED
      BY <3>1, <3>2
  <2>3. PICK m \in days \ s : \A e \in days \ s : e <= m
    BY <2>2, FirstAndLast
  <2>4. Cardinality(s \cup {m}) = k + 1
    BY <2>1, <2>2, <2>3, FS_AddElement
  <2>5. ASSUME NEW d \in s \cup {m}, NEW e \in days \ (s \cup {m}) PROVE e < d
    BY <2>1, <2>3
  <2>6. Late(s \cup {m}, k + 1) /\ s \cup {m} \in SUBSET days
    BY <2>4, <2>5
  <2>. HIDE DEF Late
  <2>. QED
    BY <2>6
<1>3. n \in G
  <2>. HIDE DEF G
  <2>. QED
    BY <1>1, <1>2, NumberInduction
<1>4. \E s \in SUBSET days : Late(s, n)
  BY <1>3
<1>. QED
  BY <1>4 DEF Latest

-----------------------------------------------------------------------------
(* What a projection depends on.                                           *)

\* An observation depends on the known values of its day alone, ...
LEMMA SameObserved ==
    ASSUME NEW t, NEW u, NEW d, Known(t, d) = Known(u, d),
           \A s \in Known(t, d) : t[s][d] = u[s][d]
    PROVE  Observed(t, d) = Observed(u, d)
<1>. DEFINE f == [s \in Known(t, d) |-> IF t[s][d] = Unknown THEN 0 ELSE t[s][d]]
            g == [s \in Known(u, d) |-> IF u[s][d] = Unknown THEN 0 ELSE u[s][d]]
<1>1. f = g
  OBVIOUS
<1>2. Measured(t, d) = SumFunction(f) /\ Measured(u, d) = SumFunction(g)
  BY DEF Measured
<1>. HIDE DEF f, g
<1>3. Measured(t, d) = Measured(u, d)
  BY <1>1, <1>2
<1>. QED
  BY <1>3 DEF Observed

\* ... and a projection on the observations of the days it is made from.
LEMMA SameProjection ==
    ASSUME NEW t, NEW u, NEW days, \A d \in days : Observed(t, d) = Observed(u, d),
           NEW from, NEW horizon
    PROVE  Project(t, days, from, horizon) = Project(u, days, from, horizon)
<1>. DEFINE x(d) == d - Min(days)
            f == [d \in days |-> Observed(t, d)]
            g == [d \in days |-> Observed(u, d)]
            fx == [d \in days |-> x(d) * Observed(t, d)]
            gx == [d \in days |-> x(d) * Observed(u, d)]
            sumX == SumFunction([d \in days |-> x(d)])
            sumXX == SumFunction([d \in days |-> x(d) * x(d)])
<1>1. f = g /\ fx = gx
  OBVIOUS
<1>2. /\ Fit(t, days) = Line(Min(days), Cardinality(days), sumX, SumFunction(f), sumXX, SumFunction(fx))
      /\ Fit(u, days) = Line(Min(days), Cardinality(days), sumX, SumFunction(g), sumXX, SumFunction(gx))
  BY DEF Fit
<1>. HIDE DEF f, g, fx, gx, sumX, sumXX
<1>3. Fit(t, days) = Fit(u, days)
  BY <1>1, <1>2
<1>. QED
  BY <1>3 DEF Project

-----------------------------------------------------------------------------
(* BacktestIsBlind and UnknownIsNotZero.                                   *)

LEMMA MarksAreNoAmounts == Absent \notin Amounts /\ Unknown \notin Amounts
BY ForecastAssumption DEF Absent, Unknown

LEMMA HistoryIsFinite ==
    ASSUME NEW t
    PROVE  /\ HistoryDays(t) \in SUBSET History /\ HistoryDays(t) \in SUBSET Int
           /\ IsFiniteSet(HistoryDays(t)) /\ Cardinality(HistoryDays(t)) \in Nat
<1>0. 1 \in Int /\ LastHistory \in Int
  BY ForecastAssumption
<1>1. IsFiniteSet(History) /\ HistoryDays(t) \in SUBSET History /\ History \in SUBSET Int
  <2>1. IsFiniteSet(1..LastHistory)
    BY <1>0, FS_Interval
  <2>. QED
    BY <1>0, <2>1 DEF History, HistoryDays
<1>. QED
  BY <1>1, FS_Subset, FS_CardinalityType

\* The days trained on come before every day held out.
LEMMA TrainingIsBefore ==
    ASSUME NEW t, Cardinality(HistoryDays(t)) > HeldOut
    PROVE  Training(t) \cap Latest(HistoryDays(t), HeldOut) = {}
<1>. DEFINE days == HistoryDays(t)
            late == Latest(days, HeldOut)
<1>1. HeldOut \in Nat \ {0}
  BY ForecastAssumption
<1>2. days \in SUBSET Int /\ IsFiniteSet(days) /\ HeldOut <= Cardinality(days)
  BY <1>1, HistoryIsFinite
<1>3. late \in SUBSET days /\ Cardinality(late) = HeldOut
  <2>. HIDE DEF days
  <2>. QED
    BY <1>1, <1>2, LatestAre
<1>4. late # {} /\ IsFiniteSet(late) /\ late \in SUBSET Int
  BY <1>1, <1>2, <1>3, FS_Subset, FS_EmptySet
<1>. HIDE DEF late
<1>5. Min(late) \in Int /\ \A d \in late : Min(late) <= d
  BY <1>4, MinIsFirst
<1>6. ASSUME NEW d \in Training(t), d \in late PROVE FALSE
  <2>1. d < Min(late) /\ d \in Int
    BY <1>2, <1>6 DEF Training, Cutoff, late
  <2>. QED
    BY <1>5, <1>6, <2>1
<1>. QED
  BY <1>6 DEF late

\* FR-022, for any table, any history and any number of days held out.
LEMMA BlindBacktest == ForecastTypeOK => BacktestIsBlind
<1>. SUFFICES ASSUME ForecastTypeOK, Cardinality(HistoryDays(rows)) > HeldOut, NEW v \in Amounts
              PROVE  Backtest(Replaced(Latest(HistoryDays(rows), HeldOut), v)) = Backtest(rows)
  BY DEF BacktestIsBlind
<1>. DEFINE late == Latest(HistoryDays(rows), HeldOut)
            u == Replaced(late, v)
<1>1. ASSUME NEW s \in Sources, NEW d \in History
      PROVE  u[s][d] = IF d \in late /\ s \in Known(rows, d) THEN v ELSE rows[s][d]
  BY DEF Replaced
<1>. HIDE DEF u, late
<1>2. ASSUME NEW d \in History PROVE Known(u, d) = Known(rows, d)
  BY <1>1, MarksAreNoAmounts DEF Known
<1>3. HistoryDays(u) = HistoryDays(rows)
  BY <1>2 DEF HistoryDays
<1>4. Training(u) = Training(rows) /\ Cutoff(HistoryDays(u)) = Cutoff(HistoryDays(rows))
  BY <1>3 DEF Training
<1>5. ASSUME NEW d \in Training(rows) PROVE Observed(u, d) = Observed(rows, d)
  <2>1. d \notin late /\ d \in History
    BY TrainingIsBefore DEF late, Training, HistoryDays
  <2>2. \A s \in Known(u, d) : u[s][d] = rows[s][d]
    BY <1>1, <2>1 DEF Known
  <2>. QED
    BY <1>2, <2>1, <2>2, SameObserved
<1>6. Project(u, Training(rows), Cutoff(HistoryDays(rows)), HeldOut)
        = Project(rows, Training(rows), Cutoff(HistoryDays(rows)), HeldOut)
  BY <1>5, SameProjection
<1>7. Backtest(u) = Backtest(rows)
  BY <1>3, <1>4, <1>6 DEF Backtest
<1>. QED
  BY <1>7 DEF u, late

\* FR-020, for any table.
LEMMA UnknownCountsForNothing == ForecastTypeOK => UnknownIsNotZero
<1>. SUFFICES ASSUME ForecastTypeOK PROVE UnknownIsNotZero
  OBVIOUS
<1>. DEFINE u == Forgotten
<1>1. ASSUME NEW s \in Sources, NEW d \in History
      PROVE  u[s][d] = IF rows[s][d] = Unknown THEN Absent ELSE rows[s][d]
  BY DEF Forgotten
<1>. HIDE DEF u
<1>2. ASSUME NEW d \in History
      PROVE  /\ Known(u, d) = Known(rows, d)
             /\ \A s \in Known(u, d) : u[s][d] = rows[s][d]
  BY <1>1 DEF Known
<1>3. \A d \in History : Observed(u, d) = Observed(rows, d)
  BY <1>2, SameObserved
<1>4. HistoryDays(u) = HistoryDays(rows)
  BY <1>2 DEF HistoryDays
<1>5. ASSUME NEW days \in SUBSET History, NEW from, NEW horizon
      PROVE  Project(u, days, from, horizon) = Project(rows, days, from, horizon)
  BY <1>3, SameProjection
<1>6. Training(u) = Training(rows) /\ Training(rows) \in SUBSET History
  BY <1>4 DEF Training, HistoryDays
<1>7. Backtest(u) = Backtest(rows)
  BY <1>4, <1>5, <1>6 DEF Backtest
<1>8. Forecast(u) = Forecast(rows)
  <2>1. Project(u, HistoryDays(u), LastHistory + 1, HeldOut)
          = Project(rows, HistoryDays(rows), LastHistory + 1, HeldOut)
    BY <1>4, <1>5, HistoryIsFinite
  <2>. QED
    BY <1>7, <2>1 DEF Forecast
<1>9. ASSUME NEW s \in Sources PROVE Recommend(rows, s) = Recommend(u, s)
  <2>. DEFINE days == {d \in History : s \in Known(rows, d)}
              f == [d \in days |-> IF rows[s][d] = Unknown THEN 0 ELSE rows[s][d]]
              g == [d \in days |-> IF u[s][d] = Unknown THEN 0 ELSE u[s][d]]
  <2>1. {d \in History : s \in Known(u, d)} = days
    BY <1>2
  <2>2. \A d \in days : u[s][d] = rows[s][d]
    BY <1>2
  <2>3. f = g
    BY <2>2
  <2>4. Recommend(rows, s) <=> /\ Cardinality(days) >= MinPeriods
                               /\ SumFunction(f) < LowCpu * Cardinality(days)
                               /\ \A d \in days : f[d] < 2 * LowCpu
    BY DEF Recommend
  <2>5. Recommend(u, s) <=> /\ Cardinality(days) >= MinPeriods
                            /\ SumFunction(g) < LowCpu * Cardinality(days)
                            /\ \A d \in days : g[d] < 2 * LowCpu
    BY <2>1 DEF Recommend
  <2>6. Recommend(rows, s) <=> Recommend(u, s)
    <3>. HIDE DEF f, g, days
    <3>. QED
      BY <2>3, <2>4, <2>5
  <2>. QED
    BY <2>6 DEF Recommend
<1>. QED
  BY <1>8, <1>9 DEF UnknownIsNotZero, u

-----------------------------------------------------------------------------
(* LineIsLeastSquares.                                                     *)

\* The arithmetic of the normal equations, with the determinant and the rise as they are
\* computed from the sums.
LEMMA NormalArithmetic ==
    ASSUME NEW n \in Int, NEW sX \in Int, NEW sY \in Int, NEW sXX \in Int, NEW sXY \in Int,
           NEW det \in Int, det = n * sXX - sX * sX,
           NEW rise \in Int, rise = n * sXY - sX * sY
    PROVE  /\ (sY * det - rise * sX) * n + (n * rise) * sX - (n * det) * sY = 0
           /\ (sY * det - rise * sX) * sX + (n * rise) * sXX - (n * det) * sXY = 0
<1>1. (sY * det - rise * sX) * n + (n * rise) * sX - (n * det) * sY = 0
  OBVIOUS
<1>2. (sY * det - rise * sX) * sX + (n * rise) * sXX - (n * det) * sXY
        = rise * (n * sXX - sX * sX) - det * (n * sXY - sX * sY)
  OBVIOUS
<1>3. rise * (n * sXX - sX * sX) - det * (n * sXY - sX * sY) = rise * det - det * rise
  OBVIOUS
<1>4. rise * det - det * rise = 0
  OBVIOUS
<1>. QED
  BY <1>1, <1>2, <1>3, <1>4

\* Squares are not negative.
LEMMA SquareIsPositive == \A a \in Int : a * a \in Nat /\ (a * a = 0 => a = 0)
<1>. TAKE a \in Int
<1>1. CASE a >= 0
  BY <1>1
<1>2. CASE a < 0
  BY <1>2
<1>. QED
  BY <1>1, <1>2

\* One function is affine in two others.
Affine(h, a, b, f, c, g, S) == \A d \in S : h[d] = a + b * f[d] + c * g[d]

\* The sums of affine terms.
LEMMA SumOfAffine ==
    ASSUME NEW S, IsFiniteSet(S), NEW f, NEW g, Integral(f, S), Integral(g, S),
           NEW a \in Int, NEW b \in Int, NEW c \in Int, NEW h,
           Affine(h, a, b, f, c, g, S)
    PROVE  /\ SumFunctionOnSet(h, S) = a * Cardinality(S) + b * SumFunctionOnSet(f, S)
                                          + c * SumFunctionOnSet(g, S)
           /\ Integral(h, S)
<1>. DEFINE k == [d \in S |-> a]
            m == [d \in S |-> a + b * f[d]]
<1>1. /\ \A d \in S : k[d] = a
      /\ \A d \in S : m[d] = k[d] + b * f[d]
      /\ \A d \in S : h[d] = m[d] + c * g[d]
      /\ Integral(k, S) /\ Integral(m, S)
  BY DEF Integral, Affine
<1>. HIDE DEF k, m
<1>2. SumFunctionOnSet(k, S) = a * Cardinality(S)
  BY <1>1, SumOfConstant
<1>3. SumFunctionOnSet(m, S) = SumFunctionOnSet(k, S) + b * SumFunctionOnSet(f, S)
  BY <1>1, SumIsLinear
<1>4. SumFunctionOnSet(h, S) = SumFunctionOnSet(m, S) + c * SumFunctionOnSet(g, S)
  BY <1>1, SumIsLinear
<1>5. Integral(h, S)
  BY <1>1 DEF Integral
<1>. QED
  BY <1>2, <1>3, <1>4, <1>5

\* One function is the product of two others.
Products(f, g, h, S) == \A d \in S : f[d] = g[d] * h[d]

\* Points of which one has abscissa 0 and whose determinant vanishes all have abscissa 0.
LEMMA NoSpread ==
    ASSUME NEW S, IsFiniteSet(S), NEW x, NEW xx, Integral(x, S),
           Products(xx, x, x, S),
           NEW o \in S, x[o] = 0,
           Cardinality(S) * SumFunctionOnSet(xx, S)
             - SumFunctionOnSet(x, S) * SumFunctionOnSet(x, S) = 0
    PROVE  \A d \in S : x[d] = 0
<1>. DEFINE n == Cardinality(S)
            sX == SumFunctionOnSet(x, S)
            sXX == SumFunctionOnSet(xx, S)
            q == [d \in S |-> (n * x[d] - sX) * (n * x[d] - sX)]
<1>1. n \in Nat \ {0} /\ Integral(xx, S)
  <2>1. n \in Nat /\ n # 0
    BY FS_CardinalityType, FS_EmptySet
  <2>. QED
    BY <2>1 DEF Integral, Products
<1>2. sX \in Int /\ sXX \in Int
  BY <1>1, SumIsInteger
<1>. HIDE DEF n, sX, sXX
<1>3. ASSUME NEW d \in S
      PROVE  /\ q[d] = sX * sX + (0 - 2 * n * sX) * x[d] + (n * n) * xx[d]
             /\ q[d] \in Nat /\ (q[d] = 0 => n * x[d] = sX)
  <2>. DEFINE e == n * x[d] - sX
  <2>1. x[d] \in Int /\ xx[d] = x[d] * x[d] /\ e \in Int /\ q[d] = e * e
    BY <1>1, <1>2 DEF Integral, Products
  <2>2. e * e = sX * sX + (0 - 2 * n * sX) * x[d] + (n * n) * (x[d] * x[d])
    BY <1>1, <1>2, <2>1
  <2>3. e = 0 => n * x[d] = sX
    <3>1. n * x[d] \in Int
      BY <1>1, <2>1
    <3>2. \A a \in Int : a - sX = 0 => a = sX
      BY <1>2
    <3>. QED
      BY <3>1, <3>2
  <2>. HIDE DEF e, q
  <2>. QED
    BY <2>1, <2>2, <2>3, SquareIsPositive
<1>. HIDE DEF q
<1>4. SumFunctionOnSet(q, S) = (sX * sX) * n + (0 - 2 * n * sX) * sX + (n * n) * sXX
  <2>1. /\ sX * sX \in Int /\ 0 - 2 * n * sX \in Int /\ n * n \in Int
        /\ Affine(q, sX * sX, 0 - 2 * n * sX, x, n * n, xx, S)
    BY <1>1, <1>2, <1>3 DEF Affine
  <2>. QED
    BY <1>1, <2>1, SumOfAffine DEF n, sX, sXX
<1>5. n * sXX - sX * sX = 0
  BY DEF n, sX, sXX
<1>6. (sX * sX) * n + (0 - 2 * n * sX) * sX + (n * n) * sXX = n * (n * sXX - sX * sX)
  BY <1>1, <1>2
<1>7. SumFunctionOnSet(q, S) = 0
  BY <1>1, <1>4, <1>5, <1>6
<1>8. \A d \in S : n * x[d] = sX
  BY <1>3, <1>7, SumIsPositive
<1>9. sX = 0
  BY <1>1, <1>8
<1>10. ASSUME NEW a \in Int, n * a = 0 PROVE a = 0
  <2>1. CASE a > 0
    BY <1>1, <1>10, <2>1
  <2>2. CASE a < 0
    BY <1>1, <1>10, <2>2
  <2>. QED
    BY <2>1, <2>2
<1>. QED
  BY <1>8, <1>9, <1>10 DEF Integral

\* The normal equations: the residuals of the line that is fitted to some points add up to
\* nothing, by themselves and weighted with the abscissas.
LEMMA NormalEquations ==
    ASSUME NEW S, IsFiniteSet(S), NEW x, NEW y, Integral(x, S), Integral(y, S),
           NEW o \in S, x[o] = 0,
           NEW xx, Products(xx, x, x, S),
           NEW xy, Products(xy, x, y, S),
           NEW line, \E p : line = Line(p, Cardinality(S), SumFunctionOnSet(x, S),
                        SumFunctionOnSet(y, S), SumFunctionOnSet(xx, S), SumFunctionOnSet(xy, S)),
           NEW e, Affine(e, line.intercept, line.slope, x, 0 - line.over, y, S),
           NEW ex, Products(ex, e, x, S)
    PROVE  /\ line.intercept \in Int /\ line.slope \in Int /\ line.over \in Int
           /\ Integral(e, S) /\ Integral(ex, S)
           /\ SumFunctionOnSet(e, S) = 0 /\ SumFunctionOnSet(ex, S) = 0
<1>. DEFINE n == Cardinality(S)
            sX == SumFunctionOnSet(x, S)
            sY == SumFunctionOnSet(y, S)
            sXX == SumFunctionOnSet(xx, S)
            sXY == SumFunctionOnSet(xy, S)
            det == n * sXX - sX * sX
            rise == n * sXY - sX * sY
            A == line.intercept
            B == line.slope
            D == line.over
<1>1. n \in Int /\ Integral(xx, S) /\ Integral(xy, S)
  <2>1. n \in Int
    BY FS_CardinalityType
  <2>2. Integral(xx, S) /\ Integral(xy, S)
    BY DEF Integral, Products
  <2>. QED
    BY <2>1, <2>2
<1>2. sX \in Int /\ sY \in Int /\ sXX \in Int /\ sXY \in Int
  BY <1>1, SumIsInteger
<1>3. /\ det = 0 => A = sY /\ B = 0 /\ D = n
      /\ det # 0 => A = sY * det - rise * sX /\ B = n * rise /\ D = n * det
  BY DEF Line
<1>. HIDE DEF n, sX, sY, sXX, sXY, A, B, D
<1>4. det \in Int /\ rise \in Int
  BY <1>1, <1>2
<1>5. A \in Int /\ B \in Int /\ D \in Int
  <2>. HIDE DEF det, rise
  <2>. QED
    BY <1>1, <1>2, <1>3, <1>4
<1>6. Integral(e, S) /\ SumFunctionOnSet(e, S) = A * n + B * sX + (0 - D) * sY
  <2>1. 0 - D \in Int
    BY <1>5
  <2>2. Affine(e, A, B, x, 0 - D, y, S)
    BY DEF A, B, D
  <2>. QED
    BY <1>5, <2>1, <2>2, SumOfAffine DEF n, sX, sY
<1>7. Integral(ex, S) /\ SumFunctionOnSet(ex, S) = A * sX + B * sXX + (0 - D) * sXY
  <2>. DEFINE g == [d \in S |-> A * x[d]]
              h == [d \in S |-> A * x[d] + B * xx[d]]
  <2>1. /\ \A d \in S : g[d] = A * x[d]
        /\ \A d \in S : h[d] = g[d] + B * xx[d]
        /\ Integral(g, S) /\ Integral(h, S)
    BY <1>1, <1>5 DEF Integral
  <2>. HIDE DEF g, h
  <2>2. SumFunctionOnSet(g, S) = A * sX
    <3>0. ASSUME NEW d \in S PROVE g[d] = 0 + A * x[d] + 0 * x[d]
      <4>1. PICK a \in Int : a = x[d]
        BY DEF Integral
      <4>. QED
        BY <1>5, <2>1, <4>1
    <3>1. Affine(g, 0, A, x, 0, x, S)
      BY <3>0 DEF Affine
    <3>2. SumFunctionOnSet(g, S) = 0 * Cardinality(S) + A * sX + 0 * sX
      BY <1>5, <3>1, SumOfAffine DEF sX
    <3>. QED
      BY <1>1, <1>2, <1>5, <3>2 DEF n
  <2>3. SumFunctionOnSet(h, S) = SumFunctionOnSet(g, S) + B * sXX
    BY <1>1, <1>5, <2>1, SumIsLinear DEF sXX
  <2>4. ASSUME NEW d \in S PROVE ex[d] = h[d] + (0 - D) * xy[d]
    <3>1. PICK a \in Int : a = x[d]
      BY DEF Integral
    <3>2. PICK b \in Int : b = y[d]
      BY DEF Integral
    <3>3. ex[d] = (A + B * a + (0 - D) * b) * a /\ h[d] = A * a + B * (a * a) /\ xy[d] = a * b
      BY <2>1, <3>1, <3>2 DEF A, B, D, Products, Affine
    <3>4. (A + B * a + (0 - D) * b) * a = A * a + B * (a * a) + (0 - D) * (a * b)
      BY <1>5
    <3>. QED
      BY <3>3, <3>4
  <2>5. 0 - D \in Int
    BY <1>5
  <2>6. Integral(ex, S)
    BY <1>1, <2>1, <2>4, <2>5 DEF Integral
  <2>7. SumFunctionOnSet(ex, S) = SumFunctionOnSet(h, S) + (0 - D) * sXY
    BY <1>1, <2>1, <2>4, <2>5, SumIsLinear DEF sXY
  <2>. QED
    BY <2>2, <2>3, <2>6, <2>7
<1>8. CASE det # 0
  <2>1. /\ A * n + B * sX - D * sY = 0
        /\ A * sX + B * sXX - D * sXY = 0
    <3>1. /\ (sY * det - rise * sX) * n + (n * rise) * sX - (n * det) * sY = 0
          /\ (sY * det - rise * sX) * sX + (n * rise) * sXX - (n * det) * sXY = 0
      BY <1>1, <1>2, <1>4, NormalArithmetic
    <3>. HIDE DEF det, rise
    <3>. QED
      BY <1>3, <1>8, <3>1
  <2>2. A * n + B * sX + (0 - D) * sY = A * n + B * sX - D * sY
    BY <1>1, <1>2, <1>5
  <2>3. A * sX + B * sXX + (0 - D) * sXY = A * sX + B * sXX - D * sXY
    BY <1>2, <1>5
  <2>4. /\ A * n + B * sX + (0 - D) * sY = 0
        /\ A * sX + B * sXX + (0 - D) * sXY = 0
    BY <2>1, <2>2, <2>3
  <2>5. SumFunctionOnSet(e, S) = 0 /\ SumFunctionOnSet(ex, S) = 0
    BY <1>6, <1>7, <2>4
  <2>. QED
    BY <1>5, <1>6, <1>7, <2>5 DEF A, B, D
<1>9. CASE det = 0
  <2>1. A = sY /\ B = 0 /\ D = n
    BY <1>3, <1>9
  <2>2. \A d \in S : x[d] = 0
    BY <1>9, NoSpread DEF n, sX, sXX
  <2>3. A * n + B * sX + (0 - D) * sY = 0
    BY <1>1, <1>2, <2>1
  <2>4. \A d \in S : ex[d] = 0
    BY <1>6, <2>2 DEF Integral, Products
  <2>5. SumFunctionOnSet(ex, S) = 0 * Cardinality(S)
    BY <2>4, SumOfConstant
  <2>6. SumFunctionOnSet(ex, S) = 0
    BY <1>1, <2>5 DEF n
  <2>. QED
    BY <1>5, <1>6, <1>7, <2>3, <2>6 DEF A, B, D
<1>. QED
  BY <1>8, <1>9

\* Multiples of terms that add up to nothing do.
LEMMA NothingAddsUp ==
    ASSUME NEW S, IsFiniteSet(S), NEW e, Integral(e, S), NEW ex, Integral(ex, S),
           SumFunctionOnSet(e, S) = 0, SumFunctionOnSet(ex, S) = 0,
           NEW p \in Int, NEW q \in Int, NEW c, Affine(c, 0, p, e, q, ex, S)
    PROVE  Integral(c, S) /\ SumFunctionOnSet(c, S) = 0
<1>1. /\ SumFunctionOnSet(c, S) = 0 * Cardinality(S) + p * SumFunctionOnSet(e, S)
                                    + q * SumFunctionOnSet(ex, S)
      /\ Integral(c, S)
  BY SumOfAffine
<1>2. Cardinality(S) \in Nat
  BY FS_CardinalityType
<1>. QED
  BY <1>1, <1>2

\* The residuals of a line that was lifted and tilted.
Shifted(h, e, up, tilt, x, S) == \A d \in S : h[d] = e[d] + up + tilt * x[d]

\* Residuals that obey the normal equations grow if the line is lifted or tilted.
LEMMA NoBetterLine ==
    ASSUME NEW S, IsFiniteSet(S), NEW x, Integral(x, S), NEW e, Integral(e, S),
           NEW ex, Products(ex, e, x, S),
           SumFunctionOnSet(e, S) = 0, SumFunctionOnSet(ex, S) = 0,
           NEW up \in Int, NEW tilt \in Int,
           NEW f, Products(f, e, e, S),
           NEW h, Shifted(h, e, up, tilt, x, S),
           NEW g, Products(g, h, h, S)
    PROVE  SumFunctionOnSet(f, S) <= SumFunctionOnSet(g, S)
<1>. DEFINE m == [d \in S |-> (up + tilt * x[d]) * (up + tilt * x[d])]
            k == [d \in S |-> f[d] + 1 * m[d]]
            c == [d \in S |-> 0 + (2 * up) * e[d] + (2 * tilt) * ex[d]]
<1>1. Integral(f, S) /\ Integral(ex, S)
  BY DEF Integral, Products
<1>2. \A d \in S : m[d] \in Nat
  <2>. TAKE d \in S
  <2>1. up + tilt * x[d] \in Int
    BY DEF Integral
  <2>. QED
    BY <2>1, SquareIsPositive
<1>3. /\ \A d \in S : k[d] = f[d] + 1 * m[d]
      /\ \A d \in S : c[d] = 0 + (2 * up) * e[d] + (2 * tilt) * ex[d]
  OBVIOUS
<1>4. ASSUME NEW d \in S PROVE g[d] = k[d] + 1 * c[d]
  <2>1. PICK a \in Int : a = e[d]
    BY DEF Integral
  <2>2. PICK b \in Int : b = x[d]
    BY DEF Integral
  <2>3. /\ g[d] = (a + up + tilt * b) * (a + up + tilt * b)
        /\ k[d] = a * a + 1 * ((up + tilt * b) * (up + tilt * b))
        /\ c[d] = 0 + (2 * up) * a + (2 * tilt) * (a * b)
    BY <2>1, <2>2 DEF Products, Shifted
  <2>4. (a + up + tilt * b) * (a + up + tilt * b)
          = (a * a + 1 * ((up + tilt * b) * (up + tilt * b)))
            + 1 * (0 + (2 * up) * a + (2 * tilt) * (a * b))
    OBVIOUS
  <2>. QED
    BY <2>3, <2>4
<1>. HIDE DEF m, k, c
<1>5. Integral(m, S) /\ Integral(k, S)
  BY <1>1, <1>2, <1>3 DEF Integral
<1>6. Integral(c, S) /\ SumFunctionOnSet(c, S) = 0
  <2>1. Affine(c, 0, 2 * up, e, 2 * tilt, ex, S) /\ 2 * up \in Int /\ 2 * tilt \in Int
    BY <1>3 DEF Affine
  <2>. QED
    BY <1>1, <2>1, NothingAddsUp
<1>7. SumFunctionOnSet(k, S) = SumFunctionOnSet(f, S) + 1 * SumFunctionOnSet(m, S)
  BY <1>1, <1>3, <1>5, SumIsLinear
<1>8. SumFunctionOnSet(g, S) = SumFunctionOnSet(k, S) + 1 * SumFunctionOnSet(c, S)
  <2>1. \A d \in S : g[d] = k[d] + 1 * c[d]
    BY <1>4
  <2>2. Integral(k, S) /\ Integral(c, S)
    BY <1>5, <1>6
  <2>. QED
    BY <2>1, <2>2, SumIsLinear
<1>9. SumFunctionOnSet(m, S) \in Nat /\ SumFunctionOnSet(f, S) \in Int
  BY <1>1, <1>2, SumIsPositive, SumIsInteger
<1>. QED
  BY <1>6, <1>7, <1>8, <1>9

\* An observation is a whole number of the fraction Scale.
LEMMA ObservedIsWhole ==
    ASSUME ForecastTypeOK, NEW d \in HistoryDays(rows)
    PROVE  Observed(rows, d) \in Int
<1>. DEFINE K == Known(rows, d)
            f == [s \in K |-> IF rows[s][d] = Unknown THEN 0 ELSE rows[s][d]]
<1>1. d \in History /\ K # {} /\ K \in SUBSET Sources
  BY DEF HistoryDays, Known
<1>2. IsFiniteSet(K) /\ Cardinality(K) \in Nat /\ Cardinality(K) # 0
  BY <1>1, ForecastAssumption, FS_Subset, FS_CardinalityType, FS_EmptySet
<1>3. Integral(f, K)
  <2>. SUFFICES ASSUME NEW s \in K PROVE f[s] \in Int
    BY DEF Integral
  <2>1. rows[s][d] \in Amounts /\ rows[s][d] # Unknown
    BY <1>1 DEF ForecastTypeOK, Known
  <2>2. PICK v \in Nat : v = rows[s][d]
    BY <2>1, ForecastAssumption
  <2>3. f[s] = v
    BY <2>1, <2>2
  <2>. HIDE DEF f
  <2>. QED
    BY <2>2, <2>3
<1>4. Measured(rows, d) = SumFunctionOnSet(f, K)
  BY DEF Measured, SumFunction
<1>. HIDE DEF f, K
<1>5. Measured(rows, d) \in Int
  BY <1>2, <1>3, <1>4, SumIsInteger
<1>6. Scale \in Nat
  BY ForecastAssumption
<1>7. \A a \in Int, b \in Nat : b # 0 => a \div b \in Int
  OBVIOUS
<1>8. Measured(rows, d) * Scale \in Int
  BY <1>5, <1>6
<1>. QED
  BY <1>2, <1>7, <1>8 DEF Observed, K

\* Moving the fitted line (_fit in forecasting.py), by whatever amount, makes
\* the squared error no smaller: it is the line of least squares.
THEOREM FitIsBest ==
    ASSUME ForecastTypeOK, HistoryDays(rows) # {}, NEW up \in Int, NEW tilt \in Int
    PROVE  LET line == Fit(rows, HistoryDays(rows))
           IN Error(line) <= Error([line EXCEPT !.intercept = @ + up, !.slope = @ + tilt])
<1>. DEFINE S == HistoryDays(rows)
            o == Min(S)
            x == [d \in S |-> d - o]
            y == [d \in S |-> Observed(rows, d)]
            xx == [d \in S |-> (d - o) * (d - o)]
            xy == [d \in S |-> (d - o) * Observed(rows, d)]
            line == Fit(rows, S)
            moved == [line EXCEPT !.intercept = @ + up, !.slope = @ + tilt]
            e == [d \in S |-> Residual(line, d)]
            h == [d \in S |-> Residual(moved, d)]
            ex == [d \in S |-> Residual(line, d) * (d - o)]
            f == [d \in S |-> Residual(line, d) * Residual(line, d)]
            g == [d \in S |-> Residual(moved, d) * Residual(moved, d)]
<1>1. S \in SUBSET Int /\ IsFiniteSet(S)
  BY HistoryIsFinite
<1>2. o \in S /\ o \in Int
  <2>. HIDE DEF S
  <2>. QED
    BY <1>1, MinIsFirst DEF S
<1>3. Integral(x, S) /\ Integral(y, S) /\ x[o] = 0 /\ Products(xx, x, x, S) /\ Products(xy, x, y, S)
  BY <1>1, <1>2, ObservedIsWhole DEF Integral, Products
<1>4. line = Line(o, Cardinality(S), SumFunctionOnSet(x, S), SumFunctionOnSet(y, S),
                  SumFunctionOnSet(xx, S), SumFunctionOnSet(xy, S))
  BY DEF Fit, SumFunction
<1>5. /\ line.origin = o
      /\ line = [origin |-> line.origin, over |-> line.over,
                 intercept |-> line.intercept, slope |-> line.slope]
  <2>. DEFINE n == Cardinality(S)
              sX == SumFunctionOnSet(x, S)
              sY == SumFunctionOnSet(y, S)
              sXX == SumFunctionOnSet(xx, S)
              sXY == SumFunctionOnSet(xy, S)
  <2>1. line = Line(o, n, sX, sY, sXX, sXY)
    BY <1>4
  <2>. HIDE DEF n, sX, sY, sXX, sXY, line, o
  <2>. QED
    BY <2>1 DEF Line
<1>6. Error(line) = SumFunctionOnSet(f, S) /\ Error(moved) = SumFunctionOnSet(g, S)
  BY DEF Error, SumFunction
<1>7. /\ moved.intercept = line.intercept + up /\ moved.slope = line.slope + tilt
      /\ moved.origin = o /\ moved.over = line.over
  <2>. HIDE DEF line
  <2>. QED
    BY <1>5
<1>8. /\ \A d \in S : e[d] = line.intercept + line.slope * (d - o) - line.over * Observed(rows, d)
      /\ \A d \in S : h[d] = moved.intercept + moved.slope * (d - o) - moved.over * Observed(rows, d)
      /\ Products(ex, e, x, S) /\ Products(f, e, e, S) /\ Products(g, h, h, S)
  <2>1. \A d \in S : e[d] = line.intercept + line.slope * (d - o) - line.over * Observed(rows, d)
    BY <1>5 DEF Residual
  <2>2. \A d \in S : h[d] = moved.intercept + moved.slope * (d - o) - moved.over * Observed(rows, d)
    <3>. HIDE DEF moved
    <3>. QED
      BY <1>7 DEF Residual
  <2>3. Products(ex, e, x, S) /\ Products(f, e, e, S) /\ Products(g, h, h, S)
    <3>. HIDE DEF moved, line, o, S
    <3>. QED
      BY DEF Products
  <2>. QED
    BY <2>1, <2>2, <2>3
<1>9. \A d \in S : x[d] = d - o /\ y[d] = Observed(rows, d) /\ d - o \in Int /\ Observed(rows, d) \in Int
  BY <1>1, <1>2, ObservedIsWhole
<1>. HIDE DEF S, o, x, y, xx, xy, line, moved, e, h, ex, f, g
<1>10. line.intercept \in Int /\ line.slope \in Int /\ line.over \in Int
  <2>. DEFINE k == [d \in S |-> line.intercept + line.slope * x[d] + (0 - line.over) * y[d]]
              kx == [d \in S |-> k[d] * x[d]]
  <2>1. Affine(k, line.intercept, line.slope, x, 0 - line.over, y, S) /\ Products(kx, k, x, S)
    BY DEF Affine, Products
  <2>. HIDE DEF k, kx
  <2>. QED
    BY <1>1, <1>2, <1>3, <1>4, <2>1, NormalEquations
<1>11. Affine(e, line.intercept, line.slope, x, 0 - line.over, y, S)
  <2>. SUFFICES ASSUME NEW d \in S
                PROVE  e[d] = line.intercept + line.slope * x[d] + (0 - line.over) * y[d]
    BY DEF Affine
  <2>1. PICK a \in Int : a = x[d] /\ a = d - o
    BY <1>9
  <2>2. PICK b \in Int : b = y[d] /\ b = Observed(rows, d)
    BY <1>9
  <2>3. e[d] = line.intercept + line.slope * a - line.over * b
    BY <1>8, <2>1, <2>2
  <2>4. line.intercept + line.slope * a - line.over * b
          = line.intercept + line.slope * a + (0 - line.over) * b
    BY <1>10
  <2>. QED
    BY <2>1, <2>2, <2>3, <2>4
<1>12. /\ Integral(e, S) /\ Integral(ex, S)
       /\ SumFunctionOnSet(e, S) = 0 /\ SumFunctionOnSet(ex, S) = 0
  BY <1>1, <1>2, <1>3, <1>4, <1>8, <1>11, NormalEquations
<1>13. ASSUME NEW d \in S PROVE h[d] = e[d] + up + tilt * x[d]
  <2>1. PICK a \in Int : a = x[d] /\ a = d - o
    BY <1>9
  <2>2. PICK b \in Int : b = Observed(rows, d)
    BY <1>9
  <2>3. /\ e[d] = line.intercept + line.slope * a - line.over * b
        /\ h[d] = (line.intercept + up) + (line.slope + tilt) * a - line.over * b
    BY <1>7, <1>8, <2>1, <2>2
  <2>4. (line.intercept + up) + (line.slope + tilt) * a - line.over * b
          = (line.intercept + line.slope * a - line.over * b) + up + tilt * a
    BY <1>10
  <2>. QED
    BY <2>1, <2>3, <2>4
<1>14. Shifted(h, e, up, tilt, x, S)
  BY <1>13 DEF Shifted
<1>15. SumFunctionOnSet(f, S) <= SumFunctionOnSet(g, S)
  BY <1>1, <1>3, <1>8, <1>12, <1>14, NoBetterLine
<1>. QED
  BY <1>6, <1>15 DEF line, moved, S

LEMMA LeastSquares == ForecastTypeOK => LineIsLeastSquares
<1>. SUFFICES ASSUME ForecastTypeOK, Cardinality(HistoryDays(rows)) >= MinPeriods,
                     NEW up \in {-1, 0, 1}, NEW tilt \in {-1, 0, 1}
              PROVE  LET line == Fit(rows, HistoryDays(rows))
                     IN Error(line) <= Error([line EXCEPT !.intercept = @ + up, !.slope = @ + tilt])
  BY DEF LineIsLeastSquares
<1>1. HistoryDays(rows) # {}
  BY ForecastAssumption, FS_EmptySet
<1>2. up \in Int /\ tilt \in Int
  OBVIOUS
<1>. QED
  BY <1>1, <1>2, FitIsBest

-----------------------------------------------------------------------------
LEMMA ForecastTypeInit == ForecastInit => ForecastTypeOK
BY DEF ForecastInit, ForecastTypeOK

LEMMA ForecastTypeStep == ForecastTypeOK /\ [ForecastNext]_forecastVars => ForecastTypeOK'
BY DEF ForecastTypeOK, ForecastNext, Collect, forecastVars

\* The rows a forecast is computed from keep their type.
THEOREM ForecastTypeCorrect == ForecastSpec => []ForecastTypeOK
BY ForecastTypeInit, ForecastTypeStep, PTL DEF ForecastSpec

\* FR-020, FR-021, FR-022: whatever is collected in whatever order, a backtest does not see
\* the days it is held against, an unknown day is not a zero, and the line is the one of
\* least squares, for any number of sources, days and held-out days and for all amounts.
THEOREM ForecastsAreHonestHolds == ForecastSpec => []ForecastsAreHonest
<1>1. ForecastTypeOK => ForecastsAreHonest
  BY BlindBacktest, UnknownCountsForNothing, LeastSquares DEF ForecastsAreHonest
<1>. QED
  BY <1>1, ForecastTypeCorrect, PTL

-----------------------------------------------------------------------------
(***************************************************************************)
(* Governance.                                                             *)
(***************************************************************************)
LEMMA GovernanceStarts ==
    GovernanceInit => RegistryInit /\ OwnerInit /\ HygieneInit /\ MetricInit /\ ForecastInit
BY DEF GovernanceInit

\* A step of one part is a step of its own specification and a stutter of the others'.
LEMMA GovernanceSteps ==
    ASSUME [GovernanceNext]_governanceVars
    PROVE  /\ [RegistryNext]_registryVars /\ [OwnerNext]_ownerVars /\ [HygieneNext]_hygieneVars
           /\ [MetricNext]_metricVars /\ [ForecastNext]_forecastVars
<1>1. CASE part = "projects" /\ RegistryNext /\ UNCHANGED <<ownerVars, hygieneVars, metricVars, forecastVars>>
  BY <1>1
<1>2. CASE part = "owners" /\ OwnerNext /\ UNCHANGED <<registryVars, hygieneVars, metricVars, forecastVars>>
  BY <1>2
<1>3. CASE part = "hygiene" /\ HygieneNext /\ UNCHANGED <<registryVars, ownerVars, metricVars, forecastVars>>
  BY <1>3
<1>4. CASE part = "metrics" /\ MetricNext /\ UNCHANGED <<registryVars, ownerVars, hygieneVars, forecastVars>>
  BY <1>4
<1>5. CASE part = "forecasts" /\ ForecastNext /\ UNCHANGED <<registryVars, ownerVars, hygieneVars, metricVars>>
  BY <1>5
<1>6. CASE UNCHANGED governanceVars
  BY <1>6 DEF governanceVars
<1>. QED
  BY <1>1, <1>2, <1>3, <1>4, <1>5, <1>6 DEF GovernanceNext

\* The composition implements the specification of each of its parts.
THEOREM GovernanceImplementsItsParts ==
    GovernanceSpec => RegistrySpec /\ OwnerSpec /\ HygieneSpec /\ MetricSpec /\ ForecastSpec
BY GovernanceStarts, GovernanceSteps, PTL
   DEF GovernanceSpec, RegistrySpec, OwnerSpec, HygieneSpec, MetricSpec, ForecastSpec

\* The states of all five workers are what their declarations say.
THEOREM GovernanceTypeCorrect == GovernanceSpec => []GovernanceTypeOK
BY GovernanceImplementsItsParts, RegistryTypeCorrect, OwnerTypeCorrect, HygieneTypeCorrect,
   MetricTypeCorrect, ForecastTypeCorrect, PTL DEF GovernanceTypeOK

\* What the five promise holds of their composition.
THEOREM GovernanceKeepsItsPromises ==
    GovernanceSpec => /\ []OverlapOnlyByRace /\ AttachmentIsCurrent
                      /\ OwnersOnlyImprove
                      /\ FlagsFollowEvidence
                      /\ MeasurementsStand
                      /\ []ForecastsAreHonest
BY GovernanceImplementsItsParts, OverlapOnlyByRaceHolds, AttachmentIsCurrentHolds,
   OwnersOnlyImproveHolds, FlagsFollowEvidenceHolds, MeasurementsStandHolds,
   ForecastsAreHonestHolds, PTL

=============================================================================
