-------------------------- MODULE OwnerAttribution --------------------------
(***************************************************************************)
(* Who owns a resource: after every scan a message makes the ownership     *)
(* worker sweep the audit trail of each region and write what it finds     *)
(* (backend/handlers/ownership_attribution_worker_handler.py,              *)
(* sweep_cloudtrail_events and sweep_write_events of                       *)
(* backend/connectors/aws.py, backend/app/governance/ownership.py and      *)
(* identity_resolution.py).                                                *)
(*                                                                         *)
(* The queue delivers a message more than once, so passes repeat and       *)
(* overlap.  The trail knows a resource by its short name; it forgets the  *)
(* creation of a resource before the writes that follow it.                *)
(***************************************************************************)
EXTENDS Integers, FiniteSets, Functions

CONSTANTS
    Assets,        \* resources of an account
    Name,          \* the short name of each
    Place,         \* the region of each
    LastRegion,    \* scan_regions is 1..LastRegion, in that order
    Humans,        \* principals _is_human_principal accepts
    Robot,         \* any other principal
    Nobody,        \* no event
    OwnerTagged,   \* resources with a valid email in their owner tag
    MinWrites,     \* _FALLBACK_MIN_WRITE_EVENTS; more writes than that count as that
    Sweepers,      \* passes that may overlap
    MaxSweeps,     \* bound: how many passes begin
    MaxEvents      \* bound: what happens in the cloud and to the settings

Names == {Name[r] : r \in Assets}
ScanRegions == 1..LastRegion

ASSUME OwnerAssumption ==
    /\ Robot \notin Humans /\ Nobody \notin Humans \cup {Robot}
    /\ IsFiniteSet(Assets)
    /\ LastRegion \in Nat \ {0}
    /\ Place \in [Assets -> ScanRegions]
    /\ \A r, q \in Assets : Name[r] = Name[q] /\ Place[r] = Place[q] => r = q
    /\ OwnerTagged \subseteq Assets
    /\ MinWrites \in Nat \ {0} /\ MaxSweeps \in Nat /\ MaxEvents \in Nat

NoOwner == [by |-> Nobody, confidence |-> "none", contact |-> "none"]
NoTrail == [n \in Names |-> Nobody]
NoWrites == [n \in Names |-> [h \in Humans |-> 0]]
IdleSweep == [stage |-> "idle", region |-> 1, created |-> NoTrail, modified |-> NoWrites,
              left |-> {}, wrote |-> [r \in Assets |-> NoOwner]]

VARIABLES
    creator,    \* who created each resource
    writes,     \* how often each human has written to it, its creation included
    age,        \* what the trail still knows: all of it, the writes, nothing
    alive,      \* resources that are not deleted
    pattern,    \* whether the identity pattern gives a valid email
    overrides,  \* principals with a manual override
    owner,      \* the rows of resource_owner
    sweep,      \* the transaction of each pass
    swept,      \* how many passes have begun
    events      \* how many other things have happened

trailVars == <<creator, writes, age>>
identityVars == <<pattern, overrides>>
ownerVars == <<trailVars, alive, identityVars, owner, sweep, swept, events>>

(***************************************************************************)
(* The cloud, the inventory and the administrators.                        *)
(***************************************************************************)

Happens == events < MaxEvents /\ events' = events + 1

Modify(r, h) ==
    /\ writes[r][h] < MinWrites /\ age[r] # "forgotten"
    /\ writes' = [writes EXCEPT ![r][h] = @ + 1]
    /\ Happens
    /\ UNCHANGED <<creator, age, alive, identityVars, owner, sweep, swept>>

\* Ninety days after its creation, and ninety days after its last write.
Forget(r) ==
    /\ age[r] # "forgotten"
    /\ age' = [age EXCEPT ![r] = IF @ = "recent" THEN "modified" ELSE "forgotten"]
    /\ Happens
    /\ UNCHANGED <<creator, writes, alive, identityVars, owner, sweep, swept>>

DeleteAsset(r) ==
    /\ r \in alive
    /\ alive' = alive \ {r}
    /\ Happens
    /\ UNCHANGED <<trailVars, identityVars, owner, sweep, swept>>

\* set_owner_identity_pattern
SetPattern(valid) ==
    /\ pattern # valid
    /\ pattern' = valid
    /\ Happens
    /\ UNCHANGED <<trailVars, alive, overrides, owner, sweep, swept>>

\* set_owner_identity_override; nothing removes one.
SetOverride(h) ==
    /\ h \notin overrides
    /\ overrides' = overrides \cup {h}
    /\ Happens
    /\ UNCHANGED <<trailVars, alive, pattern, owner, sweep, swept>>

(***************************************************************************)
(* The sweeps of a pass.                                                   *)
(***************************************************************************)

BeginSweep(w) ==
    /\ sweep[w].stage = "idle"
    /\ swept < MaxSweeps
    /\ sweep' = [sweep EXCEPT ![w] = [IdleSweep EXCEPT !.stage = "sweeping"]]
    /\ swept' = swept + 1
    /\ UNCHANGED <<trailVars, alive, identityVars, owner, events>>

Here(n, region) == {r \in Assets : Name[r] = n /\ Place[r] = region}

\* The creation and the writes the trail of a region still knows by that name.  A creation
\* that is none of _CREATION_EVENT_NAMES is not found, as one the trail has forgotten.
Made(n, region) == {r \in Here(n, region) : age[r] = "recent"}
Changed(n, region) == {r \in Here(n, region) : age[r] # "forgotten"}

\* How often a human has written to some of the resources.
WritesTo(assets, h) == SumFunction([r \in assets |-> writes[r][h]])

\* One region: creations replace those of the same name in an earlier region, writes add up.
SweepRegion(w) ==
    /\ sweep[w].stage = "sweeping" /\ sweep[w].region <= LastRegion
    /\ sweep' = [sweep EXCEPT
          ![w].region = @ + 1,
          ![w].created = [n \in Names |->
             IF Made(n, sweep[w].region) = {} THEN @[n]
             ELSE creator[CHOOSE r \in Made(n, sweep[w].region) : TRUE]],
          ![w].modified = [n \in Names |-> [h \in Humans |->
             @[n][h] + WritesTo(Changed(n, sweep[w].region), h)]]]
    /\ UNCHANGED <<trailVars, alive, identityVars, owner, swept, events>>

\* attribute_ownership lists the resources that are not deleted.
ListAssets(w) ==
    /\ sweep[w].stage = "sweeping" /\ sweep[w].region > LastRegion
    /\ sweep' = [sweep EXCEPT ![w].stage = "attributing", ![w].left = alive]
    /\ UNCHANGED <<trailVars, alive, identityVars, owner, swept, events>>

(***************************************************************************)
(* The attribution.                                                        *)
(***************************************************************************)

\* resolve_owner_email, and the principal when nothing resolves.
Contact(r, principal) ==
    CASE r \in OwnerTagged -> "tag"
      [] r \notin OwnerTagged /\ pattern -> "pattern"
      [] r \notin OwnerTagged /\ ~pattern /\ principal \in overrides -> "override"
      [] OTHER -> "principal"

\* Fault: the most frequent modifier is taken, however few the writes.
AnyModifier(modified) == {h \in Humans : modified[h] > 0 /\ \A g \in Humans : modified[g] <= modified[h]}

\* _most_frequent_human_modifier; which of two equals is left open.
MostFrequent(modified) ==
    {h \in Humans : modified[h] >= MinWrites /\ \A g \in Humans : modified[g] <= modified[h]}

\* Fault: whoever created it is taken for its owner.
Somebody(principal) == principal # Nobody

\* _is_human_principal
IsHuman(principal) == principal \in Humans

\* A human creator, or else a frequent human modifier, or else nobody.
Found(w, r) ==
    LET n == Name[r] IN
    IF IsHuman(sweep[w].created[n])
    THEN {[by |-> sweep[w].created[n], confidence |-> "high",
           contact |-> Contact(r, sweep[w].created[n])]}
    ELSE {[by |-> h, confidence |-> "medium", contact |-> Contact(r, h)] :
             h \in MostFrequent(sweep[w].modified[n])}

\* Fault: the last pass wins.
MayReplaceAny(r, new) == TRUE

\* The conflict clause, EXCLUDED.confidence <= resource_owner.confidence.
MayReplace(r, new) == owner[r].confidence = "high" => new.confidence = "high"

\* _write_attribution: waits for another pass that has written the row.
AttributeAsset(w, r) ==
    /\ sweep[w].stage = "attributing" /\ r \in sweep[w].left
    /\ \/ /\ Found(w, r) = {}
          /\ sweep' = [sweep EXCEPT ![w].left = @ \ {r}]
       \/ \E new \in Found(w, r) :
             /\ \A v \in Sweepers \ {w} : sweep[v].wrote[r] = NoOwner
             /\ sweep' = [sweep EXCEPT ![w].left = @ \ {r},
                             ![w].wrote[r] = IF MayReplace(r, new) THEN new ELSE @]
    /\ UNCHANGED <<trailVars, alive, identityVars, owner, swept, events>>

CommitSweep(w) ==
    /\ sweep[w].stage = "attributing" /\ sweep[w].left = {}
    /\ owner' = [r \in Assets |-> IF sweep[w].wrote[r] = NoOwner THEN owner[r]
                                                                 ELSE sweep[w].wrote[r]]
    /\ sweep' = [sweep EXCEPT ![w] = IdleSweep]
    /\ UNCHANGED <<trailVars, alive, identityVars, swept, events>>

\* A throttled sweep, a deadlock or a timeout; the message comes back.
RollbackSweep(w) ==
    /\ sweep[w].stage # "idle"
    /\ sweep' = [sweep EXCEPT ![w] = IdleSweep]
    /\ UNCHANGED <<trailVars, alive, identityVars, owner, swept, events>>

-----------------------------------------------------------------------------
OwnerInit ==
    /\ creator \in [Assets -> Humans \cup {Robot}]
    /\ writes = [r \in Assets |-> [h \in Humans |-> IF h = creator[r] THEN 1 ELSE 0]]
    /\ age = [r \in Assets |-> "recent"]
    /\ alive = Assets
    /\ pattern = FALSE /\ overrides = {}
    /\ owner = [r \in Assets |-> NoOwner]
    /\ sweep = [w \in Sweepers |-> IdleSweep]
    /\ swept = 0 /\ events = 0

OwnerNext ==
    \/ \E r \in Assets : \/ Forget(r) \/ DeleteAsset(r)
                         \/ \E h \in Humans : Modify(r, h)
    \/ \E valid \in BOOLEAN : SetPattern(valid)
    \/ \E h \in Humans : SetOverride(h)
    \/ \E w \in Sweepers : \/ BeginSweep(w) \/ SweepRegion(w) \/ ListAssets(w)
                           \/ CommitSweep(w) \/ RollbackSweep(w)
                           \/ \E r \in Assets : AttributeAsset(w, r)

OwnerSpec == OwnerInit /\ [][OwnerNext]_ownerVars

(***************************************************************************)
(* Properties.                                                             *)
(***************************************************************************)
Contacts == {"tag", "pattern", "override", "principal"}
Owners == {NoOwner} \cup [by : Humans, confidence : {"medium", "high"}, contact : Contacts]
Sweeps == [stage : {"idle", "sweeping", "attributing"}, region : 1..(LastRegion + 1),
           created : [Names -> Humans \cup {Robot, Nobody}], modified : [Names -> [Humans -> Nat]],
           left : SUBSET Assets, wrote : [Assets -> Owners]]

OwnerTypeOK ==
    /\ creator \in [Assets -> Humans \cup {Robot}]
    /\ writes \in [Assets -> [Humans -> 0..MinWrites]]
    /\ age \in [Assets -> {"recent", "modified", "forgotten"}]
    /\ alive \subseteq Assets
    /\ pattern \in BOOLEAN /\ overrides \subseteq Humans
    /\ owner \in [Assets -> Owners]
    /\ sweep \in [Sweepers -> Sweeps]
    /\ swept \in 0..MaxSweeps /\ events \in 0..MaxEvents

Namesakes(r) == {q \in Assets : Name[q] = Name[r]}

\* What a row claims happened to a resource of that name.
Evidenced(r, row) ==
    /\ row.confidence = "high" => \E q \in Namesakes(r) : row.by = creator[q]
    /\ row.confidence = "medium" => WritesTo(Namesakes(r), row.by) >= MinWrites
    /\ row.confidence # "none"

\* FR-023, FR-025, FR-026: whatever order repeated and overlapping passes finish in, and
\* whatever the trail has forgotten meanwhile, an attribution to the creator is never
\* replaced by a fallback, none ever disappears, and none rests on less than the
\* threshold of writes or on a creator that is not one.
OwnersOnlyImprove ==
    [][\A r \in Assets :
          /\ owner[r] # NoOwner => owner'[r] # NoOwner
          /\ owner[r].confidence = "high" => owner'[r].confidence = "high"
          /\ owner'[r] # owner[r] => Evidenced(r, owner'[r])]_ownerVars

\* FR-020: the owner on record as the creator is the creator of that resource.
HighMeansCreator ==
    \A r \in Assets : owner[r].confidence = "high" => owner[r].by = creator[r]

=============================================================================
