-------------------------- MODULE FindingLifecycle --------------------------
(***************************************************************************)
(* The findings of ONE tagging rule key on the resources of one account:   *)
(* the rule and its versions (backend/app/api/routers/rules.py), the       *)
(* compliance-validation worker that SQS invokes once per finalized scan   *)
(* (backend/handlers/compliance_validation_worker_handler.py), and the     *)
(* evaluation that opens, re-points and closes findings                    *)
(* (backend/app/governance/validation.py).  Rule keys do not interact, so  *)
(* one stands for all of them.                                             *)
(*                                                                         *)
(* A pass is one READ COMMITTED transaction: it reads the resource rows    *)
(* and the newest version of the rule, looks for an open finding resource  *)
(* by resource, and writes everything when it commits.  What scans write   *)
(* to the resource rows meanwhile is ScanLifecycle's subject; here it is   *)
(* any change of a row.                                                    *)
(***************************************************************************)
EXTENDS Naturals, Sequences

CONSTANTS
    Resources,     \* the resource rows of the account
    Values,        \* the values a tag may have
    Missing,       \* no tag, or a blank value
    Drafts,        \* the definitions an admin may write
    Owners,        \* [Resources -> SUBSET Resources]: what a row may be attached to
    NoOwner,
    Workers,       \* worker invocations that may run at the same time
    MaxScans,      \* bound: the finalized scans, hence the messages
    MaxVersions,   \* bound: the versions of the rule
    MaxReceives    \* the queue's maxReceiveCount

\* required, and allowed_values with format_pattern folded into it.
Definitions == [required : BOOLEAN, allowed : SUBSET Values]

ASSUME FindingAssumption ==
    /\ Missing \notin Values
    /\ Drafts \subseteq Definitions
    /\ Owners \in [Resources -> SUBSET Resources]
    /\ NoOwner \notin Resources
    /\ MaxScans \in Nat
    /\ MaxVersions \in Nat
    /\ MaxReceives \in Nat \ {0}

Messages == 1..MaxScans

Versions == [definition : Drafts, enabled : BOOLEAN]
Rows == [value : Values \cup {Missing}, owner : Resources \cup {NoOwner}, deleted : BOOLEAN]
FindingRows == [version : 1..MaxVersions, status : {"open", "resolved"}]

VARIABLES
    rules,      \* the versions of the rule, oldest first
    inventory,  \* the resource rows, as scans write them
    findings,   \* the findings of each resource, oldest first
    queue,      \* the messages not yet deleted from the queue
    received,   \* how often each message was received
    validated,  \* history: the messages some pass was committed for
    pass,       \* the transaction each worker has open
    mixed       \* history: in what two passes open at the same time ever differed

vars == <<rules, inventory, findings, queue, received, validated, pass, mixed>>

NothingFound == [finding |-> 0, version |-> 0]
BlankRow == [value |-> Missing, owner |-> NoOwner, deleted |-> FALSE]

\* A pass remembers the rows and the rule version it read, the resources it has
\* still to look up, and the finding it found for each of the others.
NoPass == [message |-> 0, version |-> 0, rows |-> [r \in Resources |-> BlankRow],
           todo |-> {}, found |-> [r \in Resources |-> NothingFound]]
Active(w) == pass[w].message # 0

(***************************************************************************)
(* The rule.                                                               *)
(***************************************************************************)

\* create_rule refuses an existing key, update_rule a missing one; of two edits
\* of the same version the unique constraint lets one through.
CreateRule(definition) ==
    /\ rules = <<>>
    /\ MaxVersions > 0
    /\ rules' = <<[definition |-> definition, enabled |-> TRUE]>>
    /\ UNCHANGED <<inventory, findings, queue, received, validated, pass, mixed>>

UpdateRule(definition, enabled) ==
    /\ rules # <<>>
    /\ Len(rules) < MaxVersions
    /\ rules' = Append(rules, [definition |-> definition, enabled |-> enabled])
    /\ UNCHANGED <<inventory, findings, queue, received, validated, pass, mixed>>

\* evaluate_rule_against_tags: a blank value is a missing one.
Violates(definition, value) ==
    IF value = Missing THEN definition.required ELSE value \notin definition.allowed

(***************************************************************************)
(* The scans, as far as validation can see them.                           *)
(***************************************************************************)
PersistResource(r, value, owner) ==
    /\ inventory' = [inventory EXCEPT ![r] = [value |-> value, owner |-> owner, deleted |-> FALSE]]
    /\ UNCHANGED <<rules, findings, queue, received, validated, pass, mixed>>

SweepResource(r) ==
    /\ ~inventory[r].deleted
    /\ inventory' = [inventory EXCEPT ![r].deleted = TRUE]
    /\ UNCHANGED <<rules, findings, queue, received, validated, pass, mixed>>

\* finalize_scan sends the message before it commits, so the rows may still change.
SendMessage(m) ==
    /\ m \notin queue /\ m \notin validated /\ received[m] = 0
    /\ queue' = queue \cup {m}
    /\ UNCHANGED <<rules, inventory, findings, received, validated, pass, mixed>>

(***************************************************************************)
(* One pass of the worker.                                                 *)
(***************************************************************************)

\* Fault: a row stays a child when its owner is gone.
IsChildOfAnyRow(rows, r) == rows[r].owner # NoOwner

\* resolve_parent_child_relationships: attached to a row that is not deleted.
IsChild(rows, r) == rows[r].owner # NoOwner /\ ~rows[rows[r].owner].deleted

\* validate_account: the rows to evaluate, none when the newest version is disabled.
Evaluated(rows, version) ==
    IF version = 0 \/ ~rules[version].enabled THEN {}
    ELSE {r \in Resources : ~rows[r].deleted /\ ~IsChild(rows, r)}

\* Fault: the redrive policy counts one receive too many.
MayReceiveOnceMore(m) == m \in queue /\ received[m] <= MaxReceives

\* A standard queue may deliver a message that another worker still holds.
MayReceive(m) == m \in queue /\ received[m] < MaxReceives

\* What a pass that begins now reads differently from one that is open.
Differences ==
    {"rules" : v \in {v \in Workers : Active(v) /\ pass[v].version # Len(rules)}}
       \cup {"rows" : v \in {v \in Workers : Active(v) /\ pass[v].rows # inventory}}

Receive(w, m) ==
    /\ ~Active(w)
    /\ MayReceive(m)
    /\ received' = [received EXCEPT ![m] = @ + 1]
    /\ pass' = [pass EXCEPT ![w] =
                  [message |-> m, version |-> Len(rules), rows |-> inventory,
                   todo |-> Evaluated(inventory, Len(rules)),
                   found |-> [r \in Resources |-> NothingFound]]]
    /\ mixed' = mixed \cup Differences
    /\ UNCHANGED <<rules, inventory, findings, queue, validated>>

OpenFindings(r) == {i \in DOMAIN findings[r] : findings[r][i].status = "open"}

\* Fault: the lookup goes by the rule row instead of the rule's key.
FindByVersion(w, r) == {i \in OpenFindings(r) : findings[r][i].version = pass[w].version}

\* _find_open_finding_by_rule_key: whatever version opened it.
FindByKey(w, r) == OpenFindings(r)

LookedUp(p, r, found) == [p EXCEPT !.todo = @ \ {r}, !.found = [@ EXCEPT ![r] = found]]

\* The first one the query returns, in no particular order.
LookUp(w, r) ==
    /\ Active(w)
    /\ r \in pass[w].todo
    /\ \E found \in IF FindByKey(w, r) = {} THEN {NothingFound}
                    ELSE {[finding |-> i, version |-> findings[r][i].version] :
                             i \in FindByKey(w, r)} :
          pass' = [pass EXCEPT ![w] = LookedUp(@, r, found)]
    /\ UNCHANGED <<rules, inventory, findings, queue, received, validated, mixed>>

InViolation(w, r) == Violates(rules[pass[w].version].definition, pass[w].rows[r].value)

\* Fault: a closed finding keeps the version that opened it.
TouchedKeepingVersion(w, r, row) ==
    IF InViolation(w, r) THEN [row EXCEPT !.version = pass[w].version]
    ELSE [row EXCEPT !.status = "resolved"]

\* Fault: a finding whose violation is gone stays open.
TouchedStillOpen(w, r, row) == [row EXCEPT !.version = pass[w].version]

\* What a pass makes of the finding it found: re-pointed to the version the pass
\* evaluated, and closed when there is no violation.  The ORM leaves the version
\* alone when it read that very version.
Touched(w, r, row) ==
    [version |-> IF pass[w].found[r].version = pass[w].version THEN row.version
                                                               ELSE pass[w].version,
     status |-> IF InViolation(w, r) THEN row.status ELSE "resolved"]

\* evaluate_resource for one resource.
Written(w, r) ==
    IF r \notin Evaluated(pass[w].rows, pass[w].version) THEN findings[r]
    ELSE IF pass[w].found[r] # NothingFound
         THEN [findings[r] EXCEPT ![pass[w].found[r].finding] = Touched(w, r, @)]
    ELSE IF InViolation(w, r)
         THEN Append(findings[r], [version |-> pass[w].version, status |-> "open"])
    ELSE findings[r]

\* uq_finding_open_per_resource_rule: a rule row is a version.
UniqueOpen(rows) ==
    \A i, j \in DOMAIN rows :
        rows[i].status = "open" /\ rows[j].status = "open" /\ rows[i].version = rows[j].version
           => i = j

\* The pass commits and its message is deleted, unless the delete is lost.
CommitPass(w, deleted) ==
    /\ Active(w)
    /\ pass[w].todo = {}
    /\ \A r \in Resources : UniqueOpen(Written(w, r))
    /\ findings' = [r \in Resources |-> Written(w, r)]
    /\ validated' = validated \cup {pass[w].message}
    /\ queue' = IF deleted THEN queue \ {pass[w].message} ELSE queue
    /\ pass' = [pass EXCEPT ![w] = NoPass]
    /\ UNCHANGED <<rules, inventory, received, mixed>>

\* Fault: the handler swallows the error, so the message is deleted.
RollbackAndDelete(w) ==
    /\ Active(w)
    /\ pass' = [pass EXCEPT ![w] = NoPass]
    /\ queue' = queue \ {pass[w].message}
    /\ UNCHANGED <<rules, inventory, findings, received, validated, mixed>>

\* An error, the unique index or a timeout: the message becomes visible again.
RollbackPass(w) ==
    /\ Active(w)
    /\ pass' = [pass EXCEPT ![w] = NoPass]
    /\ UNCHANGED <<rules, inventory, findings, queue, received, validated, mixed>>

DeadLetter(m) ==
    /\ m \in queue
    /\ received[m] >= MaxReceives
    /\ \A w \in Workers : pass[w].message # m
    /\ queue' = queue \ {m}
    /\ UNCHANGED <<rules, inventory, findings, received, validated, pass, mixed>>

(***************************************************************************)
(* The specification.                                                      *)
(***************************************************************************)
Init ==
    /\ rules = <<>>
    /\ inventory = [r \in Resources |-> BlankRow]
    /\ findings = [r \in Resources |-> <<>>]
    /\ queue = {}
    /\ received = [m \in Messages |-> 0]
    /\ validated = {}
    /\ pass = [w \in Workers |-> NoPass]
    /\ mixed = {}

RuleStep ==
    \E definition \in Drafts :
        \/ CreateRule(definition)
        \/ \E enabled \in BOOLEAN : UpdateRule(definition, enabled)

ScanStep ==
    \/ \E r \in Resources : \E value \in Values \cup {Missing}, owner \in Owners[r] \cup {NoOwner} :
          PersistResource(r, value, owner)
    \/ \E r \in Resources : SweepResource(r)
    \/ \E m \in Messages : SendMessage(m)

PassStep(w) ==
    \/ \E m \in Messages : Receive(w, m)
    \/ \E r \in Resources : LookUp(w, r)
    \/ \E deleted \in BOOLEAN : CommitPass(w, deleted)
    \/ RollbackPass(w)

Next ==
    \/ RuleStep
    \/ ScanStep
    \/ \E w \in Workers : PassStep(w)
    \/ \E m \in Messages : DeadLetter(m)

\* SQS keeps invoking the worker, and a Lambda ends.
Fairness ==
    /\ \A w \in Workers : WF_vars(PassStep(w))
    /\ \A m \in Messages : WF_vars(DeadLetter(m))

Spec == Init /\ [][Next]_vars
FairSpec == Spec /\ Fairness

(***************************************************************************)
(* Properties.                                                             *)
(***************************************************************************)
Passes == [message : 0..MaxScans, version : 0..MaxVersions, rows : [Resources -> Rows],
           todo : SUBSET Resources,
           found : [Resources -> [finding : Nat, version : 0..MaxVersions]]]

\* Every variable keeps its type, and no message is received more often than the
\* redrive policy of its queue allows (infra/modules/governance/main.tf).
TypeOK ==
    /\ rules \in Seq(Versions) /\ Len(rules) <= MaxVersions
    /\ inventory \in [Resources -> Rows]
    /\ findings \in [Resources -> Seq(FindingRows)]
    /\ queue \subseteq Messages
    /\ received \in [Messages -> 0..MaxReceives]
    /\ validated \subseteq Messages
    /\ pass \in [Workers -> Passes]
    /\ mixed \subseteq {"rules", "rows"}

OneOpen(r) == \A i, j \in OpenFindings(r) : i = j

\* evaluate_resource (FR-015): a resource never has two open findings of one rule,
\* over all its versions -- with passes interleaved, repeated and rolled back, as
\* long as no two that overlapped had read different versions.
OneOpenUnlessRulesMixed == "rules" \notin mixed => \A r \in Resources : OneOpen(r)

Commits(w) == \E deleted \in BOOLEAN : CommitPass(w, deleted)

TopLevel(r) ==
    /\ ~inventory[r].deleted
    /\ inventory[r].owner = NoOwner \/ inventory[inventory[r].owner].deleted

\* FR-013, FR-014 and FR-016: when a pass commits and the inventory and the rule
\* are still what it read, exactly the top-level resources in violation have an
\* open finding -- although duplicates of the message are processed beside it.
PassMatchesInventory ==
    [][\A w \in Workers :
          /\ Commits(w) /\ mixed = {} /\ pass[w].rows = inventory
          /\ pass[w].version = Len(rules) /\ rules # <<>> /\ rules[Len(rules)].enabled
          => \A r \in Resources : TopLevel(r) =>
                (OpenFindings(r)' # {} <=>
                    Violates(rules[Len(rules)].definition, inventory[r].value))]_vars

\* FR-006: what a pass opens, keeps open or closes names the version it evaluated,
\* whichever version opened it.
FindingNamesItsVersion ==
    [][\A w \in Workers :
          Commits(w) /\ "rules" \notin mixed =>
             \A r \in Evaluated(pass[w].rows, pass[w].version) : \A i \in DOMAIN findings'[r] :
                \/ findings'[r][i].version = pass[w].version
                \/ i \in DOMAIN findings[r] /\ findings[r][i].status = "resolved"]_vars

\* finalize_scan hands every scan over: its message is validated unless each of
\* the receives the queue allows has failed.
ScanIsValidated ==
    \A m \in Messages : m \in queue ~> m \in validated \/ received[m] = MaxReceives

\* FR-015 of spec 003 and core.py:372-373: one open finding per resource and rule;
\* re-running a scan must not create a duplicate.
OneOpenFinding == \A r \in Resources : OneOpen(r)

\* FR-030 of spec 002: when a resource is marked deleted its open findings close,
\* at the latest in the pass that validates the scan.
DeletedResourceHasNoOpenFinding ==
    [][\A w \in Workers :
          Commits(w) /\ mixed = {} /\ pass[w].rows = inventory =>
             \A r \in Resources : inventory[r].deleted => OpenFindings(r)' = {}]_vars
=============================================================================
