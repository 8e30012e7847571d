----------------------- MODULE FindingLifecycleProofs -----------------------
(***************************************************************************)
(* Machine-checked theorems about FindingLifecycle, for any number of      *)
(* resources, workers, messages and versions.                              *)
(*                                                                         *)
(* The argument for OneOpenUnlessRulesMixed: the open passes hold the same *)
(* version of the rule (SameVersion), so whatever another pass opens or    *)
(* re-points carries the version of this one (OpenedBeside); an insert     *)
(* beside an open finding would therefore repeat the version, and the      *)
(* partial unique index rolls it back.  What a pass leaves behind follows  *)
(* from FoundInv, further down.                                            *)
(***************************************************************************)
EXTENDS FindingLifecycle, SequenceTheorems, TLAPS

LEMMA BlankRowType == BlankRow \in Rows
BY DEF BlankRow, Rows

LEMMA NoPassType == NoPass \in Passes
<1>1. [r \in Resources |-> BlankRow] \in [Resources -> Rows]
  BY BlankRowType
<1>2. NothingFound \in [finding : Nat, version : 0..MaxVersions]
  BY FindingAssumption DEF NothingFound
<1>. QED
  BY <1>1, <1>2, FindingAssumption DEF NoPass, Passes

\* A finding that a pass re-points or closes stays a finding.
LEMMA TouchedType ==
    ASSUME TypeOK, NEW w \in Workers, NEW r \in Evaluated(pass[w].rows, pass[w].version),
           NEW row \in FindingRows
    PROVE  Touched(w, r, row) \in FindingRows
<1>1. pass[w].version \in 1..MaxVersions
  BY FindingAssumption DEF TypeOK, Passes, Evaluated
<1>. QED
  BY <1>1 DEF Touched, FindingRows

LEMMA WrittenType ==
    ASSUME TypeOK, NEW w \in Workers, NEW r \in Resources
    PROVE  Written(w, r) \in Seq(FindingRows)
<1>1. findings[r] \in Seq(FindingRows)
  BY DEF TypeOK
<1>2. CASE r \notin Evaluated(pass[w].rows, pass[w].version)
  BY <1>1, <1>2 DEF Written
<1>3. CASE r \in Evaluated(pass[w].rows, pass[w].version) /\ pass[w].found[r] # NothingFound
  <2>. DEFINE i == pass[w].found[r].finding
  <2>1. Written(w, r) = [findings[r] EXCEPT ![i] = Touched(w, r, findings[r][i])]
    BY <1>3 DEF Written
  <2>2. i \in DOMAIN findings[r] => Touched(w, r, findings[r][i]) \in FindingRows
    BY <1>1, <1>3, TouchedType
  <2>3. CASE i \in 1..Len(findings[r])
    BY <1>1, <2>1, <2>2, <2>3, ExceptSeq
  <2>4. CASE i \notin 1..Len(findings[r])
    <3>1. Written(w, r) = findings[r]
      BY <1>1, <2>1, <2>4
    <3>. QED
      BY <1>1, <3>1
  <2>. QED
    BY <2>3, <2>4
<1>4. CASE r \in Evaluated(pass[w].rows, pass[w].version) /\ pass[w].found[r] = NothingFound
  <2>1. pass[w].version \in 1..MaxVersions
    BY <1>4, FindingAssumption DEF TypeOK, Passes, Evaluated
  <2>2. [version |-> pass[w].version, status |-> "open"] \in FindingRows
    BY <2>1 DEF FindingRows
  <2>. QED
    BY <1>1, <1>4, <2>2 DEF Written
<1>. QED
  BY <1>2, <1>3, <1>4

Founds == [Resources -> [finding : Nat, version : 0..MaxVersions]]

LEMMA LookedUpType ==
    ASSUME NEW p \in Passes, NEW r \in Resources,
           NEW found \in [finding : Nat, version : 0..MaxVersions]
    PROVE  LookedUp(p, r, found) \in Passes
<1>1. p.todo \ {r} \in SUBSET Resources
  BY DEF Passes
<1>2. [p.found EXCEPT ![r] = found] \in Founds
  BY DEF Passes, Founds
<1>. QED
  BY <1>1, <1>2 DEF LookedUp, Passes, Founds

LEMMA TypeInit == Init => TypeOK
<1>. SUFFICES ASSUME Init PROVE TypeOK
  OBVIOUS
<1>1. inventory \in [Resources -> Rows]
  BY BlankRowType DEF Init
<1>2. pass \in [Workers -> Passes]
  BY NoPassType DEF Init
<1>3. received \in [Messages -> 0..MaxReceives]
  BY FindingAssumption DEF Init
<1>4. findings \in [Resources -> Seq(FindingRows)]
  BY DEF Init
<1>5. rules \in Seq(Versions) /\ Len(rules) <= MaxVersions
  BY FindingAssumption DEF Init
<1>. QED
  BY <1>1, <1>2, <1>3, <1>4, <1>5 DEF Init, TypeOK

LEMMA TypeStep == TypeOK /\ [Next]_vars => TypeOK'
<1>. SUFFICES ASSUME TypeOK, [Next]_vars PROVE TypeOK'
  OBVIOUS
<1>. USE DEF TypeOK
<1>1. ASSUME NEW definition \in Drafts, CreateRule(definition) PROVE TypeOK'
  <2>1. [definition |-> definition, enabled |-> TRUE] \in Versions
    BY DEF Versions
  <2>. QED
    BY <1>1, <2>1, FindingAssumption DEF CreateRule
<1>2. ASSUME NEW definition \in Drafts, NEW enabled \in BOOLEAN, UpdateRule(definition, enabled)
      PROVE  TypeOK'
  <2>1. [definition |-> definition, enabled |-> enabled] \in Versions
    BY DEF Versions
  <2>. QED
    BY <1>2, <2>1, FindingAssumption DEF UpdateRule
<1>3. ASSUME NEW r \in Resources, NEW value \in Values \cup {Missing},
             NEW owner \in Owners[r] \cup {NoOwner}, PersistResource(r, value, owner)
      PROVE  TypeOK'
  <2>1. [value |-> value, owner |-> owner, deleted |-> FALSE] \in Rows
    BY FindingAssumption DEF Rows
  <2>. QED
    BY <1>3, <2>1 DEF PersistResource
<1>4. ASSUME NEW r \in Resources, SweepResource(r) PROVE TypeOK'
  <2>1. [inventory[r] EXCEPT !.deleted = TRUE] \in Rows
    BY DEF Rows
  <2>. QED
    BY <1>4, <2>1 DEF SweepResource
<1>5. ASSUME NEW m \in Messages, SendMessage(m) PROVE TypeOK'
  BY <1>5 DEF SendMessage
<1>6. ASSUME NEW w \in Workers, NEW m \in Messages, Receive(w, m) PROVE TypeOK'
  <2>1. received' \in [Messages -> 0..MaxReceives]
    BY <1>6, FindingAssumption DEF Receive, MayReceive
  <2>2. NothingFound \in [finding : Nat, version : 0..MaxVersions]
    BY FindingAssumption DEF NothingFound
  <2>3. Evaluated(inventory, Len(rules)) \subseteq Resources
    BY DEF Evaluated
  <2>4. [message |-> m, version |-> Len(rules), rows |-> inventory,
         todo |-> Evaluated(inventory, Len(rules)),
         found |-> [r \in Resources |-> NothingFound]] \in Passes
    BY <2>2, <2>3, FindingAssumption DEF Passes, Messages
  <2>5. mixed' \subseteq {"rules", "rows"}
    BY <1>6 DEF Receive, Differences
  <2>. QED
    BY <1>6, <2>1, <2>4, <2>5 DEF Receive
<1>7. ASSUME NEW w \in Workers, NEW r \in Resources, LookUp(w, r) PROVE TypeOK'
  <2>1. PICK found \in IF FindByKey(w, r) = {} THEN {NothingFound}
                       ELSE {[finding |-> i, version |-> findings[r][i].version] :
                                i \in FindByKey(w, r)} :
           pass' = [pass EXCEPT ![w] = LookedUp(@, r, found)]
    BY <1>7 DEF LookUp
  <2>2. ASSUME NEW i \in FindByKey(w, r)
        PROVE  [finding |-> i, version |-> findings[r][i].version]
                  \in [finding : Nat, version : 0..MaxVersions]
    <3>1. findings[r] \in Seq(FindingRows) /\ i \in DOMAIN findings[r]
      BY <2>2 DEF FindByKey, OpenFindings
    <3>2. findings[r][i] \in FindingRows /\ i \in Nat
      BY <3>1
    <3>. QED
      BY <3>2, FindingAssumption DEF FindingRows
  <2>3. NothingFound \in [finding : Nat, version : 0..MaxVersions]
    BY FindingAssumption DEF NothingFound
  <2>4. found \in [finding : Nat, version : 0..MaxVersions]
    BY <2>1, <2>2, <2>3
  <2>5. LookedUp(pass[w], r, found) \in Passes
    BY <2>4, LookedUpType
  <2>6. pass' \in [Workers -> Passes]
    BY <2>1, <2>5
  <2>. QED
    BY <1>7, <2>6 DEF LookUp
<1>8. ASSUME NEW w \in Workers, NEW deleted \in BOOLEAN, CommitPass(w, deleted) PROVE TypeOK'
  <2>1. findings' \in [Resources -> Seq(FindingRows)]
    BY <1>8, WrittenType DEF CommitPass
  <2>2. pass[w].message \in Messages
    BY <1>8, FindingAssumption DEF CommitPass, Active, Passes, Messages
  <2>. QED
    BY <1>8, <2>1, <2>2, NoPassType DEF CommitPass
<1>9. ASSUME NEW w \in Workers, RollbackPass(w) PROVE TypeOK'
  BY <1>9, NoPassType DEF RollbackPass
<1>10. ASSUME NEW m \in Messages, DeadLetter(m) PROVE TypeOK'
  BY <1>10 DEF DeadLetter
<1>11. CASE UNCHANGED vars
  BY <1>11 DEF vars
<1>. QED
  BY <1>1, <1>2, <1>3, <1>4, <1>5, <1>6, <1>7, <1>8, <1>9, <1>10, <1>11
  DEF Next, RuleStep, ScanStep, PassStep

\* Every variable keeps its type, and no message is received more often than the
\* redrive policy allows.
THEOREM TypeCorrect == Spec => []TypeOK
BY TypeInit, TypeStep, PTL DEF Spec

(***************************************************************************)
(* One open finding.                                                       *)
(***************************************************************************)

\* An open pass holds a version that exists.
VersionExists == \A w \in Workers : Active(w) => pass[w].version <= Len(rules)

\* Passes that are open at the same time hold the same version.
SameVersion ==
    \A v, w \in Workers : Active(v) /\ Active(w) => pass[v].version = pass[w].version

\* What is open on a resource where a pass found nothing was opened since, by a
\* pass of the same version.
OpenedBeside ==
    \A w \in Workers, r \in Resources :
        /\ Active(w)
        /\ r \in Evaluated(pass[w].rows, pass[w].version) \ pass[w].todo
        /\ pass[w].found[r] = NothingFound
        => \A i \in OpenFindings(r) : findings[r][i].version = pass[w].version

OpenInv ==
    /\ TypeOK
    /\ VersionExists
    /\ "rules" \notin mixed => SameVersion /\ OpenedBeside /\ \A r \in Resources : OneOpen(r)

\* What a commit leaves open on a resource was open before, or is the finding it
\* inserts where it had found nothing.
LEMMA WrittenOpen ==
    ASSUME TypeOK, NEW w \in Workers, NEW r \in Resources, NEW i \in DOMAIN Written(w, r),
           Written(w, r)[i].status = "open"
    PROVE  \/ /\ i \in OpenFindings(r)
              /\ Written(w, r)[i].version \in {findings[r][i].version, pass[w].version}
           \/ /\ r \in Evaluated(pass[w].rows, pass[w].version)
              /\ pass[w].found[r] = NothingFound
              /\ Written(w, r)[i].version = pass[w].version
              /\ InViolation(w, r)
<1>1. findings[r] \in Seq(FindingRows)
  BY DEF TypeOK
<1>2. CASE r \notin Evaluated(pass[w].rows, pass[w].version)
  BY <1>2 DEF Written, OpenFindings
<1>3. CASE r \in Evaluated(pass[w].rows, pass[w].version) /\ pass[w].found[r] # NothingFound
  <2>. DEFINE k == pass[w].found[r].finding
  <2>1. Written(w, r) = [findings[r] EXCEPT ![k] = Touched(w, r, findings[r][k])]
    BY <1>3 DEF Written
  <2>2. i \in DOMAIN findings[r]
    BY <1>1, <2>1
  <2>3. CASE i = k
    <3>1. Written(w, r)[i] = Touched(w, r, findings[r][i])
      BY <2>1, <2>2, <2>3
    <3>. QED
      BY <2>2, <3>1 DEF Touched, OpenFindings
  <2>4. CASE i # k
    <3>1. Written(w, r)[i] = findings[r][i]
      BY <2>1, <2>2, <2>4
    <3>. QED
      BY <2>2, <3>1 DEF OpenFindings
  <2>. QED
    BY <2>3, <2>4
<1>4. CASE /\ r \in Evaluated(pass[w].rows, pass[w].version)
           /\ pass[w].found[r] = NothingFound
  <2>1. CASE InViolation(w, r)
    <3>1. Written(w, r) = Append(findings[r], [version |-> pass[w].version, status |-> "open"])
      BY <1>4, <2>1 DEF Written
    <3>2. CASE i = Len(findings[r]) + 1
      BY <1>1, <1>4, <2>1, <3>1, <3>2
    <3>3. CASE i # Len(findings[r]) + 1
      BY <1>1, <3>1, <3>3 DEF OpenFindings
    <3>. QED
      BY <3>2, <3>3
  <2>2. CASE ~InViolation(w, r)
    BY <1>4, <2>2 DEF Written, OpenFindings
  <2>. QED
    BY <2>1, <2>2
<1>. QED
  BY <1>2, <1>3, <1>4

\* Only a commit writes findings, and only the admin writes rules.
LEMMA OpenFrame ==
    ASSUME OpenInv, UNCHANGED <<rules, findings, mixed>>,
           \A w \in Workers : pass'[w] \in {pass[w], NoPass}, TypeOK'
    PROVE  OpenInv'
<1>. USE DEF OpenInv
<1>1. \A w \in Workers : Active(w)' => Active(w) /\ pass'[w] = pass[w]
  BY DEF Active, NoPass
<1>2. VersionExists'
  BY <1>1 DEF VersionExists
<1>3. \A w \in Workers : Active(w)' =>
         Evaluated(pass[w].rows, pass[w].version)' = Evaluated(pass[w].rows, pass[w].version)
  BY <1>1 DEF Evaluated, IsChild
<1>4. \A r \in Resources : OpenFindings(r)' = OpenFindings(r)
  BY DEF OpenFindings
<1>. SUFFICES ASSUME "rules" \notin mixed
              PROVE  (SameVersion /\ OpenedBeside /\ \A r \in Resources : OneOpen(r))'
  BY <1>2
<1>5. SameVersion'
  BY <1>1 DEF SameVersion
<1>6. OpenedBeside'
  BY <1>1, <1>3, <1>4 DEF OpenedBeside
<1>7. (\A r \in Resources : OneOpen(r))'
  BY <1>4 DEF OneOpen
<1>. QED
  BY <1>5, <1>6, <1>7

LEMMA OpenRuleStep ==
    ASSUME OpenInv, NEW new \in Versions, rules' \in {rules, Append(rules, new)},
           UNCHANGED <<findings, mixed, pass>>, TypeOK'
    PROVE  OpenInv'
<1>. USE DEF OpenInv
<1>1. rules \in Seq(Versions) /\ Len(rules') >= Len(rules) /\ Len(rules) \in Nat
  BY AppendProperties DEF TypeOK
<1>2. \A w \in Workers : Active(w)' <=> Active(w)
  BY DEF Active
<1>3. \A w \in Workers : pass[w].version \in Nat
  BY FindingAssumption DEF TypeOK, Passes
<1>4. VersionExists'
  BY <1>1, <1>2, <1>3 DEF VersionExists, TypeOK
<1>5. ASSUME NEW w \in Workers, Active(w)
      PROVE  Evaluated(pass[w].rows, pass[w].version)' = Evaluated(pass[w].rows, pass[w].version)
  <2>1. pass[w].version <= Len(rules)
    BY <1>5 DEF VersionExists
  <2>2. pass[w].version # 0 => rules'[pass[w].version] = rules[pass[w].version]
    BY <1>1, <1>3, <2>1, AppendProperties
  <2>. QED
    BY <2>2 DEF Evaluated, IsChild
<1>6. \A r \in Resources : OpenFindings(r)' = OpenFindings(r)
  BY DEF OpenFindings
<1>. SUFFICES ASSUME "rules" \notin mixed
              PROVE  (SameVersion /\ OpenedBeside /\ \A r \in Resources : OneOpen(r))'
  BY <1>4
<1>7. SameVersion'
  BY <1>2 DEF SameVersion
<1>8. OpenedBeside'
  BY <1>2, <1>5, <1>6 DEF OpenedBeside
<1>9. (\A r \in Resources : OneOpen(r))'
  BY <1>6 DEF OneOpen
<1>. QED
  BY <1>7, <1>8, <1>9

LEMMA OpenReceive ==
    ASSUME OpenInv, NEW w \in Workers, NEW m \in Messages, Receive(w, m), TypeOK'
    PROVE  OpenInv'
<1>. USE DEF OpenInv
<1>1. /\ pass'[w].version = Len(rules) /\ pass'[w].todo = Evaluated(inventory, Len(rules))
      /\ pass'[w].rows = inventory
      /\ \A v \in Workers \ {w} : pass'[v] = pass[v]
  BY DEF Receive, TypeOK
<1>2. ~Active(w) /\ UNCHANGED <<rules, findings>> /\ mixed' = mixed \cup Differences
  BY DEF Receive
<1>3. \A v \in Workers \ {w} : Active(v)' <=> Active(v)
  BY <1>1 DEF Active
<1>4. VersionExists'
  <2>1. Len(rules) \in Nat
    BY DEF TypeOK
  <2>2. ASSUME NEW v \in Workers, Active(v)' PROVE pass'[v].version <= Len(rules)
    <3>1. CASE v = w
      BY <1>1, <2>1, <3>1
    <3>2. CASE v # w
      BY <1>1, <1>3, <2>2, <3>2 DEF VersionExists
    <3>. QED
      BY <3>1, <3>2
  <2>. QED
    BY <1>2, <2>2 DEF VersionExists
<1>. SUFFICES ASSUME "rules" \notin mixed'
              PROVE  (SameVersion /\ OpenedBeside /\ \A r \in Resources : OneOpen(r))'
  BY <1>4
<1>5. "rules" \notin mixed /\ \A v \in Workers : Active(v) => pass[v].version = Len(rules)
  BY <1>2 DEF Differences
<1>6. SameVersion'
  BY <1>1, <1>3, <1>5 DEF SameVersion
<1>7. \A r \in Resources : OpenFindings(r)' = OpenFindings(r)
  BY <1>2 DEF OpenFindings
<1>8. \A v \in Workers :
         Evaluated(pass[v].rows, pass[v].version)' = Evaluated(pass'[v].rows, pass'[v].version)
  BY <1>2 DEF Evaluated, IsChild
<1>9. OpenedBeside'
  BY <1>1, <1>2, <1>3, <1>5, <1>7, <1>8 DEF OpenedBeside
<1>10. (\A r \in Resources : OneOpen(r))'
  BY <1>5, <1>7 DEF OneOpen
<1>. QED
  BY <1>6, <1>9, <1>10

LEMMA OpenLookUp ==
    ASSUME OpenInv, NEW w \in Workers, NEW r \in Resources, LookUp(w, r), TypeOK'
    PROVE  OpenInv'
<1>. USE DEF OpenInv
<1>1. PICK found \in IF FindByKey(w, r) = {} THEN {NothingFound}
                     ELSE {[finding |-> i, version |-> findings[r][i].version] :
                              i \in FindByKey(w, r)} :
         pass' = [pass EXCEPT ![w] = LookedUp(@, r, found)]
  BY DEF LookUp
<1>2. UNCHANGED <<rules, findings, mixed>>
  BY DEF LookUp
<1>3. /\ pass'[w].message = pass[w].message /\ pass'[w].version = pass[w].version
      /\ pass'[w].rows = pass[w].rows /\ pass'[w].todo = pass[w].todo \ {r}
      /\ pass'[w].found = [pass[w].found EXCEPT ![r] = found]
  BY <1>1 DEF LookedUp, TypeOK, Passes
<1>4. \A v \in Workers \ {w} : pass'[v] = pass[v]
  BY <1>1 DEF TypeOK
<1>5. \A v \in Workers : /\ Active(v)' <=> Active(v)
                         /\ pass'[v].version = pass[v].version /\ pass'[v].rows = pass[v].rows
  BY <1>3, <1>4 DEF Active
<1>6. VersionExists'
  BY <1>2, <1>5 DEF VersionExists
<1>. SUFFICES ASSUME "rules" \notin mixed
              PROVE  (SameVersion /\ OpenedBeside /\ \A q \in Resources : OneOpen(q))'
  BY <1>2, <1>6
<1>7. SameVersion'
  BY <1>5 DEF SameVersion
<1>8. \A q \in Resources : OpenFindings(q)' = OpenFindings(q)
  BY <1>2 DEF OpenFindings
<1>9. \A v \in Workers :
         Evaluated(pass[v].rows, pass[v].version)' = Evaluated(pass[v].rows, pass[v].version)
  BY <1>2, <1>5 DEF Evaluated, IsChild
<1>10. ASSUME NEW v \in Workers, NEW q \in Resources, Active(v),
              q \in Evaluated(pass[v].rows, pass[v].version) \ pass'[v].todo,
              pass'[v].found[q] = NothingFound
       PROVE  \A i \in OpenFindings(q) : findings[q][i].version = pass[v].version
  <2>1. CASE v = w /\ q = r
    <3>1. found = NothingFound
      BY <1>3, <1>10, <2>1 DEF TypeOK, Passes
    <3>2. ASSUME NEW i \in FindByKey(w, r) PROVE FALSE
      <4>1. findings[r] \in Seq(FindingRows) /\ i \in DOMAIN findings[r]
        BY <3>2 DEF FindByKey, OpenFindings, TypeOK
      <4>2. \A k \in FindByKey(w, r) : k # 0
        BY <4>1 DEF FindByKey, OpenFindings
      <4>3. PICK k \in FindByKey(w, r) : found = [finding |-> k, version |-> findings[r][k].version]
        BY <1>1, <3>2
      <4>. QED
        BY <3>1, <4>2, <4>3 DEF NothingFound
    <3>. QED
      BY <2>1, <3>2 DEF FindByKey
  <2>2. CASE v # w \/ q # r
    <3>0. pass[w].found \in [Resources -> [finding : Nat, version : 0..MaxVersions]]
      BY DEF TypeOK, Passes
    <3>1. pass'[v].found[q] = pass[v].found[q]
      BY <1>3, <1>4, <2>2, <3>0
    <3>2. q \notin pass[v].todo
      BY <1>3, <1>4, <1>10, <2>2
    <3>. QED
      BY <1>10, <3>1, <3>2 DEF OpenedBeside
  <2>. QED
    BY <2>1, <2>2
<1>11. OpenedBeside'
  BY <1>2, <1>5, <1>8, <1>9, <1>10 DEF OpenedBeside
<1>12. (\A q \in Resources : OneOpen(q))'
  BY <1>8 DEF OneOpen
<1>. QED
  BY <1>7, <1>11, <1>12

LEMMA OpenCommit ==
    ASSUME OpenInv, NEW w \in Workers, NEW deleted \in BOOLEAN, CommitPass(w, deleted), TypeOK'
    PROVE  OpenInv'
<1>. USE DEF OpenInv
<1>1. /\ Active(w) /\ pass[w].todo = {} /\ UNCHANGED <<rules, mixed>>
      /\ \A r \in Resources : findings'[r] = Written(w, r) /\ UniqueOpen(Written(w, r))
  BY DEF CommitPass
<1>2. pass'[w] = NoPass /\ \A v \in Workers \ {w} : pass'[v] = pass[v]
  BY DEF CommitPass, TypeOK
<1>3. \A v \in Workers : Active(v)' => Active(v) /\ pass'[v] = pass[v]
  BY <1>2 DEF Active, NoPass
<1>4. VersionExists'
  BY <1>1, <1>3 DEF VersionExists
<1>. SUFFICES ASSUME "rules" \notin mixed
              PROVE  (SameVersion /\ OpenedBeside /\ \A r \in Resources : OneOpen(r))'
  BY <1>1, <1>4
<1>5. SameVersion'
  BY <1>3 DEF SameVersion
<1>6. ASSUME NEW r \in Resources, NEW i \in OpenFindings(r)'
      PROVE  \/ /\ i \in OpenFindings(r)
                /\ findings'[r][i].version \in {findings[r][i].version, pass[w].version}
             \/ /\ r \in Evaluated(pass[w].rows, pass[w].version)
                /\ pass[w].found[r] = NothingFound
                /\ findings'[r][i].version = pass[w].version
  <2>1. i \in DOMAIN Written(w, r) /\ Written(w, r)[i].status = "open"
    BY <1>1, <1>6 DEF OpenFindings
  <2>. QED
    BY <1>1, <2>1, WrittenOpen
<1>7. \A v \in Workers : Active(v)' =>
         Evaluated(pass[v].rows, pass[v].version)' = Evaluated(pass[v].rows, pass[v].version)
  BY <1>1, <1>3 DEF Evaluated, IsChild
<1>8. OpenedBeside'
  <2>. SUFFICES ASSUME NEW v \in Workers, NEW r \in Resources, Active(v)',
                       r \in Evaluated(pass[v].rows, pass[v].version) \ pass[v].todo,
                       pass[v].found[r] = NothingFound, NEW i \in OpenFindings(r)'
                PROVE  findings'[r][i].version = pass[v].version
    BY <1>3, <1>7 DEF OpenedBeside
  <2>1. pass[v].version = pass[w].version
    BY <1>1, <1>3 DEF SameVersion
  <2>2. i \in OpenFindings(r) => findings[r][i].version = pass[v].version
    BY <1>3 DEF OpenedBeside
  <2>. QED
    BY <1>6, <2>1, <2>2
<1>9. ASSUME NEW r \in Resources, NEW i \in OpenFindings(r)', NEW j \in OpenFindings(r)'
      PROVE  i = j
  <2>1. CASE /\ r \in Evaluated(pass[w].rows, pass[w].version)
             /\ pass[w].found[r] = NothingFound
    <3>1. \A k \in OpenFindings(r) : findings[r][k].version = pass[w].version
      BY <1>1, <2>1 DEF OpenedBeside
    <3>2. findings'[r][i].version = findings'[r][j].version
      BY <1>6, <1>9, <3>1
    <3>3. /\ i \in DOMAIN Written(w, r) /\ j \in DOMAIN Written(w, r)
          /\ Written(w, r)[i].status = "open" /\ Written(w, r)[j].status = "open"
      BY <1>1, <1>9 DEF OpenFindings
    <3>. QED
      BY <1>1, <3>2, <3>3 DEF UniqueOpen
  <2>2. CASE ~(/\ r \in Evaluated(pass[w].rows, pass[w].version)
               /\ pass[w].found[r] = NothingFound)
    BY <1>6, <1>9, <2>2 DEF OneOpen
  <2>. QED
    BY <2>1, <2>2
<1>10. (\A r \in Resources : OneOpen(r))'
  BY <1>9 DEF OneOpen
<1>. QED
  BY <1>5, <1>8, <1>10

LEMMA OpenStep == OpenInv /\ [Next]_vars => OpenInv'
<1>. SUFFICES ASSUME OpenInv, [Next]_vars PROVE OpenInv'
  OBVIOUS
<1>a. TypeOK'
  BY TypeStep DEF OpenInv
<1>1. ASSUME NEW definition \in Drafts, CreateRule(definition) PROVE OpenInv'
  <2>1. [definition |-> definition, enabled |-> TRUE] \in Versions
    BY DEF Versions
  <2>2. rules' = Append(rules, [definition |-> definition, enabled |-> TRUE])
    BY <1>1 DEF CreateRule
  <2>. QED
    BY <1>1, <1>a, <2>1, <2>2, OpenRuleStep DEF CreateRule
<1>2. ASSUME NEW definition \in Drafts, NEW enabled \in BOOLEAN, UpdateRule(definition, enabled)
      PROVE  OpenInv'
  <2>1. [definition |-> definition, enabled |-> enabled] \in Versions
    BY DEF Versions
  <2>. QED
    BY <1>2, <1>a, <2>1, OpenRuleStep DEF UpdateRule
<1>3. CASE ScanStep \/ (\E m \in Messages : DeadLetter(m)) \/ UNCHANGED vars
  BY <1>3, <1>a, OpenFrame DEF ScanStep, PersistResource, SweepResource, SendMessage, DeadLetter, vars
<1>4. ASSUME NEW w \in Workers, RollbackPass(w) PROVE OpenInv'
  <2>1. \A v \in Workers : pass'[v] \in {pass[v], NoPass}
    BY <1>4 DEF RollbackPass, OpenInv, TypeOK
  <2>. QED
    BY <1>4, <1>a, <2>1, OpenFrame DEF RollbackPass
<1>. QED
  BY <1>a, <1>1, <1>2, <1>3, <1>4, OpenReceive, OpenLookUp, OpenCommit DEF Next, RuleStep, PassStep

LEMMA OpenInit == Init => OpenInv
<1>. SUFFICES ASSUME Init PROVE OpenInv
  OBVIOUS
<1>1. \A w \in Workers : ~Active(w)
  BY DEF Init, Active, NoPass
<1>2. \A r \in Resources : findings[r] = <<>>
  BY DEF Init
<1>3. <<>> \in Seq(FindingRows) /\ DOMAIN <<>> = {}
  BY EmptySeq
<1>4. \A r \in Resources : OpenFindings(r) = {}
  BY <1>2, <1>3 DEF OpenFindings
<1>. QED
  BY <1>1, <1>4, TypeInit DEF OpenInv, VersionExists, SameVersion, OpenedBeside, OneOpen

\* A resource never has two open findings of one rule unless passes that had read
\* different versions of it overlapped: repeated, lost and concurrent messages
\* alone never get past the lookup by key and the index together.
THEOREM OneOpenFindingPerRule == Spec => []OneOpenUnlessRulesMixed
<1>1. OpenInv => OneOpenUnlessRulesMixed
  BY DEF OpenInv, OneOpenUnlessRulesMixed
<1>. QED
  BY OpenInit, OpenStep, <1>1, PTL DEF Spec

\* Administrators who edit the rule only while no pass is open.
CalmNext == Next /\ (rules' # rules => \A w \in Workers : ~Active(w))
CalmSpec == Init /\ [][CalmNext]_vars

\* Every pass evaluates the newest version.
Newest == "rules" \notin mixed /\ \A w \in Workers : Active(w) => pass[w].version = Len(rules)

LEMMA NewestStep ==
    ASSUME TypeOK, Newest, [CalmNext]_vars
    PROVE  Newest'
<1>a. pass \in [Workers -> Passes]
  BY DEF TypeOK
<1>1. ASSUME RuleStep PROVE Newest'
  <2>1. pass' = pass /\ mixed' = mixed
    BY <1>1 DEF RuleStep, CreateRule, UpdateRule
  <2>2. rules' = rules \/ \A w \in Workers : ~Active(w)
    BY DEF CalmNext, vars
  <2>. QED
    BY <2>1, <2>2 DEF Newest, Active
<1>2. ASSUME UNCHANGED <<rules, pass, mixed>> PROVE Newest'
  BY <1>2 DEF Newest, Active
<1>3. ASSUME NEW w \in Workers, NEW m \in Messages, Receive(w, m) PROVE Newest'
  <2>1. "rules" \notin mixed'
    BY <1>3 DEF Receive, Differences, Newest
  <2>2. rules' = rules /\ pass'[w].version = Len(rules)
           /\ \A v \in Workers \ {w} : pass'[v] = pass[v]
    BY <1>3, <1>a DEF Receive
  <2>. QED
    BY <2>1, <2>2 DEF Newest, Active
<1>4. ASSUME NEW w \in Workers, NEW r \in Resources, LookUp(w, r) PROVE Newest'
  <2>1. rules' = rules /\ mixed' = mixed
    BY <1>4 DEF LookUp
  <2>2. \A v \in Workers : pass'[v].message = pass[v].message /\ pass'[v].version = pass[v].version
    BY <1>4, <1>a DEF LookUp, LookedUp, Passes
  <2>. QED
    BY <2>1, <2>2 DEF Newest, Active
<1>5. ASSUME NEW w \in Workers, UNCHANGED <<rules, mixed>>, pass' = [pass EXCEPT ![w] = NoPass]
      PROVE  Newest'
  BY <1>5, <1>a DEF Newest, Active, NoPass
<1>6. ASSUME NEW w \in Workers, RollbackPass(w) \/ \E deleted \in BOOLEAN : CommitPass(w, deleted)
      PROVE  Newest'
  BY <1>5, <1>6 DEF RollbackPass, CommitPass
<1>7. CASE ScanStep \/ (\E m \in Messages : DeadLetter(m)) \/ UNCHANGED vars
  BY <1>2, <1>7 DEF ScanStep, PersistResource, SweepResource, SendMessage, DeadLetter, vars
<1>. QED
  BY <1>1, <1>3, <1>4, <1>6, <1>7 DEF CalmNext, Next, PassStep

\* FR-015 as core.py:372-373 states it (OneOpenFinding) holds when a rule is edited only
\* while no validation is under way: a second open finding needs two passes on either side
\* of an edit, and no duplicate, retry or overlap of passes is enough.
THEOREM OneOpenFindingIfCalm == CalmSpec => []OneOpenFinding
<1>1. Init => Newest
  BY DEF Init, Newest, Active, NoPass
<1>2. [CalmNext]_vars => [Next]_vars
  BY DEF CalmNext
<1>3. CalmSpec => Spec
  BY <1>2, PTL DEF CalmSpec, Spec
<1>4. Newest /\ OneOpenUnlessRulesMixed => OneOpenFinding
  BY DEF Newest, OneOpenUnlessRulesMixed, OneOpenFinding
<1>. QED
  BY <1>1, <1>3, <1>4, NewestStep, TypeCorrect, OneOpenFindingPerRule, PTL DEF CalmSpec

(***************************************************************************)
(* What a pass leaves behind.                                              *)
(*                                                                         *)
(* What a pass found may be re-pointed or closed by another one before it  *)
(* commits.  As long as the passes beside it hold its version, that only   *)
(* writes the version it would write itself (FoundStands); as long as they *)
(* hold its rows too, it only opens and closes what it would open and      *)
(* close itself (FoundAgrees).                                             *)
(***************************************************************************)

\* The resources a pass has looked up.
Seen(w) == Evaluated(pass[w].rows, pass[w].version) \ pass[w].todo

Kept(w, r) == pass[w].found[r].finding

\* What a pass found is still there, and names what it named or the version of the
\* pass; what is open beside it has been opened under that version.
FoundStands ==
    \A w \in Workers : Active(w) => \A r \in Seen(w) :
        /\ pass[w].found[r] # NothingFound =>
              /\ Kept(w, r) \in DOMAIN findings[r]
              /\ findings[r][Kept(w, r)].version \in {pass[w].found[r].version, pass[w].version}
        /\ \A i \in OpenFindings(r) : i = Kept(w, r) \/ findings[r][i].version = pass[w].version

SameRows == \A v, w \in Workers : Active(v) /\ Active(w) => pass[v].rows = pass[w].rows

\* Where there is a violation what was found stays open, and where there is none
\* nothing else is opened.
FoundAgrees ==
    \A w \in Workers : Active(w) => \A r \in Seen(w) :
        /\ InViolation(w, r) => pass[w].found[r] = NothingFound \/ Kept(w, r) \in OpenFindings(r)
        /\ ~InViolation(w, r) => OpenFindings(r) \subseteq {Kept(w, r)}

FoundInv ==
    /\ OpenInv
    /\ "rules" \notin mixed => FoundStands
    /\ mixed = {} => SameRows /\ FoundAgrees

\* A pass that evaluates anything holds a version of the rule.
LEMMA SeenVersion ==
    ASSUME OpenInv, NEW w \in Workers, Active(w), NEW r \in Evaluated(pass[w].rows, pass[w].version)
    PROVE  r \in Resources /\ pass[w].version \in 1..Len(rules)
<1>1. pass[w].version \in Nat /\ pass[w].version # 0
  BY FindingAssumption DEF Evaluated, OpenInv, TypeOK, Passes
<1>2. pass[w].version <= Len(rules)
  BY DEF OpenInv, VersionExists
<1>. QED
  BY <1>1, <1>2 DEF Evaluated, OpenInv, TypeOK

\* A commit never removes a finding, names it by the version of the pass or not at
\* all, and keeps it as open as it was where there is a violation.
LEMMA WrittenRow ==
    ASSUME TypeOK, NEW w \in Workers, NEW r \in Resources, NEW i \in DOMAIN findings[r]
    PROVE  /\ i \in DOMAIN Written(w, r)
           /\ Written(w, r)[i].version \in {findings[r][i].version, pass[w].version}
           /\ r \in Evaluated(pass[w].rows, pass[w].version) /\ InViolation(w, r)
                 => Written(w, r)[i].status = findings[r][i].status
<1>1. findings[r] \in Seq(FindingRows)
  BY DEF TypeOK
<1>2. CASE r \notin Evaluated(pass[w].rows, pass[w].version)
  BY <1>2 DEF Written
<1>3. CASE r \in Evaluated(pass[w].rows, pass[w].version) /\ pass[w].found[r] # NothingFound
  <2>1. Written(w, r) = [findings[r] EXCEPT ![Kept(w, r)] = Touched(w, r, findings[r][Kept(w, r)])]
    BY <1>3 DEF Written, Kept
  <2>2. i = Kept(w, r) => Written(w, r)[i] = Touched(w, r, findings[r][i])
    BY <2>1
  <2>3. i # Kept(w, r) => Written(w, r)[i] = findings[r][i]
    BY <2>1
  <2>. QED
    BY <2>1, <2>2, <2>3 DEF Touched
<1>4. CASE r \in Evaluated(pass[w].rows, pass[w].version) /\ pass[w].found[r] = NothingFound
  <2>1. CASE InViolation(w, r)
    <3>1. Written(w, r) = Append(findings[r], [version |-> pass[w].version, status |-> "open"])
      BY <1>4, <2>1 DEF Written
    <3>. QED
      BY <1>1, <3>1
  <2>2. CASE ~InViolation(w, r)
    BY <1>4, <2>2 DEF Written
  <2>. QED
    BY <2>1, <2>2
<1>. QED
  BY <1>2, <1>3, <1>4

\* A step in which no pass begins, looks up or commits; the rule may get a version.
LEMMA FoundFrame ==
    ASSUME FoundInv, OpenInv', UNCHANGED <<findings, mixed>>,
           rules' = rules \/ \E new \in Versions : rules' = Append(rules, new),
           \A w \in Workers : pass'[w] \in {pass[w], NoPass}
    PROVE  FoundInv'
<1>. USE DEF FoundInv
<1>1. \A w \in Workers : Active(w)' => Active(w) /\ pass'[w] = pass[w]
  BY DEF Active, NoPass
<1>2. ASSUME NEW w \in Workers, Active(w)'
      PROVE  /\ Seen(w)' = Seen(w)
             /\ \A r \in Seen(w) : /\ InViolation(w, r)' <=> InViolation(w, r)
                                   /\ Kept(w, r)' = Kept(w, r)
                                   /\ OpenFindings(r)' = OpenFindings(r)
  <2>1. rules \in Seq(Versions) /\ pass[w].version \in Nat
    BY FindingAssumption DEF OpenInv, TypeOK, Passes
  <2>2. pass[w].version <= Len(rules) /\ pass'[w] = pass[w]
    BY <1>1, <1>2 DEF OpenInv, VersionExists
  <2>3. pass[w].version # 0 => rules'[pass[w].version] = rules[pass[w].version]
    BY <2>1, <2>2, AppendProperties
  <2>4. Evaluated(pass[w].rows, pass[w].version)' = Evaluated(pass[w].rows, pass[w].version)
    BY <2>2, <2>3 DEF Evaluated, IsChild
  <2>5. \A r \in Seen(w) : pass[w].version # 0
    BY DEF Seen, Evaluated
  <2>. QED
    BY <2>2, <2>3, <2>4, <2>5 DEF Seen, InViolation, Kept, OpenFindings
<1>3. "rules" \notin mixed => FoundStands'
  BY <1>1, <1>2 DEF FoundStands
<1>4. mixed = {} => SameRows'
  BY <1>1 DEF SameRows
<1>5. mixed = {} => FoundAgrees'
  BY <1>1, <1>2 DEF FoundAgrees
<1>. QED
  BY <1>3, <1>4, <1>5

LEMMA FoundReceive ==
    ASSUME FoundInv, NEW w \in Workers, NEW m \in Messages, Receive(w, m), OpenInv'
    PROVE  FoundInv'
<1>. USE DEF FoundInv
<1>1. /\ pass'[w].version = Len(rules) /\ pass'[w].todo = Evaluated(inventory, Len(rules))
      /\ pass'[w].rows = inventory
      /\ \A v \in Workers \ {w} : pass'[v] = pass[v]
  BY DEF Receive, OpenInv, TypeOK
<1>2. ~Active(w) /\ UNCHANGED <<rules, findings>> /\ mixed' = mixed \cup Differences
  BY DEF Receive
<1>3. \A v \in Workers \ {w} : Active(v)' <=> Active(v)
  BY <1>1 DEF Active
<1>4. Seen(w)' = {}
  BY <1>1, <1>2 DEF Seen, Evaluated, IsChild
<1>5. ASSUME NEW v \in Workers \ {w}
      PROVE  /\ Seen(v)' = Seen(v)
             /\ \A r \in Seen(v) : /\ InViolation(v, r)' <=> InViolation(v, r)
                                   /\ Kept(v, r)' = Kept(v, r)
                                   /\ OpenFindings(r)' = OpenFindings(r)
  <2>1. pass'[v] = pass[v] /\ rules' = rules /\ findings' = findings
    BY <1>1, <1>2
  <2>2. Seen(v)' = Seen(v)
    BY <2>1 DEF Seen, Evaluated, IsChild
  <2>3. \A r \in Resources : OpenFindings(r)' = OpenFindings(r) /\ Kept(v, r)' = Kept(v, r)
    BY <2>1 DEF OpenFindings, Kept
  <2>4. \A r \in Resources : InViolation(v, r)' <=> InViolation(v, r)
    BY <2>1 DEF InViolation
  <2>5. Seen(v) \subseteq Resources
    BY DEF Seen, Evaluated
  <2>. QED
    BY <2>2, <2>3, <2>4, <2>5
<1>6. "rules" \notin mixed' => FoundStands'
  BY <1>1, <1>2, <1>3, <1>4, <1>5 DEF FoundStands
<1>7. mixed' = {} => FoundAgrees'
  BY <1>1, <1>2, <1>3, <1>4, <1>5 DEF FoundAgrees
<1>8. mixed' = {} => SameRows'
  <2>1. mixed' = {} => mixed = {} /\ \A v \in Workers : Active(v) => pass[v].rows = inventory
    BY <1>2 DEF Differences
  <2>. QED
    BY <1>1, <1>3, <2>1 DEF SameRows
<1>. QED
  BY <1>6, <1>7, <1>8

\* What the lookup by key returns is open, and with it nothing else is, unless rule
\* versions mix.
LEMMA FoundLookUp ==
    ASSUME FoundInv, NEW w \in Workers, NEW r \in Resources, LookUp(w, r), OpenInv'
    PROVE  FoundInv'
<1>. USE DEF FoundInv
<1>1. PICK found \in IF FindByKey(w, r) = {} THEN {NothingFound}
                     ELSE {[finding |-> i, version |-> findings[r][i].version] :
                              i \in FindByKey(w, r)} :
         pass' = [pass EXCEPT ![w] = LookedUp(@, r, found)]
  BY DEF LookUp
<1>2. UNCHANGED <<rules, findings, mixed>> /\ Active(w) /\ r \in pass[w].todo
  BY DEF LookUp
<1>3. /\ pass'[w].message = pass[w].message /\ pass'[w].version = pass[w].version
      /\ pass'[w].rows = pass[w].rows /\ pass'[w].todo = pass[w].todo \ {r}
      /\ pass'[w].found = [pass[w].found EXCEPT ![r] = found]
  BY <1>1 DEF LookedUp, OpenInv, TypeOK, Passes
<1>4. \A v \in Workers \ {w} : pass'[v] = pass[v]
  BY <1>1 DEF OpenInv, TypeOK
<1>5. \A v \in Workers : /\ Active(v)' <=> Active(v)
                         /\ pass'[v].version = pass[v].version /\ pass'[v].rows = pass[v].rows
  BY <1>3, <1>4 DEF Active
<1>6. \A v \in Workers, q \in Resources :
         /\ OpenFindings(q)' = OpenFindings(q)
         /\ InViolation(v, q)' <=> InViolation(v, q)
         /\ Evaluated(pass[v].rows, pass[v].version)' = Evaluated(pass[v].rows, pass[v].version)
  <2>1. \A q \in Resources : OpenFindings(q)' = OpenFindings(q)
    BY <1>2 DEF OpenFindings
  <2>2. \A v \in Workers, q \in Resources : InViolation(v, q)' <=> InViolation(v, q)
    BY <1>2, <1>5 DEF InViolation
  <2>3. \A v \in Workers :
           Evaluated(pass[v].rows, pass[v].version)' = Evaluated(pass[v].rows, pass[v].version)
    BY <1>2, <1>5 DEF Evaluated, IsChild
  <2>. QED
    BY <2>1, <2>2, <2>3
\* A resource looked up before is as it was.
<1>7. ASSUME NEW v \in Workers, NEW q \in Seen(v)', v # w \/ q # r
      PROVE  /\ q \in Seen(v) /\ pass'[v].found[q] = pass[v].found[q]
             /\ Kept(v, q)' = Kept(v, q)
  <2>1. q \in Resources /\ q \in Evaluated(pass[v].rows, pass[v].version) \ pass'[v].todo
    BY <1>6, <1>7 DEF Seen, Evaluated
  <2>2. q \notin pass[v].todo
    BY <1>3, <1>4, <1>7, <2>1
  <2>3. pass'[v].found[q] = pass[v].found[q]
    <3>1. pass[w].found \in [Resources -> [finding : Nat, version : 0..MaxVersions]]
      BY DEF OpenInv, TypeOK, Passes
    <3>. QED
      BY <1>3, <1>4, <1>7, <2>1, <3>1
  <2>. QED
    BY <2>1, <2>2, <2>3 DEF Seen, Kept
<1>8. pass'[w].found[r] = found /\ Kept(w, r)' = found.finding
  BY <1>3 DEF OpenInv, TypeOK, Passes, Kept
\* What the invariants ask of the resource just looked up.
<1>9. ASSUME /\ found # NothingFound =>
                   /\ found.finding \in DOMAIN findings[r]
                   /\ findings[r][found.finding].version \in {found.version, pass[w].version}
             /\ \A i \in OpenFindings(r) :
                   i = found.finding \/ findings[r][i].version = pass[w].version,
             "rules" \notin mixed
      PROVE  FoundStands'
  <2>. SUFFICES ASSUME NEW v \in Workers, Active(v)', NEW q \in Seen(v)'
                PROVE  /\ pass'[v].found[q] # NothingFound =>
                             /\ Kept(v, q)' \in DOMAIN findings[q]
                             /\ findings[q][Kept(v, q)'].version
                                   \in {pass'[v].found[q].version, pass[v].version}
                       /\ \A i \in OpenFindings(q) :
                             i = Kept(v, q)' \/ findings[q][i].version = pass[v].version
    <3>1. \A v \in Workers : Seen(v)' \subseteq Resources
      BY DEF Seen, Evaluated
    <3>2. UNCHANGED findings /\ \A v \in Workers :
             (Active(v)' <=> Active(v)) /\ pass'[v].version = pass[v].version
      BY <1>2, <1>5
    <3>3. \A q \in Resources : OpenFindings(q)' = OpenFindings(q)
      BY <1>6
    <3>. QED
      BY <3>1, <3>2, <3>3, SMTT(30) DEF FoundStands
  <2>1. CASE v = w /\ q = r
    BY <1>8, <1>9, <2>1
  <2>2. CASE v # w \/ q # r
    BY <1>5, <1>7, <1>9, <2>2 DEF FoundStands
  <2>. QED
    BY <2>1, <2>2
<1>10. ASSUME /\ InViolation(w, r) => found = NothingFound \/ found.finding \in OpenFindings(r)
              /\ ~InViolation(w, r) => OpenFindings(r) \subseteq {found.finding},
              mixed = {}
       PROVE  FoundAgrees'
  <2>. SUFFICES ASSUME NEW v \in Workers, Active(v)', NEW q \in Seen(v)'
                PROVE  /\ InViolation(v, q) => pass'[v].found[q] = NothingFound
                                                \/ Kept(v, q)' \in OpenFindings(q)
                       /\ ~InViolation(v, q) => OpenFindings(q) \subseteq {Kept(v, q)'}
    <3>1. \A v \in Workers : Seen(v)' \subseteq Resources
      BY DEF Seen, Evaluated
    <3>. QED
      BY <1>6, <3>1 DEF FoundAgrees
  <2>1. CASE v = w /\ q = r
    BY <1>8, <1>10, <2>1
  <2>2. CASE v # w \/ q # r
    BY <1>5, <1>7, <1>10, <2>2 DEF FoundAgrees
  <2>. QED
    BY <2>1, <2>2
<1>11. mixed = {} => SameRows'
  BY <1>5 DEF SameRows
<1>12. CASE FindByKey(w, r) = {}
  <2>1. found = NothingFound /\ OpenFindings(r) = {}
    BY <1>1, <1>12 DEF FindByKey
  <2>. QED
    BY <1>2, <1>9, <1>10, <1>11, <2>1
<1>13. CASE FindByKey(w, r) # {}
  <2>1. PICK k \in OpenFindings(r) : found = [finding |-> k, version |-> findings[r][k].version]
    BY <1>1, <1>13 DEF FindByKey
  <2>2. k \in DOMAIN findings[r] /\ found.finding = k /\ found.version = findings[r][k].version
    BY <2>1 DEF OpenFindings
  <2>3. "rules" \notin mixed => \A i \in OpenFindings(r) : i = k
    BY <2>1 DEF OpenInv, OneOpen
  <2>. QED
    BY <1>2, <1>9, <1>10, <1>11, <2>1, <2>2, <2>3
<1>. QED
  BY <1>12, <1>13

LEMMA FoundCommit ==
    ASSUME FoundInv, NEW w \in Workers, NEW deleted \in BOOLEAN, CommitPass(w, deleted), OpenInv'
    PROVE  FoundInv'
<1>. USE DEF FoundInv
<1>1. /\ Active(w) /\ UNCHANGED <<rules, mixed>>
      /\ \A r \in Resources : findings'[r] = Written(w, r)
  BY DEF CommitPass
<1>2. pass'[w] = NoPass /\ \A v \in Workers \ {w} : pass'[v] = pass[v]
  BY DEF CommitPass, OpenInv, TypeOK
<1>3. \A v \in Workers : Active(v)' => Active(v) /\ pass'[v] = pass[v]
  BY <1>2 DEF Active, NoPass
<1>4. ASSUME NEW v \in Workers, Active(v)'
      PROVE  /\ Seen(v)' = Seen(v)
             /\ \A r \in Seen(v) : /\ r \in Resources
                                   /\ InViolation(v, r)' <=> InViolation(v, r)
                                   /\ Kept(v, r)' = Kept(v, r)
  BY <1>1, <1>3, <1>4 DEF Seen, Evaluated, IsChild, InViolation, Kept
<1>5. ASSUME NEW r \in Resources, NEW i \in OpenFindings(r)'
      PROVE  \/ /\ i \in OpenFindings(r)
                /\ findings'[r][i].version \in {findings[r][i].version, pass[w].version}
             \/ findings'[r][i].version = pass[w].version /\ InViolation(w, r)
  <2>1. i \in DOMAIN Written(w, r) /\ Written(w, r)[i].status = "open"
    BY <1>1, <1>5 DEF OpenFindings
  <2>. QED
    BY <1>1, <2>1, WrittenOpen DEF OpenInv
<1>6. ASSUME NEW r \in Resources, NEW i \in DOMAIN findings[r]
      PROVE  /\ i \in DOMAIN findings'[r]
             /\ findings'[r][i].version \in {findings[r][i].version, pass[w].version}
             /\ r \in Evaluated(pass[w].rows, pass[w].version) /\ InViolation(w, r)
                   => findings'[r][i].status = findings[r][i].status
  BY <1>1, WrittenRow DEF OpenInv
<1>7. ASSUME "rules" \notin mixed PROVE FoundStands'
  <2>. SUFFICES ASSUME NEW v \in Workers, Active(v)', NEW r \in Seen(v)
                PROVE  /\ pass[v].found[r] # NothingFound =>
                             /\ Kept(v, r) \in DOMAIN findings'[r]
                             /\ findings'[r][Kept(v, r)].version
                                   \in {pass[v].found[r].version, pass[v].version}
                       /\ \A i \in OpenFindings(r)' :
                             i = Kept(v, r) \/ findings'[r][i].version = pass[v].version
    BY <1>3, <1>4 DEF FoundStands
  <2>1. Active(v) /\ r \in Resources /\ pass[v].version = pass[w].version
    BY <1>1, <1>3, <1>4, <1>7 DEF OpenInv, SameVersion
  <2>2. /\ pass[v].found[r] # NothingFound =>
              /\ Kept(v, r) \in DOMAIN findings[r]
              /\ findings[r][Kept(v, r)].version \in {pass[v].found[r].version, pass[v].version}
        /\ \A i \in OpenFindings(r) : i = Kept(v, r) \/ findings[r][i].version = pass[v].version
    BY <1>7, <2>1 DEF FoundStands
  <2>3. ASSUME pass[v].found[r] # NothingFound
        PROVE  /\ Kept(v, r) \in DOMAIN findings'[r]
               /\ findings'[r][Kept(v, r)].version \in {pass[v].found[r].version, pass[v].version}
    BY <1>6, <2>1, <2>2, <2>3
  <2>4. ASSUME NEW i \in OpenFindings(r)', i # Kept(v, r)
        PROVE  findings'[r][i].version = pass[v].version
    BY <1>5, <2>1, <2>2, <2>4
  <2>. QED
    BY <2>3, <2>4
<1>8. ASSUME mixed = {} PROVE SameRows' /\ FoundAgrees'
  <2>1. SameRows'
    BY <1>3, <1>8 DEF SameRows
  <2>. SUFFICES ASSUME NEW v \in Workers, Active(v)', NEW r \in Seen(v)
                PROVE  /\ InViolation(v, r) => pass[v].found[r] = NothingFound
                                               \/ Kept(v, r) \in OpenFindings(r)'
                       /\ ~InViolation(v, r) => OpenFindings(r)' \subseteq {Kept(v, r)}
    BY <1>3, <1>4, <2>1 DEF FoundAgrees
  <2>2. /\ Active(v) /\ r \in Resources
        /\ pass[v].version = pass[w].version /\ pass[v].rows = pass[w].rows
    BY <1>1, <1>3, <1>4, <1>8 DEF OpenInv, SameVersion, SameRows
  <2>3. InViolation(w, r) <=> InViolation(v, r)
    BY <2>2 DEF InViolation
  <2>4. r \in Evaluated(pass[w].rows, pass[w].version)
    BY <2>2 DEF Seen
  <2>5. /\ InViolation(v, r) => pass[v].found[r] = NothingFound \/ Kept(v, r) \in OpenFindings(r)
        /\ ~InViolation(v, r) => OpenFindings(r) \subseteq {Kept(v, r)}
    BY <1>8, <2>2 DEF FoundAgrees
  <2>6. ASSUME InViolation(v, r), Kept(v, r) \in OpenFindings(r)
        PROVE  Kept(v, r) \in OpenFindings(r)'
    BY <1>6, <2>2, <2>3, <2>4, <2>6 DEF OpenFindings
  <2>7. ASSUME ~InViolation(v, r), NEW i \in OpenFindings(r)' PROVE i = Kept(v, r)
    BY <1>5, <2>2, <2>3, <2>5, <2>7
  <2>. QED
    BY <2>5, <2>6, <2>7
<1>. QED
  BY <1>1, <1>7, <1>8

LEMMA FoundStep == FoundInv /\ [Next]_vars => FoundInv'
<1>. SUFFICES ASSUME FoundInv, [Next]_vars PROVE FoundInv'
  OBVIOUS
<1>a. OpenInv'
  BY OpenStep DEF FoundInv
<1>1. CASE RuleStep
  <2>1. /\ UNCHANGED <<findings, mixed, pass>>
        /\ \E new \in Versions : rules' = Append(rules, new)
    <3>1. ASSUME NEW definition \in Drafts, NEW enabled \in BOOLEAN
          PROVE  [definition |-> definition, enabled |-> enabled] \in Versions
      BY DEF Versions
    <3>2. ASSUME NEW definition \in Drafts, CreateRule(definition)
          PROVE  rules' = Append(rules, [definition |-> definition, enabled |-> TRUE])
      BY <3>2 DEF CreateRule
    <3>3. UNCHANGED <<findings, mixed, pass>>
      BY <1>1 DEF RuleStep, CreateRule, UpdateRule
    <3>. QED
      BY <1>1, <3>1, <3>2, <3>3 DEF RuleStep, UpdateRule
  <2>. QED
    BY <1>a, <2>1, FoundFrame
<1>2. CASE ScanStep \/ (\E m \in Messages : DeadLetter(m)) \/ UNCHANGED vars
  <2>1. UNCHANGED <<rules, findings, mixed, pass>>
    BY <1>2 DEF ScanStep, PersistResource, SweepResource, SendMessage, DeadLetter, vars
  <2>. QED
    BY <1>a, <2>1, FoundFrame
<1>3. ASSUME NEW w \in Workers, RollbackPass(w) PROVE FoundInv'
  <2>1. \A v \in Workers : pass'[v] \in {pass[v], NoPass}
    BY <1>3 DEF RollbackPass, FoundInv, OpenInv, TypeOK
  <2>. QED
    BY <1>3, <1>a, <2>1, FoundFrame DEF RollbackPass
<1>. QED
  BY <1>a, <1>1, <1>2, <1>3, FoundReceive, FoundLookUp, FoundCommit DEF Next, PassStep

LEMMA FoundInit == Init => FoundInv
<1>. SUFFICES ASSUME Init PROVE FoundInv
  OBVIOUS
<1>1. \A w \in Workers : ~Active(w)
  BY DEF Init, Active, NoPass
<1>. QED
  BY <1>1, OpenInit DEF FoundInv, FoundStands, SameRows, FoundAgrees

\* FR-006: what a pass opens, keeps open or closes names the version it evaluated,
\* whichever version opened it and whatever other passes did since it looked
\* (evaluate_resource re-points what it found), unless rule versions mix.
THEOREM NamesTheVersionEvaluated == Spec => FindingNamesItsVersion
<1>1. ASSUME FoundInv, NEW w \in Workers, NEW deleted \in BOOLEAN, CommitPass(w, deleted),
             "rules" \notin mixed, NEW r \in Evaluated(pass[w].rows, pass[w].version),
             NEW i \in DOMAIN findings'[r]
      PROVE  \/ findings'[r][i].version = pass[w].version
             \/ i \in DOMAIN findings[r] /\ findings[r][i].status = "resolved"
  <2>1. /\ Active(w) /\ r \in Seen(w) /\ r \in Resources
        /\ findings'[r] = Written(w, r) /\ findings[r] \in Seq(FindingRows)
    BY <1>1 DEF CommitPass, Seen, Evaluated, FoundInv, OpenInv, TypeOK
  <2>2. /\ pass[w].found[r] # NothingFound =>
              findings[r][Kept(w, r)].version \in {pass[w].found[r].version, pass[w].version}
        /\ \A j \in OpenFindings(r) : j = Kept(w, r) \/ findings[r][j].version = pass[w].version
    BY <1>1, <2>1 DEF FoundInv, FoundStands
  <2>3. ASSUME i \in DOMAIN findings[r], i # Kept(w, r)
        PROVE  findings[r][i].version = pass[w].version \/ findings[r][i].status = "resolved"
    <3>1. findings[r][i] \in FindingRows
      BY <2>1, <2>3
    <3>2. findings[r][i].status \in {"open", "resolved"}
      BY <3>1 DEF FindingRows
    <3>. QED
      BY <2>2, <2>3, <3>2 DEF OpenFindings
  <2>4. CASE pass[w].found[r] # NothingFound
    <3>1. Written(w, r) = [findings[r] EXCEPT ![Kept(w, r)] = Touched(w, r, findings[r][Kept(w, r)])]
      BY <1>1, <2>4 DEF Written, Kept
    <3>2. i \in DOMAIN findings[r]
      BY <1>1, <2>1, <3>1
    <3>3. CASE i = Kept(w, r)
      <4>1. findings'[r][i] = Touched(w, r, findings[r][i])
        BY <2>1, <3>1, <3>2, <3>3
      <4>. QED
        BY <2>2, <2>4, <3>3, <4>1 DEF Touched
    <3>4. CASE i # Kept(w, r)
      <4>1. findings'[r][i] = findings[r][i]
        BY <2>1, <3>1, <3>2, <3>4
      <4>. QED
        BY <2>3, <3>2, <3>4, <4>1
    <3>. QED
      BY <3>3, <3>4
  <2>5. CASE pass[w].found[r] = NothingFound
    <3>1. Kept(w, r) = 0
      BY <2>5 DEF Kept, NothingFound
    <3>2. CASE InViolation(w, r)
      <4>1. findings'[r] = Append(findings[r], [version |-> pass[w].version, status |-> "open"])
        BY <1>1, <2>1, <2>5, <3>2 DEF Written
      <4>2. CASE i = Len(findings[r]) + 1
        BY <2>1, <4>1, <4>2
      <4>3. CASE i # Len(findings[r]) + 1
        <5>1. i \in DOMAIN findings[r] /\ i # 0 /\ findings'[r][i] = findings[r][i]
          BY <1>1, <2>1, <4>1, <4>3
        <5>. QED
          BY <2>3, <3>1, <5>1
      <4>. QED
        BY <4>2, <4>3
    <3>3. CASE ~InViolation(w, r)
      <4>1. findings'[r] = findings[r]
        BY <1>1, <2>1, <2>5, <3>3 DEF Written
      <4>2. i \in DOMAIN findings[r] /\ i # 0
        BY <1>1, <2>1, <4>1
      <4>. QED
        BY <2>3, <3>1, <4>1, <4>2
    <3>. QED
      BY <3>2, <3>3
  <2>. QED
    BY <2>4, <2>5
<1>2. FoundInv /\ [Next]_vars => [\A w \in Workers :
          Commits(w) /\ "rules" \notin mixed =>
             \A r \in Evaluated(pass[w].rows, pass[w].version) : \A i \in DOMAIN findings'[r] :
                \/ findings'[r][i].version = pass[w].version
                \/ i \in DOMAIN findings[r] /\ findings[r][i].status = "resolved"]_vars
  BY <1>1 DEF Commits
<1>. QED
  BY FoundInit, FoundStep, <1>2, PTL DEF Spec, FindingNamesItsVersion

\* FR-013, FR-014, FR-016: a pass that commits on the inventory and the rule it read
\* leaves an open finding exactly where a top-level resource is in violation, with
\* duplicate deliveries of its message processed beside it (evaluate_resource).
THEOREM PassesMatchTheInventory == Spec => PassMatchesInventory
<1>1. ASSUME FoundInv, NEW w \in Workers, NEW deleted \in BOOLEAN, CommitPass(w, deleted),
             mixed = {}, pass[w].rows = inventory, pass[w].version = Len(rules), rules # <<>>,
             rules[Len(rules)].enabled, NEW r \in Resources, TopLevel(r)
      PROVE  OpenFindings(r)' # {} <=> Violates(rules[Len(rules)].definition, inventory[r].value)
  <2>1. Len(rules) # 0
    BY <1>1, EmptySeq DEF FoundInv, OpenInv, TypeOK
  <2>2. r \in Evaluated(pass[w].rows, pass[w].version)
    BY <1>1, <2>1 DEF TopLevel, Evaluated, IsChild
  <2>3. InViolation(w, r) <=> Violates(rules[Len(rules)].definition, inventory[r].value)
    BY <1>1 DEF InViolation
  <2>4. /\ Active(w) /\ r \in Seen(w)
        /\ findings'[r] = Written(w, r) /\ findings[r] \in Seq(FindingRows)
    BY <1>1, <2>2 DEF CommitPass, Seen, FoundInv, OpenInv, TypeOK
  <2>5. /\ InViolation(w, r) => pass[w].found[r] = NothingFound \/ Kept(w, r) \in OpenFindings(r)
        /\ ~InViolation(w, r) => OpenFindings(r) \subseteq {Kept(w, r)}
    BY <1>1, <2>4 DEF FoundInv, FoundAgrees
  <2>6. CASE InViolation(w, r) /\ pass[w].found[r] = NothingFound
    <3>1. findings'[r] = Append(findings[r], [version |-> pass[w].version, status |-> "open"])
      BY <2>2, <2>4, <2>6 DEF Written
    <3>2. Len(findings[r]) + 1 \in OpenFindings(r)'
      BY <2>4, <3>1 DEF OpenFindings
    <3>. QED
      BY <2>3, <2>6, <3>2
  <2>7. CASE InViolation(w, r) /\ Kept(w, r) \in OpenFindings(r)
    <3>1. Kept(w, r) \in DOMAIN findings[r] /\ findings[r][Kept(w, r)].status = "open"
      BY <2>7 DEF OpenFindings
    <3>2. /\ Kept(w, r) \in DOMAIN Written(w, r)
          /\ Written(w, r)[Kept(w, r)].status = findings[r][Kept(w, r)].status
      BY <1>1, <2>2, <2>7, <3>1, WrittenRow DEF FoundInv, OpenInv
    <3>3. Kept(w, r) \in OpenFindings(r)'
      BY <2>4, <3>1, <3>2 DEF OpenFindings
    <3>. QED
      BY <2>3, <2>7, <3>3
  <2>8. CASE ~InViolation(w, r)
    <3>. SUFFICES ASSUME NEW i \in OpenFindings(r)' PROVE FALSE
      BY <2>3, <2>8
    <3>1. i \in DOMAIN Written(w, r) /\ Written(w, r)[i].status = "open"
      BY <2>4 DEF OpenFindings
    <3>2. i \in OpenFindings(r)
      BY <1>1, <2>8, <3>1, WrittenOpen DEF FoundInv, OpenInv
    <3>3. i = Kept(w, r) /\ i \in DOMAIN findings[r] /\ i # 0
      BY <2>4, <2>5, <2>8, <3>2 DEF OpenFindings
    <3>4. pass[w].found[r] # NothingFound
      BY <3>3 DEF Kept, NothingFound
    <3>5. Written(w, r) = [findings[r] EXCEPT ![i] = Touched(w, r, findings[r][i])]
      BY <2>2, <3>3, <3>4 DEF Written, Kept
    <3>6. Written(w, r)[i].status = "resolved"
      BY <2>8, <3>3, <3>5 DEF Touched
    <3>. QED
      BY <3>1, <3>6
  <2>. QED
    BY <2>5, <2>6, <2>7, <2>8
<1>2. FoundInv /\ [Next]_vars => [\A w \in Workers :
          /\ Commits(w) /\ mixed = {} /\ pass[w].rows = inventory
          /\ pass[w].version = Len(rules) /\ rules # <<>> /\ rules[Len(rules)].enabled
          => \A r \in Resources : TopLevel(r) =>
                (OpenFindings(r)' # {} <=>
                    Violates(rules[Len(rules)].definition, inventory[r].value))]_vars
  BY <1>1 DEF Commits
<1>. QED
  BY FoundInit, FoundStep, <1>2, PTL DEF Spec, PassMatchesInventory
=============================================================================
