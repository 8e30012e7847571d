------------------------ MODULE ScanLifecycleProofs ------------------------
(***************************************************************************)
(* Machine-checked theorems about ScanLifecycle, for every number of       *)
(* scans, regions, resources and attempts.                                 *)
(*                                                                         *)
(* The argument.  UnitInv places every unit in its execution and in time;  *)
(* with it RowInv ties the transactions to the executions and StampInv     *)
(* says that last_seen_at remembers every sighting.  From these follow the *)
(* safety of the sweep (SweepSafe), the hand-off (HandoffInv), the         *)
(* refinement of InventoryContract, with MirrorInv that a scan which met   *)
(* no other one leaves live what it found, and, in a cloud that stands     *)
(* still, that nothing that exists is marked deleted.                      *)
(***************************************************************************)
EXTENDS ScanLifecycle, TLAPS

(***************************************************************************)
(* Types.                                                                  *)
(***************************************************************************)

\* An attempt may begin only while attempts are left.
TriesLeft ==
    \A s \in Scans, g \in Regions :
        unit[s][g].phase \in {"queued", "swept"} => unit[s][g].tries < MaxTries

TypeInv == TypeOK /\ TriesLeft

\* A unit outside an attempt is a unit, in whatever phase.
LEMMA AtRestType ==
    ASSUME NEW p \in Phases, NEW n \in 0..MaxTries
    PROVE  AtRest(p, n) \in Units
BY ScanAssumption DEF AtRest, Units, Scans

\* A failed attempt is counted, and the unit is queued again or given up.
LEMMA AfterFailureType ==
    ASSUME NEW u \in Units, u.tries < MaxTries
    PROVE  /\ AfterFailure(u) \in Units
           /\ AfterFailure(u).phase \in {"queued", "failed"}
           /\ AfterFailure(u).phase = "queued" => AfterFailure(u).tries < MaxTries
<1>1. u.tries + 1 \in 0..MaxTries
  BY ScanAssumption DEF Units
<1>2. \A p \in Phases : AtRest(p, u.tries + 1) \in Units
  BY <1>1, AtRestType
<1>. QED
  BY <1>2 DEF AfterFailure, AtRest, Phases

\* Replacing one unit by a unit that respects TriesLeft keeps both facts.
LEMMA UnitUpdateType ==
    ASSUME TypeInv, NEW s \in Scans, NEW g \in Regions, NEW v \in Units,
           v.phase \in {"queued", "swept"} => v.tries < MaxTries,
           unit' = [unit EXCEPT ![s][g] = v]
    PROVE  unit' \in [Scans -> [Regions -> Units]] /\ TriesLeft'
BY DEF TypeInv, TypeOK, TriesLeft

LEMMA TypeInit == Init => TypeInv
<1>. SUFFICES ASSUME Init PROVE TypeInv
  OBVIOUS
<1>1. 0 \in 0..MaxTries /\ 0 \in 0..MaxScans
  BY ScanAssumption
<1>2. AtRest("out", 0) \in Units
  BY <1>1, AtRestType DEF Phases
<1>3. unit \in [Scans -> [Regions -> Units]]
  BY <1>2 DEF Init
<1>4. TriesLeft
  BY DEF Init, TriesLeft, AtRest
<1>5. present \subseteq Resources \X Regions
  BY DEF Init
<1>. QED
  BY <1>1, <1>3, <1>4, <1>5 DEF Init, TypeInv, TypeOK, RowStates, ExecStates, Ended

\* Every action keeps the types; StartScan, SweepRegion, CommitUnit and FailUnit
\* are the ones that touch a unit.
LEMMA TypeStep == TypeInv /\ [Next]_vars => TypeInv'
<1>. SUFFICES ASSUME TypeInv, [Next]_vars PROVE TypeInv'
  OBVIOUS
<1>. USE ScanAssumption
<1>a. /\ begun \in 0..MaxScans
      /\ unit \in [Scans -> [Regions -> Units]]
      /\ TypeOK /\ TriesLeft
  BY DEF TypeInv, TypeOK
<1>1. CASE StartScan
  <2>. DEFINE fresh == [g \in Regions |-> AtRest(IF g \in scanRegions THEN "queued" ELSE "out", 0)]
  <2>1. begun' \in 0..MaxScans /\ begun' \in Scans
    BY <1>1, <1>a DEF StartScan, Scans
  <2>2. fresh \in [Regions -> Units]
    BY AtRestType DEF Phases
  <2>3. unit' \in [Scans -> [Regions -> Units]]
    BY <1>1, <1>a, <2>2 DEF StartScan
  <2>4. TriesLeft'
    BY <1>1, <1>a DEF StartScan, TriesLeft, AtRest
  <2>5. row' \in [Scans -> RowStates] /\ exec' \in [Scans -> ExecStates] /\ overlapped' \subseteq Scans
    BY <1>1, <1>a, <2>1 DEF StartScan, TypeOK, RowStates, ExecStates
  <2>. QED
    BY <1>1, <1>a, <2>1, <2>3, <2>4, <2>5 DEF StartScan, TypeInv, TypeOK, invVars
<1>2. ASSUME NEW s \in Scans, StartStep(s) PROVE TypeInv'
  BY <1>2, <1>a DEF StartStep, CommitStart, RollbackStart, TypeInv, TypeOK, TriesLeft, RowStates, invVars
<1>3. ASSUME NEW s \in Scans, NEW g \in Regions, UnitStep(s, g) PROVE TypeInv'
  <2>1. ASSUME NEW missed \in SUBSET Supplementary, SweepRegion(s, g, missed) PROVE TypeInv'
    <3>. DEFINE v == [phase |-> "swept", tries |-> unit[s][g].tries, since |-> begun,
                      report |-> {r \in Resources : <<r, g>> \in present} \ missed]
    <3>1. v \in Units /\ v.tries < MaxTries
      BY <2>1, <1>a DEF SweepRegion, Units, Phases, TriesLeft
    <3>2. unit' = [unit EXCEPT ![s][g] = v]
      BY <2>1 DEF SweepRegion
    <3>3. unit' \in [Scans -> [Regions -> Units]] /\ TriesLeft'
      BY <3>1, <3>2, UnitUpdateType
    <3>. QED
      BY <2>1, <1>a, <3>3 DEF SweepRegion, TypeInv, TypeOK, invVars
  <2>2. ASSUME NEW now \in Scans, NEW delivered \in BOOLEAN, CommitUnit(s, g, now, delivered)
        PROVE TypeInv'
    <3>. DEFINE u == unit[s][g]
                v == IF delivered THEN AtRest("succeeded", u.tries) ELSE AfterFailure(u)
    <3>1. u \in Units /\ u.tries < MaxTries
      BY <2>2, <1>a DEF CommitUnit, TriesLeft
    <3>2. v \in Units /\ (v.phase \in {"queued", "swept"} => v.tries < MaxTries)
      <4>1. AtRest("succeeded", u.tries) \in Units
        BY <3>1, AtRestType DEF Units, Phases
      <4>. QED
        BY <3>1, <4>1, AfterFailureType DEF AtRest
    <3>3. unit' = [unit EXCEPT ![s][g] = v]
      BY <2>2 DEF CommitUnit
    <3>4. unit' \in [Scans -> [Regions -> Units]] /\ TriesLeft'
      BY <3>2, <3>3, UnitUpdateType
    <3>5. u.report \subseteq Resources /\ u.since \in 0..MaxScans /\ now \in 0..MaxScans
      BY <3>1 DEF Units, Scans
    <3>6. lastSeen' \in [Resources -> 0..MaxScans]
      BY <2>2, <1>a, <3>5 DEF CommitUnit, StampLastSeen, TypeOK
    <3>7. /\ homeRegion' \in [Resources -> Regions \cup {NoRegion}]
          /\ live' \subseteq Resources
          /\ found' \in [Scans -> SUBSET Resources]
      BY <2>2, <1>a, <3>5 DEF CommitUnit, TypeOK
    <3>. QED
      BY <2>2, <1>a, <3>4, <3>6, <3>7 DEF CommitUnit, TypeInv, TypeOK
  <2>3. CASE FailUnit(s, g)
    <3>1. unit[s][g] \in Units /\ unit[s][g].tries < MaxTries
      BY <2>3, <1>a DEF FailUnit, TriesLeft
    <3>2. unit' = [unit EXCEPT ![s][g] = AfterFailure(unit[s][g])]
      BY <2>3 DEF FailUnit
    <3>3. unit' \in [Scans -> [Regions -> Units]] /\ TriesLeft'
      BY <3>1, <3>2, AfterFailureType, UnitUpdateType
    <3>. QED
      BY <2>3, <1>a, <3>3 DEF FailUnit, TypeInv, TypeOK, invVars
  <2>. QED
    BY <1>3, <2>1, <2>2, <2>3 DEF UnitStep
<1>4. ASSUME NEW s \in Scans, FinalizeStep(s) PROVE TypeInv'
  <2>1. UNCHANGED <<begun, scanRegions, unit, lastSeen, homeRegion, present, found, overlapped>>
    BY <1>4 DEF FinalizeStep, BeginFinalize, FinalizeWithoutRow, Enqueue, EnqueueCompliance,
                EnqueueOwnership, CommitFinalize, CrashFinalize, invVars
  <2>2. exec' \in [Scans -> ExecStates]
    BY <1>4, <1>a DEF FinalizeStep, BeginFinalize, FinalizeWithoutRow, Enqueue, EnqueueCompliance,
                EnqueueOwnership, CommitFinalize, CrashFinalize, TypeOK, ExecStates, Closing, Ended
  <2>3. row' \in [Scans -> RowStates]
    BY <1>4, <1>a DEF FinalizeStep, BeginFinalize, FinalizeWithoutRow, Enqueue, EnqueueCompliance,
                EnqueueOwnership, CommitFinalize, CrashFinalize, TypeOK, RowStates, Terminal, FinalStatus
  <2>4. live' \subseteq Resources /\ doomed' \in [Scans -> SUBSET Resources]
    BY <1>4, <1>a DEF FinalizeStep, BeginFinalize, FinalizeWithoutRow, Enqueue, EnqueueCompliance,
                EnqueueOwnership, CommitFinalize, CrashFinalize, TypeOK, Unconfirmed, invVars
  <2>5. sent' \subseteq Queues \X Scans
    BY <1>4, <1>a DEF FinalizeStep, BeginFinalize, FinalizeWithoutRow, Enqueue, EnqueueCompliance,
                EnqueueOwnership, CommitFinalize, CrashFinalize, TypeOK, Queues
  <2>. QED
    BY <1>a, <2>1, <2>2, <2>3, <2>4, <2>5 DEF TypeInv, TypeOK, TriesLeft
<1>5. ASSUME NEW regions \in SUBSET Regions, UpdateAccountRegions(regions) PROVE TypeInv'
  BY <1>5, <1>a DEF UpdateAccountRegions, TypeInv, TypeOK, TriesLeft, scanVars, invVars
<1>6. ASSUME NEW r \in Resources, NEW g \in Regions, CloudChange(r, g) PROVE TypeInv'
  BY <1>6, <1>a DEF CloudChange, TypeInv, TypeOK, TriesLeft, scanVars, invVars
<1>7. CASE UNCHANGED vars
  BY <1>7, <1>a DEF vars, TypeInv, TypeOK, TriesLeft
<1>. QED
  BY <1>1, <1>2, <1>3, <1>4, <1>5, <1>6, <1>7 DEF Next

(***************************************************************************)
(* The inductive invariants.                                               *)
(***************************************************************************)

\* An attempt is part of a running Map, and began after its scan did.
UnitInv ==
    \A s \in Scans, g \in Regions :
        unit[s][g].phase = "swept" =>
            exec[s] = "mapping" /\ s <= unit[s][g].since /\ unit[s][g].since <= begun

\* Rows and executions go together.
RowInv ==
    \A s \in Scans :
        /\ s > begun => /\ row[s] = "absent"
                        /\ exec[s] = "none"
                        /\ \A g \in Regions : unit[s][g].phase = "out"
        /\ exec[s] \in Closing => row[s] = "running"
        /\ row[s] \in Terminal => exec[s] = "done"

\* last_seen_at remembers every sighting, and every row has a stamp and a region.
StampInv ==
    \A r \in Resources :
        /\ lastSeen[r] <= begun
        /\ lastSeen[r] = 0 => homeRegion[r] = NoRegion /\ r \notin live
        /\ lastSeen[r] > 0 => homeRegion[r] \in Regions
        /\ \A s \in Scans : r \in found[s] => s <= lastSeen[r]

\* Which messages an execution has sent, stage by stage.
HandoffInv ==
    \A s \in Scans :
        /\ exec[s] \in {"none", "mapping", "swept"} => \A q \in Queues : <<q, s>> \notin sent
        /\ row[s] \in {"absent", "open", "rolledback"} => \A q \in Queues : <<q, s>> \notin sent
        /\ exec[s] \in {"swept", "half"} => CompletedRegions(s) # {}
        /\ exec[s] = "half" => <<"compliance", s>> \in sent
        /\ exec[s] = "notified" =>
              \/ CompletedRegions(s) = {} /\ \A q \in Queues : <<q, s>> \notin sent
              \/ CompletedRegions(s) # {} /\ \A q \in Queues : <<q, s>> \in sent

\* In a cloud that stands still: what a successful unit saw is stamped, and a
\* finalize is after nothing that exists where its row says.
StillInv ==
    \A r \in Resources, g \in Regions :
        <<r, g>> \in present =>
            /\ \A s \in Scans : unit[s][g].phase = "swept" => r \in unit[s][g].report
            /\ \A s \in Scans : unit[s][g].phase = "succeeded" => s <= lastSeen[r]
            /\ homeRegion[r] = g => r \in live /\ \A s \in Scans : r \notin doomed[s]

Inv == TypeInv /\ UnitInv /\ RowInv /\ StampInv /\ SweepSafe /\ HandoffInv /\ GovernanceHandoff

LEMMA InvInit == Init => Inv
<1>. SUFFICES ASSUME Init PROVE Inv
  OBVIOUS
<1>1. TypeInv
  BY TypeInit
<1>2. \A s \in Scans, g \in Regions : unit[s][g].phase = "out"
  BY DEF Init, AtRest
<1>3. UnitInv /\ RowInv
  BY <1>2 DEF Init, UnitInv, RowInv, Closing, Terminal
<1>4. StampInv /\ SweepSafe
  BY ScanAssumption DEF Init, StampInv, SweepSafe
<1>5. HandoffInv /\ GovernanceHandoff
  BY DEF Init, HandoffInv, GovernanceHandoff
<1>. QED
  BY <1>1, <1>3, <1>4, <1>5 DEF Inv

\* A unit step changes one unit of one mapping execution; a unit that is swept
\* afterwards was swept before, unless the step is SweepRegion.
LEMMA UnitStepFrame ==
    ASSUME Inv, NEW s \in Scans, NEW g \in Regions, UnitStep(s, g)
    PROVE  /\ exec[s] = "mapping"
           /\ UNCHANGED <<begun, row, exec, doomed, sent, present>>
           /\ \A t \in Scans, h \in Regions : <<t, h>> # <<s, g>> => unit'[t][h] = unit[t][h]
           /\ unit[s][g].phase \in {"queued", "swept"}
           /\ unit'[s][g].phase = "swept" => unit'[s][g].since = begun
           /\ unit'[s][g].phase # "out"
<1>a. /\ unit \in [Scans -> [Regions -> Units]]
      /\ \A t \in Scans, h \in Regions : unit[t][h].phase = "swept" => exec[t] = "mapping"
  BY DEF Inv, TypeInv, TypeOK, UnitInv
<1>1. ASSUME NEW missed \in SUBSET Supplementary, SweepRegion(s, g, missed)
      PROVE  /\ exec[s] = "mapping" /\ unit[s][g].phase = "queued"
             /\ UNCHANGED <<begun, row, exec, doomed, sent, present>>
             /\ \A t \in Scans, h \in Regions : <<t, h>> # <<s, g>> => unit'[t][h] = unit[t][h]
             /\ unit'[s][g].phase = "swept" /\ unit'[s][g].since = begun
  BY <1>1, <1>a DEF SweepRegion
<1>2. ASSUME NEW now \in Scans, NEW delivered \in BOOLEAN, CommitUnit(s, g, now, delivered)
      PROVE  /\ exec[s] = "mapping" /\ unit[s][g].phase = "swept"
             /\ UNCHANGED <<begun, row, exec, doomed, sent, present>>
             /\ \A t \in Scans, h \in Regions : <<t, h>> # <<s, g>> => unit'[t][h] = unit[t][h]
             /\ unit'[s][g].phase \in {"succeeded", "queued", "failed"}
  BY <1>2, <1>a DEF CommitUnit, AfterFailure, AtRest
<1>3. ASSUME FailUnit(s, g)
      PROVE  /\ exec[s] = "mapping" /\ unit[s][g].phase = "swept"
             /\ UNCHANGED <<begun, row, exec, doomed, sent, present>>
             /\ \A t \in Scans, h \in Regions : <<t, h>> # <<s, g>> => unit'[t][h] = unit[t][h]
             /\ unit'[s][g].phase \in {"queued", "failed"}
  BY <1>3, <1>a DEF FailUnit, AfterFailure, AtRest
<1>. QED
  BY <1>1, <1>2, <1>3 DEF UnitStep

\* A finalize step belongs to one execution: every other execution, row and
\* sweep is left alone, and no unit, stamp or sighting changes.
LEMMA FinalizeFrame ==
    ASSUME Inv, NEW s \in Scans, FinalizeStep(s)
    PROVE  /\ UNCHANGED <<begun, unit, lastSeen, homeRegion, present, found>>
           /\ \A t \in Scans \ {s} : /\ row'[t] = row[t]
                                     /\ exec'[t] = exec[t]
                                     /\ doomed'[t] = doomed[t]
                                     /\ \A q \in Queues : <<q, t>> \in sent' <=> <<q, t>> \in sent
           /\ \/ exec[s] \in Closing
              \/ exec[s] = "mapping" /\ \A g \in Regions : unit[s][g].phase # "swept"
           /\ exec[s] \in Closing => row[s] = "running"
           /\ live' \subseteq live
<1>a. /\ row \in [Scans -> RowStates]
      /\ exec \in [Scans -> ExecStates]
      /\ doomed \in [Scans -> SUBSET Resources]
      /\ exec[s] \in Closing => row[s] = "running"
  BY DEF Inv, TypeInv, TypeOK, RowInv
<1>1. CASE BeginFinalize(s)
  BY <1>1, <1>a DEF BeginFinalize, Settled, invVars
<1>2. CASE FinalizeWithoutRow(s)
  BY <1>2, <1>a DEF FinalizeWithoutRow, Settled, invVars
<1>3. CASE EnqueueCompliance(s) \/ EnqueueOwnership(s)
  BY <1>3, <1>a DEF EnqueueCompliance, EnqueueOwnership, Enqueue, Closing, invVars
<1>4. CASE CommitFinalize(s)
  BY <1>4, <1>a DEF CommitFinalize, Closing
<1>5. CASE CrashFinalize(s)
  BY <1>5, <1>a DEF CrashFinalize, invVars
<1>. QED
  BY <1>1, <1>2, <1>3, <1>4, <1>5 DEF FinalizeStep

\* StartScan takes a scan whose row, execution and units are still blank.
LEMMA StartFrame ==
    ASSUME Inv, StartScan
    PROVE  /\ begun + 1 \in Scans /\ begun' = begun + 1 /\ begun \in Nat
           /\ row[begun + 1] = "absent" /\ exec[begun + 1] = "none"
           /\ row'[begun + 1] = "open" /\ exec'[begun + 1] = "mapping"
           /\ \A g \in Regions : /\ unit[begun + 1][g].phase = "out"
                                 /\ unit'[begun + 1][g].phase \in {"out", "queued"}
           /\ \A t \in Scans \ {begun + 1} :
                 row'[t] = row[t] /\ exec'[t] = exec[t] /\ unit'[t] = unit[t]
           /\ UNCHANGED <<lastSeen, homeRegion, live, doomed, sent, present, found>>
<1>1. begun \in Nat /\ begun + 1 \in Scans /\ begun + 1 > begun
  BY ScanAssumption DEF StartScan, Inv, TypeInv, TypeOK, Scans
<1>2. /\ row[begun + 1] = "absent" /\ exec[begun + 1] = "none"
      /\ \A g \in Regions : unit[begun + 1][g].phase = "out"
  BY <1>1 DEF Inv, RowInv
<1>3. /\ row \in [Scans -> RowStates]
      /\ exec \in [Scans -> ExecStates]
      /\ unit \in [Scans -> [Regions -> Units]]
  BY DEF Inv, TypeInv, TypeOK
<1>. QED
  BY <1>1, <1>2, <1>3 DEF StartScan, AtRest, invVars

(***************************************************************************)
(* Each part of the invariant is preserved by each step.                   *)
(***************************************************************************)

LEMMA UnitInvStep == Inv /\ [Next]_vars => UnitInv'
<1>. SUFFICES ASSUME Inv, [Next]_vars PROVE UnitInv'
  OBVIOUS
<1>a. UnitInv /\ begun \in Nat /\ MaxScans \in Nat
  BY ScanAssumption DEF Inv, TypeInv, TypeOK
<1>b. \A t \in Scans, h \in Regions : unit[t][h].since \in Nat
  BY ScanAssumption DEF Inv, TypeInv, TypeOK, Units
<1>c. \A t \in Scans : exec[t] # "none" => t <= begun
  BY <1>a DEF Inv, RowInv, Scans
<1>1. CASE StartScan
  <2>. SUFFICES ASSUME NEW t \in Scans, NEW h \in Regions, unit'[t][h].phase = "swept"
                PROVE  exec'[t] = "mapping" /\ t <= unit'[t][h].since /\ unit'[t][h].since <= begun'
    BY DEF UnitInv
  <2>1. t # begun + 1
    BY <1>1, StartFrame
  <2>. QED
    BY <1>1, <2>1, <1>a, <1>b, StartFrame DEF UnitInv
<1>2. ASSUME NEW s \in Scans, StartStep(s) PROVE UnitInv'
  BY <1>2, <1>a DEF StartStep, CommitStart, RollbackStart, UnitInv
<1>3. ASSUME NEW s \in Scans, NEW g \in Regions, UnitStep(s, g) PROVE UnitInv'
  <2>. SUFFICES ASSUME NEW t \in Scans, NEW h \in Regions, unit'[t][h].phase = "swept"
                PROVE  exec'[t] = "mapping" /\ t <= unit'[t][h].since /\ unit'[t][h].since <= begun'
    BY DEF UnitInv
  <2>1. CASE <<t, h>> = <<s, g>>
    BY <1>3, <2>1, <1>a, <1>c, UnitStepFrame
  <2>2. CASE <<t, h>> # <<s, g>>
    BY <1>3, <2>2, <1>a, UnitStepFrame DEF UnitInv
  <2>. QED
    BY <2>1, <2>2
<1>4. ASSUME NEW s \in Scans, FinalizeStep(s) PROVE UnitInv'
  <2>. SUFFICES ASSUME NEW t \in Scans, NEW h \in Regions, unit[t][h].phase = "swept"
                PROVE  exec'[t] = "mapping"
    BY <1>4, <1>a, FinalizeFrame DEF UnitInv
  <2>1. t # s
    BY <1>4, <1>a, FinalizeFrame DEF UnitInv, Closing
  <2>. QED
    BY <1>4, <1>a, <2>1, FinalizeFrame DEF UnitInv
<1>5. ASSUME NEW regions \in SUBSET Regions, UpdateAccountRegions(regions) PROVE UnitInv'
  BY <1>5, <1>a DEF UpdateAccountRegions, scanVars, UnitInv
<1>6. ASSUME NEW r \in Resources, NEW g \in Regions, CloudChange(r, g) PROVE UnitInv'
  BY <1>6, <1>a DEF CloudChange, scanVars, UnitInv
<1>7. CASE UNCHANGED vars
  BY <1>7, <1>a DEF vars, UnitInv
<1>. QED
  BY <1>1, <1>2, <1>3, <1>4, <1>5, <1>6, <1>7 DEF Next

LEMMA RowInvStep == Inv /\ [Next]_vars => RowInv'
<1>. SUFFICES ASSUME Inv, [Next]_vars PROVE RowInv'
  OBVIOUS
<1>a. RowInv /\ begun \in Nat
  BY ScanAssumption DEF Inv, TypeInv, TypeOK
<1>b. row \in [Scans -> RowStates] /\ exec \in [Scans -> ExecStates]
  BY DEF Inv, TypeInv, TypeOK
<1>1. CASE StartScan
  <2>1. \A t \in Scans : t > begun' => t > begun /\ t # begun + 1
    BY <1>1, <1>a, StartFrame DEF Scans
  <2>. QED
    BY <1>1, <1>a, <2>1, StartFrame DEF RowInv, Closing, Terminal
<1>2. ASSUME NEW s \in Scans, StartStep(s) PROVE RowInv'
  BY <1>2, <1>a, <1>b DEF StartStep, CommitStart, RollbackStart, RowInv, Closing, Terminal
<1>3. ASSUME NEW s \in Scans, NEW g \in Regions, UnitStep(s, g) PROVE RowInv'
  <2>1. ~ (s > begun)
    BY <1>3, <1>a, UnitStepFrame DEF RowInv
  <2>2. \A t \in Scans : t > begun => \A h \in Regions : unit'[t][h] = unit[t][h]
    BY <1>3, <2>1, UnitStepFrame
  <2>. QED
    BY <1>3, <1>a, <2>2, UnitStepFrame DEF RowInv
<1>4. ASSUME NEW s \in Scans, FinalizeStep(s) PROVE RowInv'
  <2>1. \A t \in Scans \ {s} : row'[t] = row[t] /\ exec'[t] = exec[t]
    BY <1>4, FinalizeFrame
  <2>2. begun' = begun /\ unit' = unit
    BY <1>4, FinalizeFrame
  <2>3. ~ (s > begun)
    BY <1>4, <1>a, FinalizeFrame DEF RowInv, Closing
  <2>4. exec'[s] \in Closing => row'[s] = "running"
    BY <1>4, <1>a, <1>b DEF FinalizeStep, BeginFinalize, FinalizeWithoutRow, EnqueueCompliance,
       EnqueueOwnership, Enqueue, CommitFinalize, CrashFinalize, RowInv, Closing
  <2>5. row'[s] \in Terminal => exec'[s] = "done"
    BY <1>4, <1>a, <1>b DEF FinalizeStep, BeginFinalize, FinalizeWithoutRow, EnqueueCompliance,
       EnqueueOwnership, Enqueue, CommitFinalize, CrashFinalize, RowInv, Closing, Terminal
  <2>. QED
    BY <1>a, <2>1, <2>2, <2>3, <2>4, <2>5 DEF RowInv
<1>5. ASSUME NEW regions \in SUBSET Regions, UpdateAccountRegions(regions) PROVE RowInv'
  BY <1>5, <1>a DEF UpdateAccountRegions, scanVars, RowInv
<1>6. ASSUME NEW r \in Resources, NEW g \in Regions, CloudChange(r, g) PROVE RowInv'
  BY <1>6, <1>a DEF CloudChange, scanVars, RowInv
<1>7. CASE UNCHANGED vars
  BY <1>7, <1>a DEF vars, RowInv
<1>. QED
  BY <1>1, <1>2, <1>3, <1>4, <1>5, <1>6, <1>7 DEF Next

\* persist_unit_result never takes a stamp back or moves a row to another region,
\* and stamps everything it reports no earlier than the start of its scan.
LEMMA CommitEffect ==
    ASSUME Inv, NEW s \in Scans, NEW g \in Regions, NEW now \in Scans, NEW delivered \in BOOLEAN,
           CommitUnit(s, g, now, delivered), NEW r \in Resources
    PROVE  /\ lastSeen[r] \in Nat /\ lastSeen'[r] \in Nat
           /\ lastSeen[r] <= lastSeen'[r] /\ lastSeen'[r] <= begun
           /\ r \in unit[s][g].report => s <= lastSeen'[r]
           /\ r \notin unit[s][g].report => lastSeen'[r] = lastSeen[r]
           /\ lastSeen[r] > 0 \/ r \notin unit[s][g].report => homeRegion'[r] = homeRegion[r]
           /\ lastSeen[r] = 0 /\ r \in unit[s][g].report => homeRegion'[r] = g
           /\ r \in live' <=> r \in live \cup unit[s][g].report
           /\ \A t \in Scans : r \in found'[t] => r \in found[t] \/ (t = s /\ r \in unit[s][g].report)
<1>. DEFINE u == unit[s][g]
<1>1. /\ u.since \in Nat /\ s <= u.since /\ u.since <= begun
      /\ begun \in Nat /\ lastSeen[r] \in Nat /\ lastSeen[r] <= begun
      /\ now \in Nat /\ s \in Nat
  <2>1. u \in Units
    BY DEF Inv, TypeInv, TypeOK
  <2>. QED
    BY <2>1, ScanAssumption DEF Inv, TypeInv, TypeOK, Units, Scans, CommitUnit, UnitInv, StampInv
<1>2. lastSeen'[r] = IF r \notin u.report THEN lastSeen[r]
                     ELSE IF lastSeen[r] = 0 THEN u.since
                     ELSE IF lastSeen[r] < now THEN now ELSE lastSeen[r]
  BY DEF CommitUnit, StampLastSeen
<1>3. u.since <= now /\ now <= begun
  BY <1>1 DEF CommitUnit
<1>4. r \in u.report => s <= lastSeen'[r]
  BY <1>1, <1>2, <1>3
<1>5. /\ homeRegion'[r] = IF r \in u.report /\ lastSeen[r] = 0 THEN g ELSE homeRegion[r]
      /\ live' = live \cup u.report
      /\ found' = [found EXCEPT ![s] = @ \cup u.report]
      /\ found \in [Scans -> SUBSET Resources]
  BY DEF CommitUnit, Inv, TypeInv, TypeOK
<1>. QED
  BY <1>1, <1>2, <1>3, <1>4, <1>5

LEMMA StampInvStep == Inv /\ [Next]_vars => StampInv'
<1>. SUFFICES ASSUME Inv, [Next]_vars PROVE StampInv'
  OBVIOUS
<1>a. StampInv /\ begun \in Nat /\ lastSeen \in [Resources -> Nat]
  BY ScanAssumption DEF Inv, TypeInv, TypeOK
<1>1. CASE StartScan
  BY <1>1, <1>a, StartFrame DEF StampInv
<1>2. ASSUME NEW s \in Scans, StartStep(s) PROVE StampInv'
  BY <1>2, <1>a DEF StartStep, CommitStart, RollbackStart, invVars, StampInv
<1>3. ASSUME NEW s \in Scans, NEW g \in Regions, UnitStep(s, g) PROVE StampInv'
  <2>1. CASE UNCHANGED <<begun, lastSeen, homeRegion, live, found>>
    BY <2>1, <1>a DEF StampInv
  <2>2. ASSUME NEW now \in Scans, NEW delivered \in BOOLEAN, CommitUnit(s, g, now, delivered)
        PROVE  StampInv'
    <3>. SUFFICES ASSUME NEW r \in Resources
                  PROVE  /\ lastSeen'[r] <= begun'
                         /\ lastSeen'[r] = 0 => homeRegion'[r] = NoRegion /\ r \notin live'
                         /\ lastSeen'[r] > 0 => homeRegion'[r] \in Regions
                         /\ \A t \in Scans : r \in found'[t] => t <= lastSeen'[r]
      BY DEF StampInv
    <3>1. begun' = begun
      BY <2>2 DEF CommitUnit
    <3>2. /\ lastSeen[r] = 0 => homeRegion[r] = NoRegion /\ r \notin live
          /\ lastSeen[r] > 0 => homeRegion[r] \in Regions
          /\ \A t \in Scans : r \in found[t] => t <= lastSeen[r]
      BY <1>a DEF StampInv
    <3>3. \A t \in Scans : t \in Nat /\ t > 0
      BY ScanAssumption DEF Scans
    <3>4. r \in unit[s][g].report => s <= lastSeen'[r]
      BY <2>2, CommitEffect
    <3>5. lastSeen[r] \in Nat /\ lastSeen'[r] \in Nat /\ lastSeen[r] <= lastSeen'[r] /\ lastSeen'[r] <= begun
      BY <2>2, CommitEffect
    <3>6. r \notin unit[s][g].report => /\ lastSeen'[r] = lastSeen[r]
                                        /\ homeRegion'[r] = homeRegion[r]
                                        /\ r \in live' => r \in live
      BY <2>2, CommitEffect
    <3>7. homeRegion'[r] = homeRegion[r] \/ homeRegion'[r] = g
      BY <2>2, <3>5, CommitEffect
    <3>7a. lastSeen[r] = 0 /\ r \in unit[s][g].report => homeRegion'[r] = g
      BY <2>2, CommitEffect
    <3>8. \A t \in Scans : r \in found'[t] => r \in found[t] \/ (t = s /\ r \in unit[s][g].report)
      BY <2>2, CommitEffect
    <3>9. \A t \in Scans : r \in found'[t] => t <= lastSeen'[r]
      BY <3>2, <3>3, <3>4, <3>5, <3>8
    <3>. QED
      BY <3>1, <3>2, <3>3, <3>4, <3>5, <3>6, <3>7, <3>7a, <3>9
  <2>. QED
    BY <1>3, <2>1, <2>2 DEF UnitStep, SweepRegion, FailUnit, invVars
<1>4. ASSUME NEW s \in Scans, FinalizeStep(s) PROVE StampInv'
  BY <1>4, <1>a, FinalizeFrame DEF StampInv
<1>5. ASSUME NEW regions \in SUBSET Regions, UpdateAccountRegions(regions) PROVE StampInv'
  BY <1>5, <1>a DEF UpdateAccountRegions, scanVars, invVars, StampInv
<1>6. ASSUME NEW r \in Resources, NEW g \in Regions, CloudChange(r, g) PROVE StampInv'
  BY <1>6, <1>a DEF CloudChange, scanVars, invVars, StampInv
<1>7. CASE UNCHANGED vars
  BY <1>7, <1>a DEF vars, StampInv
<1>. QED
  BY <1>1, <1>2, <1>3, <1>4, <1>5, <1>6, <1>7 DEF Next

\* Nothing but a unit step of its own changes what a scan has completed.
LEMMA CompletedFrame ==
    ASSUME Inv, [Next]_vars, NEW t \in Scans, exec[t] \notin {"none", "mapping"}
    PROVE  CompletedRegions(t)' = CompletedRegions(t)
<1>. USE DEF CompletedRegions
<1>1. CASE StartScan
  BY <1>1, StartFrame
<1>2. ASSUME NEW s \in Scans, StartStep(s) PROVE unit' = unit
  BY <1>2 DEF StartStep, CommitStart, RollbackStart
<1>3. ASSUME NEW s \in Scans, NEW g \in Regions, UnitStep(s, g)
      PROVE  CompletedRegions(t)' = CompletedRegions(t)
  BY <1>3, UnitStepFrame
<1>4. ASSUME NEW s \in Scans, FinalizeStep(s) PROVE unit' = unit
  BY <1>4, FinalizeFrame
<1>5. ASSUME NEW regions \in SUBSET Regions, UpdateAccountRegions(regions) PROVE unit' = unit
  BY <1>5 DEF UpdateAccountRegions, scanVars
<1>6. ASSUME NEW r \in Resources, NEW g \in Regions, CloudChange(r, g) PROVE unit' = unit
  BY <1>6 DEF CloudChange, scanVars
<1>7. CASE UNCHANGED vars
  BY <1>7 DEF vars
<1>. QED
  BY <1>1, <1>2, <1>3, <1>4, <1>5, <1>6, <1>7 DEF Next

\* A sweep stays safe while other scans commit (CommitUnit), and starts safe.
LEMMA SweepSafeStep == Inv /\ [Next]_vars => SweepSafe'
<1>. SUFFICES ASSUME Inv, [Next]_vars PROVE SweepSafe'
  OBVIOUS
<1>. SUFFICES ASSUME NEW t \in Scans, NEW r \in Resources, r \in doomed'[t]
              PROVE  /\ exec'[t] \in Closing
                     /\ r \notin found'[t]
                     /\ homeRegion'[r] \in CompletedRegions(t)'
  <2>1. TypeInv'
    BY TypeStep DEF Inv
  <2>. QED
    BY <2>1 DEF SweepSafe, TypeInv, TypeOK, CompletedRegions, Closing
<1>a. /\ SweepSafe /\ doomed \in [Scans -> SUBSET Resources]
      /\ exec \in [Scans -> ExecStates]
      /\ lastSeen[r] \in Nat /\ NoRegion \notin Regions
  BY ScanAssumption DEF Inv, TypeInv, TypeOK
\* Whatever was doomed before has a row, in a region that stays completed.
<1>b. ASSUME r \in doomed[t]
      PROVE  /\ exec[t] \in Closing /\ r \notin found[t]
             /\ homeRegion[r] \in CompletedRegions(t)'
             /\ lastSeen[r] > 0
  <2>1. exec[t] \in Closing /\ r \notin found[t] /\ homeRegion[r] \in CompletedRegions(t)
    BY <1>a, <1>b DEF SweepSafe
  <2>2. homeRegion[r] \in CompletedRegions(t)'
    BY <2>1, CompletedFrame DEF Closing
  <2>3. homeRegion[r] # NoRegion
    BY <1>a, <2>1 DEF CompletedRegions
  <2>. QED
    BY <1>a, <2>1, <2>2, <2>3 DEF Inv, StampInv
<1>1. CASE StartScan
  BY <1>1, <1>b, StartFrame DEF Closing
<1>2. ASSUME NEW s \in Scans, StartStep(s)
      PROVE  UNCHANGED <<exec, found, homeRegion, doomed>>
  BY <1>2 DEF StartStep, CommitStart, RollbackStart, invVars
<1>3. ASSUME NEW s \in Scans, NEW g \in Regions, UnitStep(s, g)
      PROVE  exec'[t] \in Closing /\ r \notin found'[t] /\ homeRegion'[r] \in CompletedRegions(t)'
  <2>1. exec[s] = "mapping" /\ UNCHANGED <<exec, doomed>>
    BY <1>3, UnitStepFrame
  <2>2. t # s
    BY <2>1, <1>b DEF Closing
  <2>3. CASE UNCHANGED <<homeRegion, found>>
    BY <2>1, <2>3, <1>b
  <2>4. ASSUME NEW now \in Scans, NEW delivered \in BOOLEAN, CommitUnit(s, g, now, delivered)
        PROVE  r \notin found'[t] /\ homeRegion'[r] = homeRegion[r]
    BY <2>1, <2>2, <2>4, <1>b, CommitEffect
  <2>. QED
    BY <1>3, <2>1, <2>3, <2>4, <1>b DEF UnitStep, SweepRegion, FailUnit, invVars
<1>4. ASSUME NEW s \in Scans, FinalizeStep(s)
      PROVE  exec'[t] \in Closing /\ r \notin found'[t] /\ homeRegion'[r] \in CompletedRegions(t)'
  <2>1. UNCHANGED <<unit, homeRegion, found>>
    BY <1>4, FinalizeFrame
  <2>2. CASE t # s
    BY <1>4, <2>1, <2>2, <1>b, FinalizeFrame
  <2>3. CASE t = s /\ BeginFinalize(s)
    <3>1. exec'[t] \in Closing /\ r \in Unconfirmed(t)
      BY <2>3, <1>a DEF BeginFinalize, Closing
    <3>2. homeRegion[r] \in CompletedRegions(t) /\ lastSeen[r] < t
      BY <3>1 DEF Unconfirmed
    <3>3. r \notin found[t]
      BY <3>2, <1>a DEF Inv, StampInv, Scans
    <3>. QED
      BY <2>1, <3>1, <3>2, <3>3 DEF CompletedRegions
  <2>4. CASE t = s /\ ~BeginFinalize(s)
    <3>1. r \in doomed[t] /\ exec'[t] \in Closing
      BY <1>4, <2>4, <1>a, <1>b DEF FinalizeStep, FinalizeWithoutRow, EnqueueCompliance,
         EnqueueOwnership, Enqueue, CommitFinalize, CrashFinalize, Closing
    <3>. QED
      BY <2>1, <3>1, <1>b
  <2>. QED
    BY <2>2, <2>3, <2>4
<1>5. ASSUME NEW regions \in SUBSET Regions, UpdateAccountRegions(regions)
      PROVE  UNCHANGED <<exec, found, homeRegion, doomed>>
  BY <1>5 DEF UpdateAccountRegions, scanVars, invVars
<1>6. ASSUME NEW q \in Resources, NEW g \in Regions, CloudChange(q, g)
      PROVE  UNCHANGED <<exec, found, homeRegion, doomed>>
  BY <1>6 DEF CloudChange, scanVars, invVars
<1>7. CASE UNCHANGED vars
  BY <1>7, <1>b DEF vars
<1>8. CASE UNCHANGED <<exec, found, homeRegion, doomed>>
  BY <1>8, <1>b
<1>. QED
  BY <1>1, <1>2, <1>3, <1>4, <1>5, <1>6, <1>7, <1>8 DEF Next

\* The messages of an execution, followed from stage to stage; the case that
\* matters is FinalizeStep, and in it the commit.
LEMMA HandoffStep == Inv /\ [Next]_vars => HandoffInv' /\ GovernanceHandoff'
<1>. SUFFICES ASSUME Inv, [Next]_vars, NEW t \in Scans
              PROVE  /\ exec'[t] \in {"none", "mapping", "swept"} => \A q \in Queues : <<q, t>> \notin sent'
                     /\ row'[t] \in {"absent", "open", "rolledback"} => \A q \in Queues : <<q, t>> \notin sent'
                     /\ exec'[t] \in {"swept", "half"} => CompletedRegions(t)' # {}
                     /\ exec'[t] = "half" => <<"compliance", t>> \in sent'
                     /\ exec'[t] = "notified" =>
                           \/ CompletedRegions(t)' = {} /\ \A q \in Queues : <<q, t>> \notin sent'
                           \/ CompletedRegions(t)' # {} /\ \A q \in Queues : <<q, t>> \in sent'
                     /\ row'[t] \in {"succeeded", "partial"} => \A q \in Queues : <<q, t>> \in sent'
                     /\ row'[t] \in {"failed", "rolledback"} => \A q \in Queues : <<q, t>> \notin sent'
  BY DEF HandoffInv, GovernanceHandoff
<1>a. /\ exec[t] \in {"none", "mapping", "swept"} => \A q \in Queues : <<q, t>> \notin sent
      /\ row[t] \in {"absent", "open", "rolledback"} => \A q \in Queues : <<q, t>> \notin sent
      /\ exec[t] \in {"swept", "half"} => CompletedRegions(t) # {}
      /\ exec[t] = "half" => <<"compliance", t>> \in sent
      /\ exec[t] = "notified" =>
            \/ CompletedRegions(t) = {} /\ \A q \in Queues : <<q, t>> \notin sent
            \/ CompletedRegions(t) # {} /\ \A q \in Queues : <<q, t>> \in sent
      /\ row[t] \in {"succeeded", "partial"} => \A q \in Queues : <<q, t>> \in sent
      /\ row[t] \in {"failed", "rolledback"} => \A q \in Queues : <<q, t>> \notin sent
  BY DEF Inv, HandoffInv, GovernanceHandoff
<1>b. row \in [Scans -> RowStates] /\ exec \in [Scans -> ExecStates]
  BY DEF Inv, TypeInv, TypeOK
<1>c. exec[t] \notin {"none", "mapping"} => CompletedRegions(t)' = CompletedRegions(t)
  BY CompletedFrame
<1>1. CASE row'[t] = row[t] /\ exec'[t] = exec[t] /\ \A q \in Queues : <<q, t>> \in sent' <=> <<q, t>> \in sent
  BY <1>1, <1>a, <1>c DEF Queues
<1>2. CASE StartScan
  <2>1. CASE t = begun + 1
    BY <1>2, <2>1, <1>a, StartFrame
  <2>2. CASE t # begun + 1
    BY <1>1, <1>2, <2>2, StartFrame
  <2>. QED
    BY <2>1, <2>2
<1>3. ASSUME NEW s \in Scans, StartStep(s), t = s
      PROVE  /\ exec'[t] = exec[t] /\ sent' = sent /\ row[t] = "open"
             /\ row'[t] \in {"running", "rolledback"}
  BY <1>3, <1>b DEF StartStep, CommitStart, RollbackStart
<1>4. ASSUME NEW s \in Scans, StartStep(s), t # s
      PROVE  row'[t] = row[t] /\ exec'[t] = exec[t] /\ sent' = sent
  BY <1>4, <1>b DEF StartStep, CommitStart, RollbackStart
<1>5. ASSUME NEW s \in Scans, NEW g \in Regions, UnitStep(s, g)
      PROVE  row'[t] = row[t] /\ exec'[t] = exec[t] /\ sent' = sent
  BY <1>5, UnitStepFrame
<1>6. ASSUME NEW s \in Scans, FinalizeStep(s), t # s
      PROVE  /\ row'[t] = row[t] /\ exec'[t] = exec[t]
             /\ \A q \in Queues : <<q, t>> \in sent' <=> <<q, t>> \in sent
  BY <1>6, FinalizeFrame
<1>7. CASE FinalizeStep(t)
  <2>a. /\ CompletedRegions(t)' = CompletedRegions(t)
        /\ exec[t] \in Closing => row[t] = "running"
    BY <1>7, FinalizeFrame DEF CompletedRegions
  <2>1. CASE BeginFinalize(t)
    BY <2>1, <2>a, <1>a, <1>b DEF BeginFinalize, FinalStatus
  <2>2. CASE FinalizeWithoutRow(t)
    BY <2>2, <2>a, <1>a, <1>b DEF FinalizeWithoutRow
  <2>3. CASE EnqueueCompliance(t)
    <3>1. /\ exec[t] = "swept" /\ exec'[t] = "half" /\ row' = row /\ row[t] = "running"
          /\ <<"compliance", t>> \in sent'
      BY <2>3, <2>a, <1>b DEF EnqueueCompliance, Enqueue, Closing
    <3>. QED
      BY <3>1, <2>a, <1>a
  <2>4. CASE EnqueueOwnership(t)
    <3>1. /\ exec[t] = "half" /\ exec'[t] = "notified" /\ row' = row /\ row[t] = "running"
          /\ <<"compliance", t>> \in sent' /\ <<"ownership", t>> \in sent'
      BY <2>4, <2>a, <1>a, <1>b DEF EnqueueOwnership, Enqueue, Closing
    <3>. QED
      BY <3>1, <2>a, <1>a DEF Queues
  <2>5. CASE CommitFinalize(t)
    <3>1. /\ exec[t] = "notified" /\ exec'[t] = "done" /\ sent' = sent
          /\ row'[t] = FinalStatus(t)
      BY <2>5, <1>b DEF CommitFinalize
    <3>2. CASE CompletedRegions(t) = {}
      BY <3>1, <3>2, <1>a DEF FinalStatus
    <3>3. CASE CompletedRegions(t) # {}
      BY <3>1, <3>3, <1>a DEF FinalStatus
    <3>. QED
      BY <3>2, <3>3
  <2>6. CASE CrashFinalize(t)
    BY <2>6, <2>a, <1>a, <1>b DEF CrashFinalize
  <2>. QED
    BY <1>7, <2>1, <2>2, <2>3, <2>4, <2>5, <2>6 DEF FinalizeStep
<1>8. ASSUME NEW regions \in SUBSET Regions, UpdateAccountRegions(regions)
      PROVE  row' = row /\ exec' = exec /\ sent' = sent
  BY <1>8 DEF UpdateAccountRegions, scanVars
<1>9. ASSUME NEW r \in Resources, NEW g \in Regions, CloudChange(r, g)
      PROVE  row' = row /\ exec' = exec /\ sent' = sent
  BY <1>9 DEF CloudChange, scanVars
<1>10. CASE UNCHANGED vars
  BY <1>1, <1>10 DEF vars
<1>11. ASSUME NEW s \in Scans, StartStep(s), t = s
       PROVE  row[t] \in {"absent", "open", "rolledback"} /\ CompletedRegions(t)' = CompletedRegions(t)
  BY <1>11, <1>3 DEF StartStep, CommitStart, RollbackStart, CompletedRegions
<1>12. CASE \E s \in Scans : StartStep(s)
  <2>1. CASE StartStep(t)
    BY <2>1, <1>3, <1>11, <1>a
  <2>2. CASE ~StartStep(t)
    BY <2>2, <1>1, <1>4, <1>12
  <2>. QED
    BY <2>1, <2>2
<1>13. CASE \E s \in Scans : FinalizeStep(s)
  BY <1>1, <1>6, <1>7, <1>13
<1>14. CASE \E s \in Scans, g \in Regions : UnitStep(s, g)
  BY <1>1, <1>5, <1>14
<1>15. CASE \E regions \in SUBSET Regions : UpdateAccountRegions(regions)
  BY <1>1, <1>8, <1>15
<1>16. CASE \E r \in Resources, g \in Regions : CloudChange(r, g)
  BY <1>1, <1>9, <1>16
<1>. QED
  BY <1>2, <1>10, <1>12, <1>13, <1>14, <1>15, <1>16 DEF Next

LEMMA InvStep == Inv /\ [Next]_vars => Inv'
BY TypeStep, UnitInvStep, RowInvStep, StampInvStep, SweepSafeStep, HandoffStep DEF Inv

LEMMA Invariance == Spec => []Inv
BY InvInit, InvStep, PTL DEF Spec

(***************************************************************************)
(* The theorems.                                                           *)
(***************************************************************************)

\* Every variable keeps its type: no unit of scan_workflow.asl.json is tried more
\* than MaxTries times, and no scan row leaves its life cycle.
THEOREM TypeCorrect == Spec => []TypeOK
<1>1. Inv => TypeOK
  BY DEF Inv, TypeInv
<1>. QED
  BY Invariance, <1>1, PTL

\* A finalize in flight never dooms a resource its own scan found, nor one of a
\* region the scan did not complete (sweep_deleted_resources).
THEOREM SweepCorrect == Spec => []SweepSafe
<1>1. Inv => SweepSafe
  BY DEF Inv
<1>. QED
  BY Invariance, <1>1, PTL

\* Wherever finalize_scan crashes, the recorded status of a scan tells which
\* governance messages were sent (_enqueue_governance_messages).
THEOREM HandoffCorrect == Spec => []GovernanceHandoff
<1>1. Inv => GovernanceHandoff
  BY DEF Inv
<1>. QED
  BY Invariance, <1>1, PTL

(***************************************************************************)
(* The refinement of InventoryContract: a commit of a unit is a Confirm,   *)
(* the commit of a finalize is a Close, every other step stutters.         *)
(***************************************************************************)

CoveredPairs == {p \in Scans \X Regions : unit[p[1]][p[2]].phase = "succeeded"}
ClosedScans == {s \in Scans : exec[s] = "done"}

\* A step that completes no unit and ends no execution well covers and closes
\* nothing new.
LEMMA AbstractFrame ==
    ASSUME \A s \in Scans, g \in Regions :
              unit'[s][g].phase = "succeeded" <=> unit[s][g].phase = "succeeded",
           \A s \in Scans : exec'[s] = "done" <=> exec[s] = "done",
           UNCHANGED <<homeRegion, live, found>>
    PROVE  UNCHANGED Contract!contractVars
<1>1. \A p \in Scans \X Regions : p[1] \in Scans /\ p[2] \in Regions
  OBVIOUS
<1>2. CoveredPairs' = CoveredPairs
  BY <1>1 DEF CoveredPairs
<1>3. ClosedScans' = ClosedScans
  BY DEF ClosedScans
<1>. QED
  BY <1>2, <1>3 DEF Contract!contractVars, CoveredPairs, ClosedScans

LEMMA ContractInit == Init => Contract!Init
<1>. SUFFICES ASSUME Init PROVE Contract!Init
  OBVIOUS
<1>1. \A p \in Scans \X Regions : unit[p[1]][p[2]].phase = "out"
  BY DEF Init, AtRest
<1>. QED
  BY <1>1 DEF Init, Contract!Init

LEMMA ContractCommitUnit ==
    ASSUME Inv, NEW s \in Scans, NEW g \in Regions, NEW now \in Scans, NEW delivered \in BOOLEAN,
           CommitUnit(s, g, now, delivered)
    PROVE  Contract!Next
<1>. DEFINE R == unit[s][g].report
<1>1. UnitStep(s, g) /\ unit[s][g].phase = "swept"
  BY DEF UnitStep, CommitUnit
<1>2. /\ exec[s] = "mapping" /\ exec' = exec
      /\ \A t \in Scans, h \in Regions : <<t, h>> # <<s, g>> => unit'[t][h] = unit[t][h]
  BY <1>1, UnitStepFrame
<1>3. unit'[s][g].phase = "succeeded" <=> delivered
  BY DEF CommitUnit, AfterFailure, AtRest, Inv, TypeInv, TypeOK
<1>4. CoveredPairs' = IF delivered THEN CoveredPairs \cup {<<s, g>>} ELSE CoveredPairs
  <2>1. \A p \in Scans \X Regions :
           p \in CoveredPairs' <=> p \in CoveredPairs \/ (delivered /\ p = <<s, g>>)
    <3>. SUFFICES ASSUME NEW p \in Scans \X Regions
                  PROVE  unit'[p[1]][p[2]].phase = "succeeded"
                           <=> unit[p[1]][p[2]].phase = "succeeded" \/ (delivered /\ p = <<s, g>>)
      BY DEF CoveredPairs
    <3>1. p[1] \in Scans /\ p[2] \in Regions /\ p = <<p[1], p[2]>>
      OBVIOUS
    <3>2. CASE p = <<s, g>>
      BY <3>2, <1>1, <1>3
    <3>3. CASE p # <<s, g>>
      BY <3>1, <3>3, <1>2
    <3>. QED
      BY <3>2, <3>3
  <2>2. CoveredPairs \subseteq Scans \X Regions /\ CoveredPairs' \subseteq Scans \X Regions
    BY DEF CoveredPairs
  <2>. QED
    BY <2>1, <2>2
<1>5. ClosedScans' = ClosedScans /\ s \notin ClosedScans
  BY <1>2 DEF ClosedScans
<1>6. R \subseteq Resources
  BY DEF Inv, TypeInv, TypeOK, Units
<1>7. homeRegion' = [r \in Resources |-> IF r \in R /\ homeRegion[r] = NoRegion THEN g ELSE homeRegion[r]]
  <2>1. \A r \in Resources : lastSeen[r] = 0 <=> homeRegion[r] = NoRegion
    BY ScanAssumption DEF Inv, TypeInv, TypeOK, StampInv
  <2>. QED
    BY <2>1 DEF CommitUnit
<1>8. live' = live \cup R /\ found' = [found EXCEPT ![s] = @ \cup R]
  BY DEF CommitUnit
<1>9. Contract!Confirm(s, g, R, delivered)
  BY <1>4, <1>5, <1>7, <1>8 DEF Contract!Confirm, CoveredPairs, ClosedScans
<1>. QED
  BY <1>6, <1>9 DEF Contract!Next

\* Another scan may have closed part of what is doomed meanwhile.
LEMMA ContractCommitFinalize ==
    ASSUME Inv, NEW s \in Scans, CommitFinalize(s)
    PROVE  Contract!Next
<1>. DEFINE D == doomed[s] \cap live
<1>1. /\ exec[s] = "notified" /\ unit' = unit /\ homeRegion' = homeRegion /\ found' = found
      /\ live' = live \ D
  BY DEF CommitFinalize
<1>2. ClosedScans' = ClosedScans \cup {s} /\ s \notin ClosedScans
  BY DEF CommitFinalize, ClosedScans, Inv, TypeInv, TypeOK
<1>3. CoveredPairs' = CoveredPairs
  BY <1>1 DEF CoveredPairs
<1>4. D \subseteq Resources /\ D \subseteq live \ found[s]
  BY DEF Inv, TypeInv, TypeOK, SweepSafe
<1>5. \A r \in D : <<s, homeRegion[r]>> \in CoveredPairs
  BY DEF Inv, SweepSafe, CoveredPairs, CompletedRegions
<1>6. Contract!Close(s, D)
  BY <1>1, <1>2, <1>3, <1>4, <1>5 DEF Contract!Close, CoveredPairs, ClosedScans
<1>7. \E X \in SUBSET Resources : Contract!Close(s, X)
  <2>1. D \in SUBSET Resources
    BY <1>4
  <2>. QED
    BY <2>1, <1>6 DEF Contract!Close
<1>. QED
  BY <1>7 DEF Contract!Next

LEMMA ContractStep == Inv /\ [Next]_vars => [Contract!Next]_(Contract!contractVars)
<1>. SUFFICES ASSUME Inv, [Next]_vars PROVE Contract!Next \/ UNCHANGED Contract!contractVars
  OBVIOUS
<1>a. exec \in [Scans -> ExecStates]
  BY DEF Inv, TypeInv, TypeOK
<1>1. CASE StartScan
  <2>1. \A s \in Scans, g \in Regions :
           unit'[s][g].phase = "succeeded" <=> unit[s][g].phase = "succeeded"
    BY <1>1, StartFrame
  <2>2. \A s \in Scans : exec'[s] = "done" <=> exec[s] = "done"
    BY <1>1, StartFrame
  <2>. QED
    BY <1>1, <2>1, <2>2, StartFrame, AbstractFrame
<1>2. ASSUME NEW s \in Scans, StartStep(s) PROVE UNCHANGED Contract!contractVars
  BY <1>2, AbstractFrame DEF StartStep, CommitStart, RollbackStart, invVars
<1>3. ASSUME NEW s \in Scans, NEW g \in Regions, UnitStep(s, g)
      PROVE  Contract!Next \/ UNCHANGED Contract!contractVars
  <2>1. ASSUME NEW now \in Scans, NEW delivered \in BOOLEAN, CommitUnit(s, g, now, delivered)
        PROVE  Contract!Next
    BY <2>1, ContractCommitUnit
  <2>2. ASSUME FailUnit(s, g) \/ \E missed \in SUBSET Supplementary : SweepRegion(s, g, missed)
        PROVE  UNCHANGED Contract!contractVars
    <3>1. unit[s][g].phase # "succeeded" /\ unit'[s][g].phase # "succeeded"
      BY <2>2 DEF SweepRegion, FailUnit, AfterFailure, AtRest, Inv, TypeInv, TypeOK
    <3>2. \A t \in Scans, h \in Regions :
             unit'[t][h].phase = "succeeded" <=> unit[t][h].phase = "succeeded"
      BY <1>3, <3>1, UnitStepFrame
    <3>3. exec' = exec /\ UNCHANGED <<homeRegion, live, found>>
      BY <2>2 DEF SweepRegion, FailUnit, invVars
    <3>. QED
      BY <3>2, <3>3, AbstractFrame
  <2>. QED
    BY <1>3, <2>1, <2>2 DEF UnitStep
<1>4. ASSUME NEW s \in Scans, FinalizeStep(s)
      PROVE  Contract!Next \/ UNCHANGED Contract!contractVars
  <2>1. CASE CommitFinalize(s)
    BY <2>1, ContractCommitFinalize
  <2>2. CASE ~CommitFinalize(s)
    <3>1. exec[s] # "done" /\ exec'[s] # "done" /\ live' = live
      BY <1>4, <2>2, <1>a DEF FinalizeStep, BeginFinalize, FinalizeWithoutRow, EnqueueCompliance,
         EnqueueOwnership, Enqueue, CrashFinalize, Closing, invVars
    <3>2. \A t \in Scans : exec'[t] = "done" <=> exec[t] = "done"
      BY <1>4, <3>1, FinalizeFrame
    <3>3. UNCHANGED <<unit, homeRegion, found>>
      BY <1>4, FinalizeFrame
    <3>. QED
      BY <3>1, <3>2, <3>3, AbstractFrame
  <2>. QED
    BY <2>1, <2>2
<1>5. ASSUME NEW regions \in SUBSET Regions, UpdateAccountRegions(regions)
      PROVE  UNCHANGED Contract!contractVars
  BY <1>5, AbstractFrame DEF UpdateAccountRegions, scanVars, invVars
<1>6. ASSUME NEW r \in Resources, NEW g \in Regions, CloudChange(r, g)
      PROVE  UNCHANGED Contract!contractVars
  BY <1>6, AbstractFrame DEF CloudChange, scanVars, invVars
<1>7. CASE UNCHANGED vars
  BY <1>7, AbstractFrame DEF vars
<1>. QED
  BY <1>1, <1>2, <1>3, <1>4, <1>5, <1>6, <1>7 DEF Next

\* persist_unit_result and sweep_deleted_resources, with every retry, lost result,
\* crash and overlap of scans, implement InventoryContract.
THEOREM InventoryRefinement == Spec => ImplementsContract
BY Invariance, ContractInit, ContractStep, PTL DEF Spec, ImplementsContract, Contract!Spec

(***************************************************************************)
(* The converse of safety: what a scan that met no other one leaves live.  *)
(***************************************************************************)

\* A scan that is alive and has met no other one.
Alone(s) == Alive(s) /\ s \notin overlapped

\* While a scan is alone nobody else stamps, revives or sweeps a row: the clock is
\* its own, what is stamped since it began is what it found, all of that is live, and
\* the sweep it computed stays what it would compute now.
MirrorInv ==
    \A s \in Scans : Alone(s) =>
        /\ begun = s
        /\ \A t \in Scans \ {s} : ~Alive(t)
        /\ \A r \in Resources : s <= lastSeen[r] => r \in found[s]
        /\ found[s] \subseteq live
        /\ exec[s] \in Closing => doomed[s] = Unconfirmed(s)

\* A step that starts nothing and lets nothing come alive keeps MirrorInv when it
\* leaves the inventory and the sweep alone.
LEMMA MirrorFrame ==
    ASSUME MirrorInv, \A s \in Scans : Alive(s)' => Alive(s),
           UNCHANGED <<begun, overlapped, lastSeen, homeRegion, live, found>>,
           \A s \in Scans : exec'[s] \in Closing =>
               /\ exec[s] \in Closing /\ doomed'[s] = doomed[s]
               /\ CompletedRegions(s)' = CompletedRegions(s)
    PROVE  MirrorInv'
<1>1. \A s \in Scans : Alone(s)' => Alone(s)
  BY DEF Alone
<1>2. \A s \in Scans : exec'[s] \in Closing => Unconfirmed(s)' = Unconfirmed(s)
  BY DEF Unconfirmed
<1>. QED
  BY <1>1, <1>2 DEF MirrorInv

LEMMA MirrorStart ==
    ASSUME Inv, MirrorInv, StartScan
    PROVE  MirrorInv'
<1>. SUFFICES ASSUME NEW s \in Scans, Alone(s)'
              PROVE  /\ begun' = s
                     /\ \A t \in Scans \ {s} : ~Alive(t)'
                     /\ \A r \in Resources : s <= lastSeen'[r] => r \in found'[s]
                     /\ found'[s] \subseteq live'
                     /\ exec'[s] \in Closing => doomed'[s] = Unconfirmed(s)'
  BY DEF MirrorInv
<1>1. {t \in Scans : Alive(t)} = {} /\ s = begun + 1
  <2>1. s = begun + 1 \/ (Alive(s)' <=> Alive(s))
    BY StartFrame DEF Alive
  <2>. DEFINE others == {t \in Scans : Alive(t)}
  <2>2. overlapped' = IF others = {} THEN overlapped ELSE overlapped \cup others \cup {begun + 1}
    BY DEF StartScan
  <2>3. s \notin overlapped' /\ Alive(s)'
    BY DEF Alone
  <2>4. others = {}
    BY <2>1, <2>2, <2>3
  <2>. QED
    BY <2>1, <2>3, <2>4
<1>2. \A t \in Scans \ {s} : ~Alive(t)'
  <2>1. \A t \in Scans \ {s} : Alive(t)' <=> Alive(t)
    BY <1>1, StartFrame DEF Alive
  <2>2. \A t \in Scans : ~Alive(t)
    BY <1>1
  <2>. QED
    BY <2>1, <2>2
<1>3. \A r \in Resources : lastSeen[r] \in Nat /\ lastSeen[r] <= begun
  <2>1. lastSeen \in [Resources -> 0..MaxScans]
    BY DEF Inv, TypeInv, TypeOK
  <2>2. \A r \in Resources : lastSeen[r] <= begun
    BY DEF Inv, StampInv
  <2>. QED
    BY <2>1, <2>2, ScanAssumption
<1>4. \A r \in Resources : ~(s <= lastSeen[r])
  BY <1>1, <1>3, StartFrame
<1>5. found[s] = {}
  <2>1. found[s] \subseteq Resources
    BY DEF Inv, TypeInv, TypeOK
  <2>. QED
    BY <1>4, <2>1 DEF Inv, StampInv
<1>. QED
  BY <1>1, <1>2, <1>4, <1>5, StartFrame DEF Closing

\* A unit that commits is one of the scan that is alone.
LEMMA MirrorCommitUnit ==
    ASSUME Inv, MirrorInv, NEW u \in Scans, NEW g \in Regions, NEW now \in Scans,
           NEW delivered \in BOOLEAN, CommitUnit(u, g, now, delivered)
    PROVE  MirrorInv'
<1>. SUFFICES ASSUME NEW s \in Scans, Alone(s)'
              PROVE  /\ begun' = s
                     /\ \A t \in Scans \ {s} : ~Alive(t)'
                     /\ \A r \in Resources : s <= lastSeen'[r] => r \in found'[s]
                     /\ found'[s] \subseteq live'
                     /\ exec'[s] \in Closing => doomed'[s] = Unconfirmed(s)'
  BY DEF MirrorInv
<1>1. UNCHANGED <<begun, row, exec, doomed, overlapped>> /\ exec[u] = "mapping"
  BY DEF CommitUnit, Inv, UnitInv
<1>2. Alone(s) /\ Alive(u)
  BY <1>1 DEF Alone, Alive, Ended
<1>3. s = u /\ begun = s /\ \A t \in Scans \ {s} : ~Alive(t)
  BY <1>2 DEF MirrorInv
<1>4. /\ found'[s] = found[s] \cup unit[s][g].report /\ live' = live \cup unit[s][g].report
  BY <1>3 DEF CommitUnit, Inv, TypeInv, TypeOK
<1>5. ASSUME NEW r \in Resources, s <= lastSeen'[r] PROVE r \in found'[s]
  <2>1. r \notin unit[s][g].report => lastSeen'[r] = lastSeen[r]
    BY <1>3, CommitEffect
  <2>. QED
    BY <1>2, <1>4, <1>5, <2>1 DEF MirrorInv
<1>6. found[s] \subseteq live
  BY <1>2 DEF MirrorInv
<1>7. \A t \in Scans \ {s} : ~Alive(t)'
  BY <1>1, <1>3 DEF Alive
<1>. QED
  BY <1>1, <1>3, <1>4, <1>5, <1>6, <1>7 DEF Closing

LEMMA MirrorFinalize ==
    ASSUME Inv, MirrorInv, NEW u \in Scans, FinalizeStep(u)
    PROVE  MirrorInv'
<1>. SUFFICES ASSUME NEW s \in Scans, Alone(s)'
              PROVE  /\ begun' = s
                     /\ \A t \in Scans \ {s} : ~Alive(t)'
                     /\ \A r \in Resources : s <= lastSeen'[r] => r \in found'[s]
                     /\ found'[s] \subseteq live'
                     /\ exec'[s] \in Closing => doomed'[s] = Unconfirmed(s)'
  BY DEF MirrorInv
<1>a. /\ row \in [Scans -> RowStates] /\ exec \in [Scans -> ExecStates]
      /\ doomed \in [Scans -> SUBSET Resources]
      /\ exec[u] \in Closing => row[u] = "running"
  BY DEF Inv, TypeInv, TypeOK, RowInv
<1>1. /\ UNCHANGED <<begun, unit, lastSeen, homeRegion, found>>
      /\ \A t \in Scans \ {u} : row'[t] = row[t] /\ exec'[t] = exec[t]
      /\ Alive(u)
  BY FinalizeFrame DEF Alive, Ended, Closing
<1>2. overlapped' = overlapped
  BY DEF FinalizeStep, BeginFinalize, FinalizeWithoutRow, Enqueue, EnqueueCompliance,
         EnqueueOwnership, CommitFinalize, CrashFinalize, invVars
<1>3. Alone(s)
  BY <1>1, <1>2 DEF Alone, Alive
<1>4. s = u /\ begun = s /\ \A t \in Scans \ {s} : ~Alive(t)
  BY <1>1, <1>3 DEF MirrorInv
<1>5. /\ \A r \in Resources : s <= lastSeen[r] => r \in found[s]
      /\ found[s] \subseteq live
      /\ exec[s] \in Closing => doomed[s] = Unconfirmed(s)
  BY <1>3 DEF MirrorInv
<1>6. \A t \in Scans \ {s} : ~Alive(t)'
  BY <1>1, <1>4 DEF Alive
<1>7. ~CommitFinalize(s) /\ ~CrashFinalize(s)
  <2>1. Alive(s)'
    BY DEF Alone
  <2>2. CommitFinalize(s) => row'[s] = FinalStatus(s) /\ exec'[s] = "done"
    BY <1>a DEF CommitFinalize
  <2>3. CrashFinalize(s) => row'[s] = "running" /\ exec'[s] = "aborted"
    BY <1>a, <1>4 DEF CrashFinalize
  <2>. QED
    BY <2>1, <2>2, <2>3 DEF Alive, Ended, FinalStatus
<1>8. live' = live
  BY <1>4, <1>7 DEF FinalizeStep, BeginFinalize, FinalizeWithoutRow, Enqueue, EnqueueCompliance,
         EnqueueOwnership, invVars
<1>9. Unconfirmed(s)' = Unconfirmed(s)
  BY <1>1, <1>8 DEF Unconfirmed, CompletedRegions
<1>10. exec'[s] \in Closing => doomed'[s] = Unconfirmed(s)
  BY <1>4, <1>5, <1>7, <1>a DEF FinalizeStep, BeginFinalize, FinalizeWithoutRow, Enqueue,
     EnqueueCompliance, EnqueueOwnership, Closing
<1>. QED
  BY <1>1, <1>4, <1>5, <1>6, <1>8, <1>9, <1>10

LEMMA MirrorStep == Inv /\ MirrorInv /\ [Next]_vars => MirrorInv'
<1>. SUFFICES ASSUME Inv, MirrorInv, [Next]_vars PROVE MirrorInv'
  OBVIOUS
<1>a. row \in [Scans -> RowStates]
  BY DEF Inv, TypeInv, TypeOK
<1>1. ASSUME NEW s \in Scans, StartStep(s) PROVE MirrorInv'
  <2>1. \A t \in Scans : Alive(t)' => Alive(t)
    BY <1>1, <1>a DEF StartStep, CommitStart, RollbackStart, Alive
  <2>2. UNCHANGED <<begun, overlapped, exec, unit, doomed, lastSeen, homeRegion, live, found>>
    BY <1>1 DEF StartStep, CommitStart, RollbackStart, invVars
  <2>. QED
    BY <2>1, <2>2, MirrorFrame DEF CompletedRegions
<1>2. ASSUME NEW s \in Scans, NEW g \in Regions, UnitStep(s, g),
             UNCHANGED <<overlapped, lastSeen, homeRegion, live, found>>
      PROVE  MirrorInv'
  <2>1. exec[s] = "mapping" /\ UNCHANGED <<begun, row, exec, doomed>>
    BY <1>2, UnitStepFrame
  <2>2. \A t \in Scans : exec[t] \in Closing => CompletedRegions(t)' = CompletedRegions(t)
    BY CompletedFrame DEF Closing
  <2>. QED
    BY <1>2, <2>1, <2>2, MirrorFrame DEF Alive
<1>3. ASSUME NEW s \in Scans, NEW g \in Regions, UnitStep(s, g) PROVE MirrorInv'
  BY <1>2, <1>3, MirrorCommitUnit DEF UnitStep, SweepRegion, FailUnit, invVars
<1>4. CASE \/ \E regions \in SUBSET Regions : UpdateAccountRegions(regions)
           \/ \E r \in Resources, g \in Regions : CloudChange(r, g)
           \/ UNCHANGED vars
  <2>1. UNCHANGED <<begun, overlapped, row, exec, unit, doomed, lastSeen, homeRegion, live, found>>
    BY <1>4 DEF UpdateAccountRegions, CloudChange, vars, scanVars, invVars
  <2>. QED
    BY <2>1, MirrorFrame DEF Alive, CompletedRegions
<1>. QED
  BY <1>1, <1>3, <1>4, MirrorStart, MirrorFinalize DEF Next

LEMMA MirrorInit == Init => MirrorInv
BY DEF Init, MirrorInv, Alone, Alive, Ended

\* SC-003 of spec 002: when a scan that met no other one is recorded succeeded or
\* partial, the live inventory of each region it completed is exactly what its
\* committed attempts found there -- lost results, retries and crashes included
\* (persist_unit_result with sweep_deleted_resources).
THEOREM ScansMirrorTheCloud == Spec => CompletedRegionsMirrorScan
<1>. DEFINE Mirrored(s) == row'[s] \in {"succeeded", "partial"} /\ row[s] = "running" =>
               \A g \in CompletedRegions(s) :
                  {r \in live' : homeRegion[r] = g} = {r \in found[s] : homeRegion[r] = g}
<1>1. ASSUME Inv, MirrorInv, [Next]_vars, NEW s \in Scans \ overlapped,
             row'[s] \in {"succeeded", "partial"}, row[s] = "running"
      PROVE  \A g \in CompletedRegions(s) :
                {r \in live' : homeRegion[r] = g} = {r \in found[s] : homeRegion[r] = g}
  <2>a. /\ row \in [Scans -> RowStates] /\ live \subseteq Resources
        /\ found[s] \subseteq Resources /\ lastSeen \in [Resources -> Nat] /\ s \in Nat
    BY <1>1, ScanAssumption DEF Inv, TypeInv, TypeOK, Scans
  <2>1. ~StartScan
    BY <1>1, <2>a, StartFrame
  <2>2. ASSUME NEW t \in Scans, StartStep(t) PROVE FALSE
    BY <1>1, <2>2, <2>a DEF StartStep, CommitStart, RollbackStart
  <2>3. ASSUME NEW t \in Scans, NEW g \in Regions, UnitStep(t, g) PROVE FALSE
    BY <1>1, <2>3, UnitStepFrame
  <2>4. ASSUME NEW t \in Scans, FinalizeStep(t) PROVE CommitFinalize(s)
    <3>1. t = s
      BY <1>1, <2>4, FinalizeFrame
    <3>. QED
      BY <1>1, <2>4, <3>1 DEF FinalizeStep, BeginFinalize, FinalizeWithoutRow, Enqueue,
         EnqueueCompliance, EnqueueOwnership, CrashFinalize
  <2>5. ASSUME NEW regions \in SUBSET Regions, UpdateAccountRegions(regions) PROVE FALSE
    BY <1>1, <2>5 DEF UpdateAccountRegions, scanVars
  <2>6. ASSUME NEW r \in Resources, NEW g \in Regions, CloudChange(r, g) PROVE FALSE
    BY <1>1, <2>6 DEF CloudChange, scanVars
  <2>7. ~UNCHANGED vars
    BY <1>1 DEF vars
  <2>8. CommitFinalize(s)
    <3>1. Next
      BY <1>1, <2>7
    <3>2. \E t \in Scans : FinalizeStep(t)
      BY <3>1, <2>1, <2>2, <2>3, <2>5, <2>6 DEF Next
    <3>. QED
      BY <3>2, <2>4
  <2>9. exec[s] = "notified" /\ live' = live \ doomed[s] /\ Alone(s)
    BY <1>1, <2>8 DEF CommitFinalize, Alone, Alive, Ended
  <2>10. /\ \A r \in Resources : s <= lastSeen[r] => r \in found[s]
         /\ found[s] \subseteq live
         /\ doomed[s] = Unconfirmed(s)
    BY <1>1, <2>9 DEF MirrorInv, Closing
  <2>11. \A r \in found[s] : r \notin doomed[s]
    BY <1>1 DEF Inv, SweepSafe
  <2>12. ASSUME NEW g \in CompletedRegions(s), NEW r \in live, r \notin Unconfirmed(s),
                homeRegion[r] = g
         PROVE  r \in found[s]
    BY <2>a, <2>10, <2>12 DEF Unconfirmed
  <2>. QED
    BY <2>9, <2>10, <2>11, <2>12
<1>2. Inv /\ MirrorInv /\ [Next]_vars => [\A s \in Scans \ overlapped : Mirrored(s)]_vars
  BY <1>1
<1>3. Init => Inv /\ MirrorInv
  BY InvInit, MirrorInit
<1>4. Inv /\ MirrorInv /\ [Next]_vars => (Inv /\ MirrorInv)'
  BY InvStep, MirrorStep
<1>. QED
  BY <1>2, <1>3, <1>4, PTL DEF Spec, CompletedRegionsMirrorScan

(***************************************************************************)
(* A finalize that died, and a cloud that stands still.                    *)
(***************************************************************************)

\* Once the finalize of a running scan is lost, the row runs for ever and no
\* scan of the account starts again (finalize_scan, start_scan).
THEOREM StuckForEver == Spec => StuckScanBlocksAccount
<1>1. ASSUME Inv, [Next]_vars, NEW s \in Scans, StuckScan(s)
      PROVE  StuckScan(s)' /\ begun' = begun
  <2>a. row \in [Scans -> RowStates] /\ exec \in [Scans -> ExecStates]
    BY <1>1 DEF Inv, TypeInv, TypeOK
  <2>b. row[s] = "running" /\ exec[s] = "aborted"
    BY <1>1 DEF StuckScan
  <2>1. ~StartScan
    BY <2>b DEF StartScan, NoRunningScan
  <2>2. ASSUME NEW t \in Scans, StartStep(t)
        PROVE  row'[s] = row[s] /\ exec' = exec /\ begun' = begun
    BY <2>2, <2>a, <2>b DEF StartStep, CommitStart, RollbackStart
  <2>3. ASSUME NEW t \in Scans, NEW g \in Regions, UnitStep(t, g)
        PROVE  row' = row /\ exec' = exec /\ begun' = begun
    BY <1>1, <2>3, UnitStepFrame
  <2>4. ASSUME NEW t \in Scans, FinalizeStep(t)
        PROVE  row'[s] = row[s] /\ exec'[s] = exec[s] /\ begun' = begun
    BY <1>1, <2>b, <2>4, FinalizeFrame DEF Closing
  <2>5. ASSUME NEW regions \in SUBSET Regions, UpdateAccountRegions(regions)
        PROVE  row' = row /\ exec' = exec /\ begun' = begun
    BY <2>5 DEF UpdateAccountRegions, scanVars
  <2>6. ASSUME NEW r \in Resources, NEW g \in Regions, CloudChange(r, g)
        PROVE  row' = row /\ exec' = exec /\ begun' = begun
    BY <2>6 DEF CloudChange, scanVars
  <2>7. CASE UNCHANGED vars
    BY <2>7, <2>b DEF vars, StuckScan
  <2>. QED
    BY <1>1, <2>b, <2>1, <2>2, <2>3, <2>4, <2>5, <2>6, <2>7 DEF Next, StuckScan
<1>2. Inv /\ [Next]_vars => [\A s \in Scans : StuckScan(s) => StuckScan(s)' /\ begun' = begun]_vars
  BY <1>1
<1>. QED
  BY Invariance, <1>2, PTL DEF Spec, StuckScanBlocksAccount

LEMMA StillInit == Init => StillInv
<1>. SUFFICES ASSUME Init, NEW r \in Resources, NEW g \in Regions
              PROVE  /\ \A s \in Scans : unit[s][g].phase = "out"
                     /\ homeRegion[r] # g
  BY DEF StillInv
<1>. QED
  BY ScanAssumption DEF Init, AtRest

LEMMA StillStep ==
    ASSUME Supplementary = {}, Inv, StillInv, [StillNext]_vars
    PROVE  StillInv'
<1>. SUFFICES ASSUME NEW r \in Resources, NEW g \in Regions, <<r, g>> \in present'
              PROVE  /\ \A t \in Scans : unit'[t][g].phase = "swept" => r \in unit'[t][g].report
                     /\ \A t \in Scans : unit'[t][g].phase = "succeeded" => t <= lastSeen'[r]
                     /\ homeRegion'[r] = g => r \in live' /\ \A t \in Scans : r \notin doomed'[t]
  BY DEF StillInv
<1>a. /\ \A t \in Scans : unit[t][g].phase = "swept" => r \in unit[t][g].report
      /\ \A t \in Scans : unit[t][g].phase = "succeeded" => t <= lastSeen[r]
      /\ homeRegion[r] = g => r \in live /\ \A t \in Scans : r \notin doomed[t]
  BY DEF StillInv, StillNext, vars
<1>b. <<r, g>> \in present
  BY DEF StillNext, vars
<1>c. [Next]_vars /\ lastSeen[r] \in Nat /\ \A t \in Scans : t \in Nat
  BY ScanAssumption DEF StillNext, Inv, TypeInv, TypeOK, Scans
<1>1. CASE StartScan
  BY <1>1, <1>a, StartFrame
<1>2. ASSUME NEW s \in Scans, StartStep(s)
      PROVE  UNCHANGED <<unit, lastSeen, homeRegion, live, doomed>>
  BY <1>2 DEF StartStep, CommitStart, RollbackStart, invVars
<1>3. ASSUME NEW s \in Scans, NEW h \in Regions, NEW missed \in SUBSET Supplementary,
             SweepRegion(s, h, missed)
      PROVE  /\ UNCHANGED <<lastSeen, homeRegion, live, doomed>>
             /\ \A t \in Scans : unit'[t][g].phase = "swept" => r \in unit'[t][g].report
             /\ \A t \in Scans : unit'[t][g].phase = "succeeded" => unit[t][g].phase = "succeeded"
  BY <1>3, <1>a, <1>b DEF SweepRegion, invVars, Inv, TypeInv, TypeOK
<1>4. ASSUME NEW s \in Scans, NEW h \in Regions, FailUnit(s, h)
      PROVE  /\ UNCHANGED <<lastSeen, homeRegion, live, doomed>>
             /\ \A t \in Scans : unit'[t][g].phase = "swept" => r \in unit'[t][g].report
             /\ \A t \in Scans : unit'[t][g].phase = "succeeded" => unit[t][g].phase = "succeeded"
  BY <1>4, <1>a DEF FailUnit, AfterFailure, AtRest, invVars, Inv, TypeInv, TypeOK
<1>5. ASSUME NEW s \in Scans, NEW h \in Regions, NEW now \in Scans, NEW delivered \in BOOLEAN,
             CommitUnit(s, h, now, delivered)
      PROVE  /\ \A t \in Scans : unit'[t][g].phase = "swept" => r \in unit'[t][g].report
             /\ \A t \in Scans : unit'[t][g].phase = "succeeded" => t <= lastSeen'[r]
             /\ homeRegion'[r] = g => r \in live' /\ \A t \in Scans : r \notin doomed'[t]
  <2>1. /\ unit[s][h].phase = "swept"
        /\ unit'[s][h].phase \in {"succeeded", "queued", "failed"}
        /\ \A t \in Scans, k \in Regions : <<t, k>> # <<s, h>> => unit'[t][k] = unit[t][k]
        /\ doomed' = doomed
    BY <1>5 DEF CommitUnit, AfterFailure, AtRest, Inv, TypeInv, TypeOK
  <2>2. /\ lastSeen'[r] \in Nat /\ lastSeen[r] <= lastSeen'[r]
        /\ r \in unit[s][h].report => s <= lastSeen'[r]
        /\ r \in live' <=> r \in live \cup unit[s][h].report
        /\ homeRegion'[r] = homeRegion[r] \/ (lastSeen[r] = 0 /\ r \in unit[s][h].report)
    BY <1>5, CommitEffect
  <2>3. ASSUME NEW t \in Scans, unit'[t][g].phase = "swept" PROVE r \in unit'[t][g].report
    BY <1>a, <2>1, <2>3
  <2>4. ASSUME NEW t \in Scans, unit'[t][g].phase = "succeeded" PROVE t <= lastSeen'[r]
    <3>1. CASE <<t, g>> = <<s, h>>
      BY <1>a, <2>1, <2>2, <3>1
    <3>2. CASE <<t, g>> # <<s, h>>
      BY <1>a, <1>c, <2>1, <2>2, <2>4, <3>2
    <3>. QED
      BY <3>1, <3>2
  <2>5. ASSUME homeRegion'[r] = g, homeRegion[r] # g
        PROVE  r \in live' /\ \A t \in Scans : r \notin doomed'[t]
    <3>1. homeRegion[r] = NoRegion /\ NoRegion \notin Regions
      BY <2>2, <2>5, ScanAssumption DEF Inv, StampInv
    <3>2. \A t \in Scans : r \notin doomed[t]
      BY <3>1 DEF Inv, SweepSafe, CompletedRegions
    <3>. QED
      BY <2>1, <2>2, <2>5, <3>2
  <2>6. ASSUME homeRegion[r] = g
        PROVE  r \in live' /\ \A t \in Scans : r \notin doomed'[t]
    BY <1>a, <2>1, <2>2, <2>6
  <2>. QED
    BY <2>3, <2>4, <2>5, <2>6
<1>6. ASSUME NEW s \in Scans, FinalizeStep(s)
      PROVE  /\ UNCHANGED <<unit, lastSeen, homeRegion>>
             /\ homeRegion[r] = g => r \in live' /\ \A t \in Scans : r \notin doomed'[t]
  <2>1. UNCHANGED <<unit, lastSeen, homeRegion>> /\ \A t \in Scans \ {s} : doomed'[t] = doomed[t]
    BY <1>6, FinalizeFrame
  <2>2. ASSUME homeRegion[r] = g PROVE r \in live' /\ r \notin doomed'[s]
    <3>1. r \in live /\ r \notin doomed[s]
      BY <1>a, <2>2
    <3>2. r \notin Unconfirmed(s)
      BY <1>a, <1>c, <2>2 DEF Unconfirmed, CompletedRegions
    <3>3. doomed \in [Scans -> SUBSET Resources]
      BY DEF Inv, TypeInv, TypeOK
    <3>. QED
      BY <1>6, <3>1, <3>2, <3>3 DEF FinalizeStep, BeginFinalize, FinalizeWithoutRow,
         EnqueueCompliance, EnqueueOwnership, Enqueue, CommitFinalize, CrashFinalize, invVars
  <2>. QED
    BY <1>a, <2>1, <2>2
<1>7. ASSUME NEW regions \in SUBSET Regions, UpdateAccountRegions(regions)
      PROVE  UNCHANGED <<unit, lastSeen, homeRegion, live, doomed>>
  BY <1>7 DEF UpdateAccountRegions, scanVars, invVars
<1>8. ASSUME NEW q \in Resources, NEW h \in Regions, CloudChange(q, h)
      PROVE  UNCHANGED <<unit, lastSeen, homeRegion, live, doomed>>
  BY <1>8 DEF CloudChange, scanVars, invVars
<1>9. CASE UNCHANGED <<unit, lastSeen, homeRegion, live, doomed>>
  BY <1>9, <1>a
<1>10. CASE UNCHANGED vars
  BY <1>9, <1>10 DEF vars
<1>11. CASE \E s \in Scans, h \in Regions : UnitStep(s, h)
  BY <1>3, <1>4, <1>5, <1>11, <1>a DEF UnitStep
<1>12. CASE \E s \in Scans : FinalizeStep(s)
  BY <1>6, <1>12, <1>a
<1>. QED
  BY <1>c, <1>1, <1>2, <1>7, <1>8, <1>9, <1>10, <1>11, <1>12 DEF Next

\* With every resource in the tagging API (Supplementary empty) and a cloud that
\* stands still, no resource that exists where its row says is marked deleted:
\* no failed region, lost result or second scan can do it.
THEOREM NothingPresentIsDeleted ==
    ASSUME Supplementary = {}
    PROVE  StillSpec => []PartialViewDeletesNothing
<1>1. Init => Inv /\ StillInv
  BY InvInit, StillInit
<1>2. Inv /\ StillInv /\ [StillNext]_vars => (Inv /\ StillInv)'
  <2>1. [StillNext]_vars => [Next]_vars
    BY DEF StillNext
  <2>. QED
    BY <2>1, InvStep, StillStep
<1>3. Inv /\ StillInv => PartialViewDeletesNothing
  BY DEF StillInv, PartialViewDeletesNothing
<1>. QED
  BY <1>1, <1>2, <1>3, PTL DEF StillSpec

(***************************************************************************)
(* Starts that wait for each other.                                        *)
(***************************************************************************)

\* start_scan as it would be behind a lock on the account: no transaction asks for running
\* scans while another has inserted a row and not committed it.
SerialNext == Next /\ (begun' # begun => \A s \in Scans : row[s] # "open")
SerialSpec == Init /\ [][SerialNext]_vars

Occupies(s) == row[s] \in {"open", "running"}

OneAtATime == \A s, t \in Scans : Occupies(s) /\ Occupies(t) => s = t

LEMMA SerialStep ==
    ASSUME Inv, OneAtATime, [SerialNext]_vars
    PROVE  OneAtATime'
<1>a. row \in [Scans -> RowStates] /\ begun \in Nat
  BY ScanAssumption DEF Inv, TypeInv, TypeOK
<1>1. CASE StartScan
  <2>1. begun' # begun
    BY <1>1, <1>a DEF StartScan
  <2>2. \A s \in Scans : ~Occupies(s)
    BY <1>1, <2>1 DEF StartScan, NoRunningScan, Occupies, SerialNext, vars
  <2>3. \A s \in Scans : s # begun + 1 => row'[s] = row[s]
    BY <1>1, <1>a DEF StartScan
  <2>. QED
    BY <2>2, <2>3 DEF OneAtATime, Occupies
<1>2. ASSUME \A s \in Scans : Occupies(s)' => Occupies(s) PROVE OneAtATime'
  BY <1>2 DEF OneAtATime
<1>3. ASSUME NEW s \in Scans, StartStep(s) PROVE OneAtATime'
  BY <1>2, <1>3, <1>a DEF StartStep, CommitStart, RollbackStart, Occupies
<1>4. ASSUME NEW s \in Scans, FinalizeStep(s) PROVE OneAtATime'
  <2>1. FinalStatus(s) \in Terminal
    BY DEF FinalStatus, Terminal
  <2>2. row' = row \/ row' = [row EXCEPT ![s] = FinalStatus(s)]
    BY <1>4 DEF FinalizeStep, BeginFinalize, FinalizeWithoutRow, EnqueueCompliance,
       EnqueueOwnership, Enqueue, CommitFinalize, CrashFinalize
  <2>. QED
    BY <1>2, <1>a, <2>1, <2>2 DEF Occupies, Terminal
<1>5. ASSUME UNCHANGED row PROVE OneAtATime'
  BY <1>2, <1>5 DEF Occupies
<1>6. ASSUME NEW s \in Scans, NEW g \in Regions, UnitStep(s, g) PROVE OneAtATime'
  BY <1>5, <1>6, UnitStepFrame
<1>7. ASSUME NEW regions \in SUBSET Regions, UpdateAccountRegions(regions) PROVE OneAtATime'
  BY <1>5, <1>7 DEF UpdateAccountRegions, scanVars
<1>8. ASSUME NEW r \in Resources, NEW g \in Regions, CloudChange(r, g) PROVE OneAtATime'
  BY <1>5, <1>8 DEF CloudChange, scanVars
<1>9. CASE UNCHANGED vars
  BY <1>5, <1>9 DEF vars
<1>. QED
  BY <1>1, <1>3, <1>4, <1>6, <1>7, <1>8, <1>9 DEF SerialNext, Next

\* start_scan's docstring and FR-027 (OneRunningScan) hold when the starts of an account wait
\* for each other: two scans run only because two callers ask before either has committed,
\* whatever units, finalizes and rolled back starts do meanwhile.
THEOREM SerialStartsRunOneScan == SerialSpec => []OneRunningScan
<1>1. Init => Inv /\ OneAtATime
  BY InvInit DEF Init, OneAtATime, Occupies
<1>2. Inv /\ OneAtATime /\ [SerialNext]_vars => (Inv /\ OneAtATime)'
  <2>1. [SerialNext]_vars => [Next]_vars
    BY DEF SerialNext
  <2>. QED
    BY <2>1, InvStep, SerialStep
<1>3. OneAtATime => OneRunningScan
  BY DEF OneAtATime, Occupies, OneRunningScan
<1>. QED
  BY <1>1, <1>2, <1>3, PTL DEF SerialSpec
=============================================================================
