---------------------------- MODULE MetricStore ----------------------------
(***************************************************************************)
(* The daily collection of utilization metrics: one row per resource and   *)
(* day, a value or the mark that there was none                            *)
(* (backend/handlers/metrics_collector_handler.py, get_metric_data of      *)
(* backend/connectors/aws.py, backend/app/governance/metrics.py).          *)
(*                                                                         *)
(* CloudWatch publishes late, runs overlap, and a run is one transaction   *)
(* over all accounts.  One metric stands for the four.                     *)
(***************************************************************************)
EXTENDS Integers, FiniteSets

CONSTANTS
    Servers,       \* resources of a type that METRIC_QUERIES knows
    Zone,          \* the account and region of each
    AccountOfZone, \* the account of a region of an account
    Readings,      \* the values a measurement can have
    Collectors,    \* runs that may overlap
    LastDay,       \* bound: complete days that can be collected
    MaxRuns        \* bound: how many runs begin

Days == 1..LastDay
Zones == {Zone[s] : s \in Servers}
Silence == 0   \* no datapoint; in a row, is_unavailable
NoRow == -1

ASSUME MetricAssumption ==
    /\ Readings \subseteq Nat \ {0}
    /\ Zones \subseteq DOMAIN AccountOfZone
    /\ LastDay \in Nat \ {0} /\ MaxRuns \in Nat

Due == {AccountOfZone[z] : z \in Zones}
NoRows == [s \in Servers |-> NoRow]
IdleRun == [stage |-> "idle", day |-> 1, left |-> {}, zones |-> {}, batch |-> {},
            answer |-> NoRows, wrote |-> NoRows, collected |-> {}]

VARIABLES
    yesterday,     \* the last complete day
    published,     \* what CloudWatch would answer for each resource and day
    live,          \* resources that are not deleted
    stored,        \* the rows of resource_metric
    run,           \* the transaction of each run
    runsBegun

metricVars == <<yesterday, published, live, stored, run, runsBegun>>

(***************************************************************************)
(* The clock, the cloud and the inventory.                                 *)
(***************************************************************************)

Midnight ==
    /\ yesterday < LastDay
    /\ yesterday' = yesterday + 1
    /\ UNCHANGED <<published, live, stored, run, runsBegun>>

\* A datapoint appears, or is recomputed.
Publish(s, d, v) ==
    /\ d <= yesterday
    /\ published[s][d] # v
    /\ published' = [published EXCEPT ![s][d] = v]
    /\ UNCHANGED <<yesterday, live, stored, run, runsBegun>>

Retire(s) ==
    /\ s \in live
    /\ live' = live \ {s}
    /\ UNCHANGED <<yesterday, published, stored, run, runsBegun>>

(***************************************************************************)
(* A run.                                                                  *)
(***************************************************************************)

\* trigger_daily: the day is fixed before any account is read.
BeginRun(c) ==
    /\ run[c].stage = "idle" /\ runsBegun < MaxRuns
    /\ runsBegun' = runsBegun + 1
    /\ run' = [run EXCEPT ![c] = [IdleRun EXCEPT !.stage = "next", !.day = yesterday, !.left = Due]]
    /\ UNCHANGED <<yesterday, published, live, stored>>

\* metered_resources: the live resources of an account, grouped by region.
ListServers(c, a) ==
    /\ run[c].stage = "next" /\ a \in run[c].left
    /\ LET mine == {s \in live : AccountOfZone[Zone[s]] = a}
       IN run' = [run EXCEPT ![c].stage = IF mine = {} THEN "next" ELSE "regions",
                     ![c].left = @ \ {a}, ![c].batch = mine,
                     ![c].zones = {Zone[s] : s \in mine}, ![c].collected = @ \cup {a}]
    /\ UNCHANGED <<yesterday, published, live, stored, runsBegun>>

\* get_metric_data and normalise, for one region.
Ask(c, z) ==
    /\ run[c].stage = "regions" /\ z \in run[c].zones
    /\ run' = [run EXCEPT ![c].stage = "answered", ![c].zones = @ \ {z},
                  ![c].answer = [s \in Servers |-> IF s \in run[c].batch /\ Zone[s] = z
                                                   THEN published[s][run[c].day] ELSE NoRow]]
    /\ UNCHANGED <<yesterday, published, live, stored, runsBegun>>

\* A call fails: the other regions of the account are not asked, what was written stays.
FailAccount(c) ==
    /\ run[c].stage = "regions"
    /\ run' = [run EXCEPT ![c].stage = "next", ![c].zones = {}, ![c].batch = {},
                  ![c].collected = @ \ {AccountOfZone[z] : z \in run[c].zones}]
    /\ UNCHANGED <<yesterday, published, live, stored, runsBegun>>

\* Fault: the last answer wins.
UpsertLast(row, answer) == answer

\* The conditional upsert of persist_measurements.
Upsert(row, answer) ==
    IF row = NoRow \/ (row = Silence /\ answer # Silence) THEN answer ELSE row

Sees(c, s) == IF run[c].wrote[s] # NoRow THEN run[c].wrote[s] ELSE stored[s][run[c].day]

\* A row another run has written and not committed is waited for.
Persist(c) ==
    /\ run[c].stage = "answered"
    /\ LET rows == {s \in Servers : run[c].answer[s] # NoRow}
       IN /\ \A e \in Collectors \ {c} :
                run[e].day = run[c].day => \A s \in rows : run[e].wrote[s] = NoRow
          /\ run' = [run EXCEPT
                ![c].wrote = [s \in Servers |-> IF s \in rows THEN Upsert(Sees(c, s), run[c].answer[s])
                                                ELSE @[s]],
                ![c].answer = NoRows,
                ![c].stage = IF run[c].zones = {} THEN "next" ELSE "regions",
                ![c].batch = IF run[c].zones = {} THEN {} ELSE @]
    /\ UNCHANGED <<yesterday, published, live, stored, runsBegun>>

CommitRun(c) ==
    /\ run[c].stage = "next" /\ run[c].left = {}
    /\ stored' = [s \in Servers |-> IF run[c].wrote[s] = NoRow THEN stored[s]
                                    ELSE [stored[s] EXCEPT ![run[c].day] = run[c].wrote[s]]]
    /\ run' = [run EXCEPT ![c] = IdleRun]
    /\ UNCHANGED <<yesterday, published, live, runsBegun>>

\* A crash, a deadlock, or a failed statement, which leaves the transaction unusable: its
\* commit is a rollback, although the run reports what it had collected before.
AbandonRun(c) ==
    /\ run[c].stage # "idle"
    /\ run' = [run EXCEPT ![c] = IdleRun]
    /\ UNCHANGED <<yesterday, published, live, stored, runsBegun>>

-----------------------------------------------------------------------------
MetricInit ==
    /\ yesterday = 1
    /\ published = [s \in Servers |-> [d \in Days |-> Silence]]
    /\ live = Servers
    /\ stored = [s \in Servers |-> [d \in Days |-> NoRow]]
    /\ run = [c \in Collectors |-> IdleRun]
    /\ runsBegun = 0

MetricNext ==
    \/ Midnight
    \/ \E s \in Servers : Retire(s) \/ \E d \in Days, v \in Readings : Publish(s, d, v)
    \/ \E c \in Collectors : \/ BeginRun(c) \/ FailAccount(c) \/ Persist(c)
                             \/ CommitRun(c) \/ AbandonRun(c)
                             \/ \E a \in Due : ListServers(c, a)
                             \/ \E z \in Zones : Ask(c, z)

MetricSpec == MetricInit /\ [][MetricNext]_metricVars

(***************************************************************************)
(* Properties.                                                             *)
(***************************************************************************)
Rows0 == Readings \cup {Silence, NoRow}

MetricTypeOK ==
    /\ yesterday \in Days
    /\ published \in [Servers -> [Days -> Readings \cup {Silence}]]
    /\ live \subseteq Servers
    /\ stored \in [Servers -> [Days -> Rows0]]
    /\ run \in [Collectors -> [stage : {"idle", "next", "regions", "answered"}, day : Days,
                               left : SUBSET Due, zones : SUBSET Zones, batch : SUBSET Servers,
                               answer : [Servers -> Rows0], wrote : [Servers -> Rows0],
                               collected : SUBSET Due]]
    /\ runsBegun \in 0..MaxRuns

\* FR-019, FR-020: whatever order overlapping runs ask, write and commit in, a measurement
\* never changes and never goes back to unknown, an unknown row never disappears, and a run
\* that commits leaves a row for every resource of every account it counts as collected.
\* (A run whose commit turns into a rollback counts accounts and leaves nothing.)
MeasurementsStand ==
    [][/\ \A s \in Servers : \A d \in Days :
             /\ stored[s][d] \in Readings => stored'[s][d] = stored[s][d]
             /\ stored[s][d] = Silence => stored'[s][d] # NoRow
       /\ \A c \in Collectors : CommitRun(c) =>
             \A s \in live : AccountOfZone[Zone[s]] \in run[c].collected =>
                                stored'[s][run[c].day] # NoRow]_metricVars

=============================================================================
