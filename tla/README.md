# CloudPulse AI: specifications and proofs

TLA+ models of the CloudPulse AI backend (`src/backend`, with the state machine
and queues of `src/infra`), the TLC runs that check them and the TLAPS proofs
about them. `PROJECT.json` ties every definition to the source lines it models,
every property to a run, and every hazard of the code to the properties that
watch it.

Contents: [1 inventory](#1-inventory) ·
[2 modules](#2-modules-and-their-correspondence-to-the-code) ·
[3 runs](#3-runs-what-each-checks-and-what-it-shows) ·
[4 fairness](#4-fairness) · [5 proofs](#5-what-is-proved) ·
[6 disagreements](#6-disagreements-between-the-code-and-its-documents) ·
[7 abstractions](#7-abstractions) · [8 not modelled](#8-what-is-not-modelled) ·
[9 plan](#9-plan)

## 1 Inventory

CloudPulse AI scans AWS accounts into a PostgreSQL inventory, validates the
inventory against tagging rules, attributes owners, ingests spend, notifies
people and lets language-model capabilities write summaries and suggestions.
Everything runs in short-lived processes: an API Lambda (FastAPI), worker
Lambdas invoked by Step Functions, SQS or EventBridge, one PostgreSQL database
at READ COMMITTED as the only shared state. `tenant_session`
(`app/core/db.py:153-164`) gives every handler one transaction: commit at the
end, roll back on any exception.

| Component | State it keeps | Operations | Interacts with | What is hard | What makes it correct |
|---|---|---|---|---|---|
| Scan orchestration (`app/scan/orchestrator.py`, `handlers/scan_worker_handler.py`, `scan_workflow.asl.json`) | `scan` rows; the execution and its units | `start_scan`, `start_due_daily_scans`, `persist_unit_result`, `finalize_scan`, `sweep_deleted_resources` | Step Functions, AWS, the two governance queues | execution starts before commit; retried and half-finished units; finalize without retry; overlapping scans | nothing found is swept; only completed regions are swept; completed regions mirror the cloud; every scan settles; messages match the status |
| Resource inventory (`models/core.py`) | `resource` rows: region, `last_seen_at`, `deleted_at`, tags, detail | upsert, mark deleted | written by scans; read by validation, ownership, metrics, digest | two writers of a row | rows never vanish or move; revived only by being seen |
| Account registration and status (`api/routers/accounts.py`, `record_role_outcome`) | `cloud_account`: status, failure reason, regions | register, edit regions, deactivate, reactivate, trigger a scan, role outcome | scan units, daily trigger | writers that read minutes before they write; column-wise UPDATEs | one row per AWS account; reason fits status; only administrators move it in and out of `disabled` |
| Tagging rules (`api/routers/rules.py`) | `rule` rows, one per key and version | create, edit (append a version) | read by validation | edits during a scan | versions are never changed |
| Tag validation (`governance/validation.py`, `compliance_validation_worker_handler.py`) | `finding` rows | evaluate a resource, open, re-point, close | compliance queue (at least once, 5 receives, DLQ), rules, inventory | duplicate and overlapping passes, rule edits, rows changing meanwhile | one open finding per resource and rule key; open exactly when in violation |
| SDA registry (`api/routers/sdas.py`, `governance/sda_matching.py`) | `sda` rows, `resource.sda_id` | register, edit, remove, reclassify | budgets, spend, validation worker | overlap check races; disjoint keys; projects edited or removed under a pass | overlapping mappings only by a race; a quiet pass attaches every resource rightly |
| Ownership (`governance/ownership.py`, `identity_resolution.py`) | `resource_owner`, identity settings | sweep CloudTrail, resolve, guarded upsert by confidence | CloudTrail, ownership queue | repeated and overlapping passes, a trail that forgets, names shared by regions | confidence never drops, and rests on evidence |
| Notifications (`governance/notifications.py`) | `notification` rows, `escalated_at` | day-0, day-2, day-4, suppression, escalation | findings, SES, acknowledgement | email before commit; failing sends; outages | each cadence point once; no reminder once dealt with; escalated only after day-4 |
| Spend and budgets (`governance/spend.py`, `governance/budgets.py`) | `spend_record`, `budget` stamps, overrun findings | ingest, gap, check thresholds, reset for a month | cost worker, SDA registry, trend and budget pages | month boundary, repeated days, projects edited meanwhile, errors inside a shared transaction | the trend adds up to the bills; an overrun is open while its month is over the cap |
| Suggester and suggestions (`governance/suggester.py`, `suggestions.py`, `agent_runs.py`, `grounding.py`) | suggestion per finding, `agent_run`, rejections | run, seed | agent runtime, administrators | seed racing the agent; cost cap; truncated drafts | a seeded suggestion is never overwritten; a suggestion declares the references of its own finding only; the run row is true |
| Digest (`governance/digest.py`) | digest per tenant and day | run, backfill | agent runtime, spend, score | rejected, failed or cut-off drafts, overlapping runs | only a grounded digest of the latest day replaces the one shown |
| Coverage advisor (`governance/coverage_advisor.py`, `advisor.py`, `api/routers/coverage_proposals.py`) | proposals, advisory gaps | detect, record, decide | administrators, next scan | decisions racing each other and a run | a decided type is proposed again only by a race; every gap is accounted for |
| IAM hygiene (`governance/iam_hygiene.py`) | flags | reconcile | IAM report | accounts that fail inside a run, overlapping runs | a flag changes only on evidence of its own account |
| Metrics (`governance/metrics.py`) | `resource_metric` | upgrade-only upsert | CloudWatch | late data, partial failures, overlapping runs | a measurement is never lost or replaced |
| Forecasts and rightsizing (`governance/forecasting.py`, `rightsizing.py`) | none | fit, project, backtest, recommend | metrics, spend | gaps, a backtest that must not see what it predicts | least squares, blind, and unknown is not zero |
| Scoring, utilization, scan deltas, tenancy, roles, users, audit, deployments, API, frontend, infrastructure | little or none | reads, guards, appends | everything | – | see section 8 |

`PROJECT.json` lists each of them under "components" and, under "hazards", the
line where each hard behaviour bites.

## 2 Modules and their correspondence to the code

Each component has a specification module; an `MC` module gives TLC its
constants, and a `Proofs` module holds its theorems. The components that never meet
in a transaction are composed by `Agents` and `Governance`, which share an `MC` and a
`Proofs` module each; `SumTheorems` has what the proofs know of sums over finite
sets. Operators whose comment begins with *Fault:* are deliberately wrong variants of
the definition that follows them; no specification uses them, they exist to show that
the properties can fail.

| Component modules | Composed by | TLC | Proofs |
|---|---|---|---|
| `ScanLifecycle`, `InventoryContract` | – | `MCScanLifecycle` | `ScanLifecycleProofs` |
| `AccountStatus` | – | `MCAccountStatus` | `AccountStatusProofs` |
| `FindingLifecycle` | – | `MCFindingLifecycle` | `FindingLifecycleProofs` |
| `NotificationCadence`, `CadenceContract` | – | `MCNotificationCadence` | `NotificationCadenceProofs` |
| `SpendBudget` | – | `MCSpendBudget` | `SpendBudgetProofs` |
| `AgentRuntime`, `Suggester`, `InsightDigest`, `CoverageProposals` | `Agents` | `MCAgents` | `AgentsProofs` |
| `SdaRegistry`, `OwnerAttribution`, `IamHygiene`, `MetricStore`, `Forecasts` | `Governance` | `MCGovernance` | `GovernanceProofs` |

### ScanLifecycle and InventoryContract

The scans of **one account**. A scan `s` is the `s`-th start transaction.

| State | Code |
|---|---|
| `row[s]` | the `scan` row: `absent`, `open` (inserted, not committed), then its status, or `rolledback` |
| `exec[s]` | the Step Functions execution: `mapping` (Map running), `swept`, `half`, `notified` (inside the finalize transaction: sweep flushed, one message sent, both sent), `done`, `aborted` |
| `unit[s][g]` | the Map iteration of region `g`: queued, inside an attempt (`swept`, with what it listed in `report` and the clock in `since`), succeeded, failed |
| `lastSeen`, `homeRegion`, `live` | `resource.last_seen_at`, `.region`, `.deleted_at IS NULL` |
| `doomed[s]` | what an uncommitted finalize has set `deleted_at` on |
| `sent` | the messages in the two governance queues |
| `present`, `VisibleFrom`, `Supplementary` | the cloud, which regions list a resource, and which resources only Cloud Control lists |
| `found`, `overlapped` | history variables for the properties |

| Action | Code |
|---|---|
| `StartScan`, `CommitStart`, `RollbackStart` | `start_scan` inside the caller's transaction, split where the execution already runs and the row is not yet visible |
| `SweepRegion`, `CommitUnit`, `FailUnit` | `_handle_scan_unit`: discovery, then one commit of everything, or nothing; `AfterFailure` is Retry and Catch; `delivered = FALSE` is a committed attempt whose answer is lost |
| `BeginFinalize` … `CommitFinalize` | `finalize_scan`: status, sweep, compliance message, ownership message, commit |
| `FinalizeWithoutRow`, `CrashFinalize` | `scalar_one()` finds no row; the Lambda dies or a send fails – no Retry, no Catch |
| `UpdateAccountRegions`, `CloudChange` | the region editor; somebody outside |

The sweep compares `last_seen_at < started_at` and nothing else, so the clock is
the number of start transactions: the model keeps every ordering the code can
tell apart and stays finite.

`InventoryContract` is the abstract specification: scans *confirm* what they
find, region by region, and *close* at most once, removing from the live set
only what they did not find themselves in regions they covered. It has no
transactions, retries or clock. `ScanLifecycle` implements it under the mapping
`home <- homeRegion`, `covered` <- the succeeded units, `closed` <- the
executions that are done.

### AccountStatus

The row of **one AWS account**, its registrations and every writer of its
status. `seen[t]` is the row a transaction `t` read when it began; `Merge` is
the ORM's UPDATE, which sets only the columns in which what it wants differs
from what it *read*; `Save` applies it, or rolls back when the row would violate
`ck_cloud_account_failure_reason_shape`. `RoleOutcome` is
`record_role_outcome`; `Deactivate` and `Reactivate` the two endpoints;
`CheckDuplicate`, `Verify` and `InsertAccount` the three transactions of
`register_account`; `SelectDue` and `StartDue` the two halves of the daily
trigger; `TriggerScan` the manual one. A scan is only open or not (`opener`):
ScanLifecycle has the rest. The two modules share no variable the other writes:
scanning never reads the status except through the two triggers, and those are
here.

### FindingLifecycle

**One rule key** on the resources of one account. `rules` is the list of
versions; `inventory` the resource rows (`value` of the tag, `owner` the row it
is attached to, `deleted`); `findings[r]` the findings of a resource; `queue`,
`received` the SQS queue with its redrive policy. A worker's pass reads the rows
and the newest version (`Receive`), looks for an open finding resource by
resource (`LookUp`), and commits (`CommitPass`, with or without the message
being deleted) or rolls back (`RollbackPass`). `Touched` and `Written` are
`evaluate_resource`; `UniqueOpen` is the partial unique index.
`PersistResource`, `SweepResource` and `SendMessage` are what ScanLifecycle's
`CommitUnit`, `CommitFinalize` and `EnqueueCompliance` look like from here;
they are unconstrained because the message is sent before the finalize commits,
so no order between a message and the rows it stands for is guaranteed.

### NotificationCadence and CadenceContract

The findings as the notification worker sees them, and its daily pass. The clock
`now` counts ticks, `Day` of them in a day; a pass may see it move once, because
an invocation lasts two minutes at most.

| State | Code |
|---|---|
| `status`, `openedAt`, `acknowledged`, `escalated` | the columns of `finding` |
| `rows` | the committed `notification` rows, as a *set*: that there is one per finding and point is a property, not the shape of the state |
| `pass[w]` | the transaction of invocation `w`: its `stage` (the query it is working on), what it has `todo`, which of these the reminder query found in need of chasing, the rows it `added` to its session and those it `flushed`, and what it has `flagged` |
| `emailed`, `troubled`, `covered`, `pass[w].quiet` | history: what the mail service accepted, which sends raised or were rolled back, which findings had a committed pass in their lookback, and what was dealt with when the pass queried its first reminders |

`BeginPass` is the first query of `send_due_day0_notifications`, whose time is the
`attempted_at` of everything the pass records; `QueryReminders` and
`FlagStaleEscalations` are the later ones. `Send`, `Withhold`, `SendFails` and
`SuppressReminder` are the outcomes for one finding (`_attempt` and the branch of
`send_due_reminders` before it). The session flushes before every query, so an
action that queries carries `MayFlush`, the unique constraint: it waits while
another pass has flushed the same finding and point, and can only roll back once
such a row is committed. `CommitPass` and `RollbackPass` end the transaction; the
emails stay sent. Findings open and are resolved freely (FindingLifecycle's
subject); a reopened violation is a new finding, as FR-011 has it.

`CadenceContract` is what the rest of the system may rely on, without passes,
transactions or emails: the table of rows grows by one set at a time (`Record`), with
at most one row of a finding and a point, each of a finding that was due for it, and
escalates a finding in the step that shows its day-4 row. `NotificationCadence`
implements it with `failed <- troubled`: a commit is `Record` of what the pass has
flushed, an email that raises and a rollback are `Fail`, the clock and the findings move
there as here, and everything else a pass does is a stutter.

### SpendBudget

Daily spend, budgets and projects. Every invocation of the cost worker is **one**
transaction (`run[w]`) over all accounts and then all budgets; `wrote`, `gaps` and
`flushed` are what it has written and not committed, `read` the budgets as it read
them.

| State | Code |
|---|---|
| `spend[a][d][b]`, `gaps` | the `spend_record` rows of an account and day, by project or the "No SDA" bucket, and the gap rows |
| `budget`, `overrun` | the four crossed-timestamps (as days) and the open overrun finding of a project |
| `sdas` | registered projects and the value of the project tag their mapping asks for |
| `bill`, `disputed`, `run[w].alone` | history: what was last billed, whose budget changed under a check, and whether runs overlapped |

`WriteGap`, `SkipAccount`, `ReadSdas` and `UpsertSpend` are the ways the loop body
can go for an account; a row for a project removed in between violates its foreign
key and `Aborted` is the transaction that answers nothing any more. `BeginChecks`,
`MeasureBudget` and `FlushBudget` are `_check_all_budgets` and `check_thresholds`,
split at the query that makes the session write; a column that does not differ from
what was read stays out of the UPDATE (`Keep`). `Trend` is `get_spend_summary`.

### AgentRuntime, Suggester, InsightDigest, CoverageProposals

`AgentRuntime` has no state: a *conversation* is how many model calls
`converse_loop` made and how it ended, `Grounded` is `validate_output`,
`Exhausted` and `Outcome` are `RunBudget` and `outcome_for`. A text is what its sections
*mention*: the references they declare, and those their prose names without declaring
them (`InProse` bounds which). `Grounded` looks at the declared references and at the
figures, as `validate_output` does; what the prose names is stored with the rest.

`Suggester` – `pass[p]` is the transaction of a pass: the findings it has `left`, which
of them are `urgent` (the order is `Before`), and its bill; `DraftSuggestion` is one call with all its ways to end,
`WriteSuggestion` the upsert whose conflict clause is `MayWrite`, `SeedSuggestion`
the administrator.

`InsightDigest` – `BuildInputs` reads everything at one instant (the run reads
before it asks), then exactly one of `NothingNotable`, `DraftFails`,
`DraftIsCutOff`, `DraftArrives` or `RollbackRun` ends the run. `ShownDigest` is
the API.

`CoverageProposals` – the pass reads at four points (`DetectGaps`, `ReadDecided`,
`ReadPending`, `InsertProposals`) and commits; `InsertProposals` and
`AdvisoryWritable` are the two unique indexes. A decision is a read and a commit
with nothing locked between; `decision[a].alone`, a history field, says that no other
decision on the same proposal has been open since this one read it.

`Agents` composes the three. They share no table and no transaction, so a behaviour is
one of a single part chosen at the start (`part`); interleaving them would multiply
states and add no behaviour. `AgentsImplementTheirParts` proves that a behaviour of the
composition is one of each part, so what holds of a part by itself holds here.

### SdaRegistry, OwnerAttribution, IamHygiene, MetricStore, Forecasts

`SdaRegistry` – an administrative transaction checks (`CheckRegistration`,
`CheckUpdate`) and commits (`CommitEdit`); `reclassify_account_resources` reads the
projects, then the resources, then commits. `MatchesOf` is a set because the query
has no order. `calm` and `raced` are history.

`OwnerAttribution` – `creator` and `writes` are what happened (`Made`, `Changed`; a
creation counts as a write too), `age` what the trail still tells; a pass sweeps region by region, where a later region *replaces*
the creation event of a name and *adds* write events, then attributes resource by
resource with the guarded upsert (`MayReplace`).

`IamHygiene` – `principal` is what IAM reports, `flag` numbers the active flag so
that a cleared and raised one is told from the one before. A pass analyses account
by account, flushes after each, and commits once; `Fail` is the swallowed failure,
`broken` the session after a failed flush.

`MetricStore` – `published` is what CloudWatch would answer, `stored` the rows; a
run fixes its day, lists the servers of an account, and asks region by region.
`Upsert` is the conditional conflict clause.

`Forecasts` – every table of known, unknown and absent rows up to a length;
`Fit`, `Project`, `Backtest` and `Recommend` in whole numbers over a common
denominator: `Scale`, a multiple of every number of sources a mean is taken over.

`Governance` composes the five in the manner of `Agents`.

## 3 Runs: what each checks and what it shows

The bounds of the first four components are `MaxTime` (ticks of the clock),
`MaxScans` (start transactions, or messages), `MaxTries` (3 in the state machine),
`MaxConcurrency` (5), `MaxVersions` (rule edits), `MaxReceives` (5 in Terraform) and
the sizes of the sets of regions, resources, workers and requests. The later modules
add `MaxDay`, `MaxRuns`, `LastDay`, `MaxPasses`, `MaxWrites`, `MaxPassesBegun`,
`MaxProposals`, `MaxEdits`, `MaxClassifications`, `MaxSweeps`, `MaxEvents`,
`MaxChanges` and `LastHistory`, each marked *bound* where it is declared. They bound
how much can happen, not what a step does.

| Run | Result | Instance | Shows |
|---|---|---|---|
| `scan_safety` | holds, 1.1 M states | 2 scans, 2 regions, 1 resource, 2 tries, 1 unit at a time | `TypeOK`, `SweepSafe`, `GovernanceHandoff`, `CompletedRegionsMirrorScan`, `StuckScanBlocksAccount`, and that scanning implements `InventoryContract` |
| `scan_liveness` | holds, 121 k states | 2 scans, 2 regions, no resource | every committed scan ends unless its finalize is lost |
| `scan_partial_view` | **violated** | the supplementary resource, unchanging cloud | a skipped Cloud Control type deletes an existing resource |
| `account_status` | holds, 22 k states | 2 units, 2 admins, 2 registrations, 2 error codes | well-formed row, one registration, only older units re-enable |
| `findings` | holds, 754 k states | 1 resource, 2 workers, 1 message, 3 receives, 3 versions | one open finding unless rule versions mix, a pass leaves the right findings under the right version, every message is validated or exhausted |
| `notifications` | holds, 2.2 M states | 1 finding, 2 overlapping passes, 5 days | rows, emails and escalation agree; what is dealt with before the reminders are queried is not chased; the cadence is kept but for failed emails; the passes implement `CadenceContract` |
| `notifications_acknowledged` | **violated** | same | an acknowledgement between query and send does not stop the reminder |
| `spend` | holds, 645,931 states | 1 account, 1 project, 1 tag value, months of 2 days, 4 days, 3 runs of which 2 may overlap | the trend adds up to the bills; stamps and overruns follow the spend of their month |
| `spend_reconcile` | **violated** | same | a bill whose groups share a row loses one of them |
| `agents` | holds, 1.5 M states | 2 findings, 2 passes; 2 days, 2 digest runs; 2 types, 2 advisor passes, 2 administrators; 2 references, one of which prose may name; 2 model calls per conversation, cap 2 | see the properties below |
| `agents_prose` | **violated** | same | prose that names an unknown identifier without declaring it is stored |
| `governance` | holds, 1.0 M states | 2 projects, 3 edits; 2 resources of one name in 2 regions; a user, its key and a role in 2 accounts; 2 servers in 2 regions; 3 days of history of 2 sources | see the properties below |

Why the bounds are enough to matter:

* Two scans are what it takes for one to be overtaken, to overlap, to be blocked
  by a stuck one, or for a row to have been seen earlier; two regions are what it
  takes for `partial`, for a region edited away between scans, and with one unit
  at a time for a queued unit. Two tries give both a retried and an exhausted
  unit, and a result that is lost before and after the last try. The liveness run
  has no resources because no guard on the path to a terminal status reads one.
* In `AccountStatus`, two transactions of each kind give every read-write overlap
  of two writers; two codes tell "the same refusal again" (no column changes)
  from "another refusal".
* In `FindingLifecycle`, resources do not interact except through attachment, which
  only decides what a pass evaluates: `PassesMatchTheInventory` covers it for any
  number, TLC does not. Three versions let a pass be two edits
  behind; three receives of one message let two workers hold it at once and a
  third pass repair what they did.

* In `NotificationCadence`, findings meet only in that a rollback takes the rows of
  all of them back, which the proofs cover for any number; five days (0 to 4) let
  a finding go through the whole cadence, come due for both reminders in one pass,
  and get a day-2 reminder after its day-4 one.

* In `SpendBudget`, a bill has two groups – the tag value and untagged – which is
  what it takes to fall into two rows, into one, or into a row left from an older
  mapping; four days of two-day months give two month boundaries; the third run
  repeats a day. An amount equals the cap, so the 80 and the 100 per cent
  thresholds are crossed together: they are computed by one operator.
* In `agents`, a cap of two and conversations of up to two calls give a run that
  stops at the cap, overshoots it, or ends before; two references tell a finding's own
  identifier from another's, and one of them in prose is enough to name the other's.
* In `governance`, mappings on two keys are disjoint, equal, nested or empty; two
  resources of one name let a region replace another's event; three days of
  history with one held out leave the two points a line needs; `Scale = 2` divides by
  the one or two sources of a day.

Every invariant and every action property of the passing runs is also proved for every
value of the constants (section 5); the two liveness properties are only checked. Deadlock is checked where the system has no end
(`scan_safety`, `account_status`, `notifications`); the other runs stop when their bound of
messages, scans, runs or days is used up, which is the bound's doing and not the system's.

### The properties

* `SweepSafe` – what a finalize in flight is about to delete was not found by any
  committed attempt of its own scan and lies in a region the scan completed. It
  is stated of the *uncommitted* sweep, so another scan may confirm a row in
  between.
* `GovernanceHandoff` – messages and recorded status agree wherever a start or a
  finalize crashed.
* `CompletedRegionsMirrorScan` – the converse of safety: in the regions it
  completed, a scan that met no other leaves live exactly what it found.
* `StuckScanBlocksAccount` – what the missing Retry on `FinalizeScan` costs: the
  row stays running and no later scan of the account ever begins.
* `ImplementsContract` – refinement of `InventoryContract`, and in `notifications` of
  `CadenceContract`. The latter includes two statements that are theorems of their own
  and need no run beside it: `EscalatedWithItsDay4Row` (a day-4 row becomes visible
  together with the escalation, in one commit, if the finding is still open) and
  `CadenceInOrder` (day 4 never without day 2 before it, unless that email failed).
* `RunningScanSettles` – liveness, see section 4.
* `OneRegistration`, `OnlyOlderUnitsReenable` – the account row under interleaved
  writers.
* `OneOpenUnlessRulesMixed` – the duplicate check works as long as overlapping
  passes read the same rule version: the unique index catches the rest.
* `PassMatchesInventory` – when a pass commits and nothing changed since it read,
  the open findings are exactly the violations of top-level resources.
* `FindingNamesItsVersion` – a finding opened, kept or closed by a pass names the
  version the pass evaluated, even when an older version opened it.
* `ScanIsValidated` – liveness of the hand-over, up to the dead-letter queue.
* `AuditTrailIsTrue` – the history FR-013 asks for agrees with what was emailed,
  in both directions, outside the two windows the code has: a send that raised,
  and a pass that rolled back.
* `OnePassOfTheLookbackIsEnough` – the argument in the comment of
  `_DAY0_LOOKBACK`: any one pass that commits within the lookback notifies.
* `NoReminderIfDealtWithBefore` – the reminder query ignores the status, and day-0
  emails may have taken minutes before it, yet nothing dealt with before the reminders
  were queried is emailed by either of the two queries. What is dealt with *after* the
  query still is: section 6.
* `SpendReconciles` – a day of the trend that is not null equals the bill, however
  often it was ingested and whatever happened to projects, except where a bill did
  not fit its rows one to one.
* `OverrunMatchesStamp`, `OverrunFollowsSpend`, `StampsOfThisMonth` – opening goes by
  a transition, resolving by a level, and the month is reset by the run that happens
  to come first; together they still keep finding, stamp and spend in step.
* `AgentTextIsGrounded` – what is stored declares as references and states as figures only
  what that very run was handed, and an empty digest is stored exactly when nothing was
  notable. It says nothing of identifiers in prose, which the code does not look for:
  section 6.
* `PassRowIsTrue` – the `agent_run` row: succeeded, truncated or failed is what
  happened, and the cap is passed by one conversation at most.
* `AdminSuggestionStands` – no interleaving puts an agent's text over a seeded one.
* `CurrentDigestStays` – rejected, failed, cut-off, repeated and backfilled runs leave
  the shown digest alone.
* `ReproposedOnlyByRace`, `GapsAreAccountedFor` – what an advisor pass leaves behind: no
  new proposal of a type decided before it began, advisory rows for exactly the types this
  build could not cover, and a proposal for every other uncovered type.
* `DecidedAgainOnlyByRace` – a decision no other one overlapped finds the proposal pending
  when it *commits*, although it locked nothing when it read.
* `OverlapOnlyByRace`, `AttachmentIsCurrent` – the registry and what it attaches.
* `OwnersOnlyImprove` – high confidence never falls, no attribution disappears, and
  each rests on a creation or on enough writes by somebody of that name.
* `FlagsFollowEvidence` – an account that failed keeps its flags, an undisturbed run
  leaves exactly the unused principals flagged.
* `MeasurementsStand` – a measured value is final, and a run that commits has a row for
  every live server of an account it counts as collected.
* `ForecastsAreHonest` – the backtest is blind to the days it is held against, unknown
  days change nothing, and the line is the one of least squares.

## 4 Fairness

`ScanLifecycle!Fairness` asks weak fairness of the steps of each scan row, each
unit and each finalize: Step Functions keeps a started execution going, and a
Lambda either ends or is ended by its timeout (300 s). Each disjunction includes
its failures, so fairness never promises success. Nothing is assumed of
administrators, the schedule or the cloud. `FindingLifecycle!Fairness` asks weak
fairness of each worker (the SQS event source polls for as long as there are
messages, and a pass ends, by its timeout at the latest) and of the redrive. The
later modules assume none: their workers run once a day or a week with no retry
the code relies on, so all that can be promised is what a run leaves if it commits.

## 5 What is proved

TLAPS proves the theorems below for every value of the constants that satisfies the
named assumption of the module (`ScanAssumption`, `AccountAssumption`,
`FindingAssumption`, `CadenceAssumption`, `SpendAssumption`; `RuntimeAssumption`,
`SuggesterAssumption`, `DigestAssumption`, `CoverageAssumption`; `RegistryAssumption`,
`OwnerAssumption`, `HygieneAssumption`, `MetricAssumption`, `ForecastAssumption`). They
say that bounds are numbers, that the values standing for "none" are not among the real
ones, and, where the code adds up or counts, that the rows it adds up are finitely many
(accounts, projects, tag values, resource types, resources, sources). TLC evaluates each
on the constants of its run.

Every type invariant, safety invariant and action property of a passing run is among
them.

| Theorem | Statement | Argument |
|---|---|---|
| `ScanLifecycleProofs!TypeCorrect` | `Spec => []TypeOK` | with `TriesLeft` |
| `SweepCorrect` | `Spec => []SweepSafe` | see *the sweep* |
| `HandoffCorrect` | `Spec => []GovernanceHandoff` | see *the hand-off* |
| `InventoryRefinement` | `Spec => Contract!Spec` | see *refinement* |
| `ScansMirrorTheCloud` | `Spec => CompletedRegionsMirrorScan` | see *the mirror* |
| `StuckForEver` | `Spec => StuckScanBlocksAccount` | action property from the invariant |
| `NothingPresentIsDeleted` | `Supplementary = {}` implies `StillSpec => []PartialViewDeletesNothing` | see *nothing present is deleted* |
| `SerialStartsRunOneScan` | `SerialSpec => []OneRunningScan` | see *exceptions* |
| `AccountStatusProofs!TypeCorrect` | `Spec => []TypeOK` | the constraint makes it inductive |
| `RegistrationUnique` | `Spec => []OneRegistration` | inductive with the type |
| `OlderUnitsOnly` | `Spec => OnlyOlderUnitsReenable` | a unit that is open and not stale has read `disabled` while the account is |
| `DisabledStaysIfUndisturbed` | `UndisturbedSpec => DisabledStaysDisabled` | see *exceptions* |
| `FindingLifecycleProofs!TypeCorrect` | `Spec => []TypeOK` | inductive by itself |
| `OneOpenFindingPerRule` | `Spec => []OneOpenUnlessRulesMixed` | see *one open finding* |
| `OneOpenFindingIfCalm` | `CalmSpec => []OneOpenFinding` | see *exceptions* |
| `NamesTheVersionEvaluated` | `Spec => FindingNamesItsVersion` | see *what a pass leaves* |
| `PassesMatchTheInventory` | `Spec => PassMatchesInventory` | see *what a pass leaves* |
| `NotificationCadenceProofs!TypeCorrect` | `Spec => []TypeOK` | with `RowsApart`: see *notifications* |
| `EscalationCorrect` | `Spec => []EscalatedWithItsDay4Row` | see *notifications* |
| `ReminderCorrect` | `Spec => NoReminderIfDealtWithBefore` | `DealtWith` only grows |
| `LookbackCorrect` | `Spec => []OnePassOfTheLookbackIsEnough` | see *notifications* |
| `AuditCorrect` | `Spec => []AuditTrailIsTrue` | a sent row stays with its pass until it commits |
| `CadenceCorrect` | `Spec => []CadenceInOrder` | see *notifications* |
| `CadenceRefinement` | `Spec => Contract!Spec` | see *the contract of the cadence* |
| `SpendBudgetProofs!TypeCorrect` | `Spec => []TypeOK` | with the shape of a run |
| `Reconciles` | `Spec => []SpendReconciles` | see *bills* |
| `OverrunsMatchStamps` | `Spec => []OverrunMatchesStamp` | see *overruns* |
| `OverrunsFollowSpend` | `Spec => OverrunFollowsSpend` | see *overruns* |
| `StampsAreOfThisMonth` | `Spec => StampsOfThisMonth` | see *overruns* |
| `AgentsProofs!SuggesterTypeCorrect` | `SuggesterSpec => []SuggesterTypeOK` | inductive by itself |
| `SuggestionIsOwnHolds` | `SuggesterSpec => []SuggestionIsOwn` | with `DraftIsGrounded` |
| `PassRowIsTrueHolds` | `SuggesterSpec => []PassRowIsTrue` | with `AccountIsTrue` |
| `AdminSuggestionStandsHolds` | `SuggesterSpec => AdminSuggestionStands` | with `WrittenIsSafe` |
| `DigestTypeCorrect`, `DigestIsGroundedHolds`, `CurrentDigestStaysHolds` | `DigestSpec =>` the property of that name | with `SaysWhatItMay`: see *digests* |
| `CoverageTypeCorrect`, `ReproposedOnlyByRaceHolds`, `GapsAreAccountedForHolds`, `DecidedAgainOnlyByRaceHolds` | `CoverageSpec =>` the property of that name | see *coverage* |
| `AgentsImplementTheirParts` | `AgentsSpec => SuggesterSpec /\ DigestSpec /\ CoverageSpec` | see *composition* |
| `AgentsTypeCorrect`, `AgentTextIsGroundedHolds`, `AgentsKeepTheirPromises` | `AgentsSpec =>` all of the above | see *composition* |
| `GovernanceProofs!RegistryTypeCorrect` | `RegistrySpec => []RegistryTypeOK` | with `EditsNameProjects` |
| `OverlapOnlyByRaceHolds` | `RegistrySpec => []OverlapOnlyByRace` | with `CheckedApart`: see *projects* |
| `OneMatchPerKeyHolds` | `RegistrySpec => []OneMatchPerKey` | see *exceptions* |
| `AttachmentIsCurrentHolds` | `RegistrySpec => AttachmentIsCurrent` | with `SeesTheRegistry`, `MovesAreRight` |
| `OwnerTypeCorrect`, `OwnersOnlyImproveHolds` | `OwnerSpec =>` the property of that name | see *owners* |
| `HighMeansCreatorUnlessShared` | `OwnerSpec => []HighMeansCreatorOfUnshared` | see *exceptions* |
| `FlagsFollowEvidenceHolds` | `HygieneSpec => FlagsFollowEvidence` | see *flags* |
| `HygieneTypeCorrect` | `HygieneSpec => []HygieneTypeOK` | with `FlagsCounted`: see *flags* |
| `MetricTypeCorrect` | `MetricSpec => []MetricTypeOK` | inductive by itself |
| `MeasurementsStandHolds` | `MetricSpec => MeasurementsStand` | see *measurements* |
| `ForecastTypeCorrect`, `ForecastsAreHonestHolds` | `ForecastSpec =>` the property of that name | see *forecasts* |
| `FitIsBest` | no whole-number move of the fitted line makes its squared error smaller | see *forecasts* |
| `GovernanceImplementsItsParts` | `GovernanceSpec =>` the five specifications | see *composition* |
| `GovernanceTypeCorrect`, `GovernanceKeepsItsPromises` | `GovernanceSpec =>` all of the above | see *composition* |

**The sweep.** `SweepSafe` speaks of an instant in the middle of a transaction;
it is not inductive because nothing in it says *why* an unconfirmed row was not
found. The strengthening adds the clock: every row a scan's committed attempts
found is stamped no earlier than the scan's own number, an open attempt remembers
a clock no earlier than its scan, and a settled execution has no open attempt, so
`found` no longer grows once the sweep is computed. Then `lastSeen[r] < s`
excludes `found[s]`, and the region part follows because completed units stay
completed and a row never moves.

**The hand-off.** The strengthening follows `exec` through the finalize: which
messages have been sent in each of its states, that a row in a final status
belongs to a finished execution, and that an execution whose row is rolled back
never gets past `mapping` except to `aborted`.

**Refinement.** Every step maps to one abstract step or a stutter: `CommitUnit`
to `Confirm` (complete when the answer arrived), `CommitFinalize` to `Close`
with `doomed`, everything else to a stutter. `Close`'s guards are `SweepSafe`.

**The mirror.** Safety says that nothing found is swept; the converse needs that nothing
*else* is stamped. `MirrorInv`: while a scan is alive and has met no other, the clock
shows its own number, so what is stamped since it began was stamped by it and is in
`found`; all of that is live; and the sweep it has computed is still what it would
compute. An execution without a row is alive too, which is why `overlapped` counts those.

**Nothing present is deleted.** In a cloud that stands still and is seen entirely
through the tagging sweep, a completed unit reported everything present in its
region; so a row that exists in its home region carries the stamp of the scan.
This shows that the divergence found by `scan_partial_view` is due to the
skipped supplementary types alone, and not to retries, failed units or
overlapping scans.

**One open finding.** A pass that found nothing while another committed an open
finding must have read the same rule version (else `mixed` records it), so the
finding carries the version the pass would insert and the unique index rolls the
pass back. The invariant says exactly that: a finding opened beside a pass that
looked before carries that pass's version, and found findings keep existing.

**What a pass leaves.** What a pass looked up may be re-pointed or closed by another
before it commits. `FoundStands`: as long as the passes beside it hold its version, that
writes no version but its own, and whatever is open beside what it found carries it too.
`FoundAgrees`: as long as they hold its rows as well, where there is a violation what it
found stays open, and where there is none nothing else is opened. `Touched` and the
append then leave open findings exactly at the violations.

**Notifications.** `RowsApart` says that committed and flushed rows never share a
finding and a point, and that a pass has no row yet for what it still has to do;
that makes the uniqueness of rows inductive. Every step of a pass is then one of
seven kinds (`KindsOfStep`), and each property follows from an invariant over
them. Escalation: a pass in its last step has flagged whatever it flushed a day-4
row for, and a finding with any row has opened before, so it cannot become open
again. Lookback: a pass that began within the lookback still has the finding to
do, has recorded it, or failed to send. Cadence: when a pass asks for day-4
reminders, the day-0 row is at least four days old; a row another pass committed
since the day-2 query is at most a tick older than this pass, so the old row was
there at the day-2 query, which is why `Day >= 1` tick and the bound on the
length of an invocation are needed.

**The contract of the cadence.** `DueInv`: what a pass has still to do, has added or has
flushed is due for that point, by rows that are committed, and what is withheld had been
dealt with. Nothing that was due ever stops being so: the clock and the table only grow.
The query also sees what the pass has flushed itself, but its own day-0 row is too young
to make anything due. The
commit is then one `Record` of `rows' \ rows`: one row per finding and point because
`RowsApart` survives the unique constraint, day 2 before day 4 except where the email
failed by the argument of `CadenceInOrder`, and the escalation because the pass has
flagged what it flushed.

**Sums.** Spend, write events and squared errors are added up with `SumFunction` of the
community modules. `SumTheorems` proves what the other proofs need of it (a sum is a
number, is linear, splits over parts, only grows) by induction over the finite set of
terms. The library's induction rule takes a predicate, which the provers cannot
instantiate; `FiniteSetInduction` says the same of a *set* of good subsets, from the
well-foundedness of strict inclusion, and so needs no operator as a parameter.

**Bills.** `BillInv`: the rows of a day add up to what was last billed for it, and the rows
a run is about to commit to what it was told. When each row takes one group of a bill the
sums agree (`UnmergedRowsAddUp`); a removal adds the row of the project to that of
the "No SDA" bucket and leaves the sum alone.

**Overruns.** A check opens by a transition and resolves by a level. `StampInv` relates the
two: the stamps a check leaves (`Effective`, the columns it writes over those it read) say
over exactly when it resolves nothing, two runs never hold stamps of one budget
(`OneWriter`), and a check that leaves the finding alone found it as its stamps have it
(`KeptAsFound`). `AloneInv` adds for a run nothing overlaps that what it read of the budgets
is still so and that its stamps fit the spend of the month, its own uncommitted rows included
(`FitsSpend`).

**Suggestions.** `DraftIsGrounded`: a draft that is still to be written declares
references of its own finding only. `WrittenIsSafe`: a row some pass has written and not committed is not
seeded – the upsert refused it otherwise, and the seed waits for the lock. `AccountIsTrue`
carries the accounting through the pass: what is consumed stays below the cap plus a
conversation, and differs from what was spent only after an error.

**Digests.** `SaysWhatItMay`: a stored digest declares and states what its own run was
given, and is empty only if that was nothing. A run reads once, so what grounds it cannot change under it; only
a run that succeeds writes, and writes the row of its own day.

**Coverage.** `KnowsDecided`: from its second read on a pass knows every type decided before
it began, so it asks for none of them. `SeesTheGaps`: what a pass nothing disturbed has read
is still the case when it commits; the gaps it leaves are then those it proposes or lists.
`DecisionsApart`: a decision that is still alone holds a pending proposal and holds it by
itself, since only a decision moves a proposal out of `pending`, and whoever reads the same
proposal meanwhile takes `alone` from both.

**Projects.** `CheckedApart`: as long as an edit is calm, what it checked overlaps
no other project that is listed and not raced; so its commit keeps them apart, and
any other commit makes it no longer calm. For the passes, `SeesTheRegistry` says that
a calm pass has read the registry as it is, and `MovesAreRight` that what it will
write is a match or leaves one in place.

**Owners.** `TrailIsTrue`: the creator a sweep holds for a name did create a resource of
that name, and the writes it has counted for somebody are at most those done in the regions
it has left behind – a sum over the namesakes, which only grows as writes happen.
`RowsAreEvidenced`: what it has written rests on such evidence. `KeepsCreators` and
`WroteApart`: it holds no guess against a creator on record, because the guarded upsert
looked and the row is locked since.

**Flags.** `DecidedOnEvidence`: whatever a pass will raise it has listed as unused in an
account it analysed, and whatever it will clear it has not. `Complete`: for a pass
nothing disturbed, every principal of an analysed account that needs a change is among
those it will change. `FlagsCounted`, for the type: the flags a principal was given and the
passes still open are together no more than the passes begun.

**Measurements.** `Apart`: two runs of one day never hold a row of the same server.
`KeepsReadings`: what a run has written over a stored reading is that reading.
`Covers`: every live server of an account counted as collected is in a region still to
be asked, in the answer, or has a row; this is what makes a partial account not
count.

**Forecasts.** Three facts about the operators, for every history: the backtest is a
function of the days it was fitted on (`BlindBacktest`), a row of unknown amount may be
left out (`UnknownCountsForNothing`), and `Fit` satisfies the normal equations, so that
moving the intercept or the slope by any whole number of the common denominator leaves a
squared error at least as large (`FitIsBest`; the property a run checks moves them by one). The means are exact because `Scale` is a multiple of the number of
sources.

**Composition.** A step of `Agents` or `Governance` is a step of one part and a stutter of
the others, so the composition implements the specification of each part and inherits its
theorems.

**Exceptions.** Five statements of the repository that the code does not keep (section 6)
are proved to hold without the one thing that breaks them. `SerialSpec` is the scan model
with starts that wait for each other: then at most one row is open or running. `CalmSpec`
edits a rule only while no pass is open: every pass then holds the newest version, so
`mixed` never has "rules". `UndisturbedSpec` deactivates only while no unit is at work:
`stale` stays empty, and `OlderUnitsOnly` leaves a reactivation alone. `OneMatchPerKeyHolds`
and `HighMeansCreatorUnlessShared` speak of the specifications as they are: two mappings
that match one resource agree on every key they share, so they overlap in the sense of
`mappings_overlap` as soon as they share one; and a creator on record created a resource of
that name, which is the resource itself if no other has it. The restricted specifications
are in the proof modules: they are not what the code does, they say what it leans on.

**Only model-checked:** the liveness properties `RunningScanSettles` and `ScanIsValidated`
(liveness under fairness is out of the prover's reach), and of course the four runs that
find a violation.

## 6 Disagreements between the code and its documents

Four statements of the repository are refuted by a run each; `PROJECT.json` quotes the
lines under "findings".

1. `scan_partial_view` – a Cloud Control type whose listing fails is skipped, its
   region counts as completed, and the sweep marks its resources deleted.
2. `spend_reconcile` – a bill has one amount per value of the project tag. Values
   without a project all resolve to the "No SDA" bucket, and each upsert overwrites the
   one before (`governance/spend.py:89-98`), so the day adds up to less than was billed.
3. `notifications_acknowledged` – the reminder query is answered once, and the sends
   follow one by one; a finding acknowledged in between is still emailed
   (`governance/notifications.py:396-408`), although spec 005 suppresses a reminder at
   the moment the send executes (spec.md:263-266). `NoReminderIfDealtWithBefore` is what
   is left.
4. `agents_prose` – the grounding check looks up the references a section *declares*
   and searches its prose for amounts and percentages only
   (`governance/grounding.py:211-218`, 231); an identifier that is invented, or another
   finding's, passes when it is merely written in the text. FR-001 and FR-001a
   (specs/006 spec.md:280-290) and the comment of `suggester.py:213-215` say it does not.
   `AgentTextIsGrounded` is what is left.

Others are stated by definitions of the modules that no run lists, most of them because
the same question is asked by a passing property that names the exception. TLC finds each
violated when it is added to the configuration of its module. For `OneRunningScan`,
`DisabledStaysDisabled`, `OneOpenFinding`, `AtMostOneMatch` and `HighMeansCreator` a theorem
shows that nothing but the cause named here breaks them (*exceptions* in section 5).

| Definition | Statement | What the code does |
|---|---|---|
| `ScanLifecycle!OneRunningScan` | `scan/orchestrator.py:54-56`, specs/002 spec.md:392 | two callers both pass the check before either commits |
| `AccountStatus!DisabledStaysDisabled` | `scan/orchestrator.py:160-162` | `record_role_outcome` decides on a status read before minutes of AWS calls |
| `AccountStatus!NoScanOfDisabledAccount` | specs/002 spec.md:287-288 | `trigger_scan` does not look at the status |
| `FindingLifecycle!OneOpenFinding` | `models/core.py:372-373`, specs/003 spec.md:383 | the index is per rule *row*; passes on either side of an edit insert one each |
| `FindingLifecycle!DeletedResourceHasNoOpenFinding` | specs/002 spec.md:402-404 | nothing closes the findings of a deleted resource |
| `SpendBudget!RemovalIsNotRefused` | FR-010b of spec 003 | a day with a row in the project and in "No SDA" makes the removal a duplicate |
| `InsightDigest!CutOffDigestIsTruncated` | specs/006 spec.md:300-306 | below the cap, a cut-off digest is recorded as failed |
| `NotificationCadence!NoSecondEmail` | `governance/notifications.py:11-13` | emails leave before their rows are committed: a pass that rolled back has emailed what the next one emails again, and so have two that overlap; `AuditTrailIsTrue` excepts those sends |
| `CoverageProposals!AdvisoryIsNotOffered` | FR-015a, specs/006 spec.md:365-368 | a proposal is never withdrawn: when a release drops the enricher of a type whose proposal is pending, the type becomes an advisory row (`coverage_advisor.py:175`) and can still be accepted; `GapsAreAccountedFor` is what is left |
| `CoverageProposals!DecidedOnce` | `coverage_advisor.py:257-258` | the review state is read without a lock, so of two decisions that overlap the later is applied over the earlier; `DecidedAgainOnlyByRace` is what is left |
| `CoverageProposals!RejectedStaysRejected` | `coverage_advisor.py:159`, FR-018 | a rejection between the reads of the decided and of the pending types (line 164) is in neither, and the type is proposed again; `ReproposedOnlyByRace` is what is left |
| `SdaRegistry!MappingsKeptApart` | specs/003 spec.md:353-355 | two administrators both check before either commits (`sdas.py:110`); `OverlapOnlyByRace` is what is left |
| `SdaRegistry!AtMostOneMatch` | `sda_matching.py:31-35` | mappings on different keys do not overlap and can both match; no race is needed |
| `IamHygiene!RecentlyUsedIsNotFlagged` | `iam_hygiene.py:14-15`, specs/005 spec.md:383 | a user is judged by its console sign-in alone (`aws.py:906-911`); one that works through an access key is flagged |
| `OwnerAttribution!HighMeansCreator` | FR-020 of spec 003 | events are keyed by short name, and a later region replaces an earlier one |

Met while modelling, with no definition: an unparseable digest draft is not charged
(specs/006 spec.md:295-299); two overlapping cost runs can resolve an overrun while its
stamp stays (`budgets.py:291-293` says the two are never computed apart), which is what
`disputed` excludes; the metrics collector only ever asks for yesterday, so the docstring
of `persist_measurements`, which expects a later run to fill an unavailable day in, has
no run to do it; a backtest of spend whose held-out days are not consecutive forecasts
consecutive days and compares them with the days observed; `scan_deltas` counts an older
scan's changes from what `last_seen_at` is now, so the count drops with the next scan; a
metrics run that loses an account to a database error goes on in an aborted transaction, and
reports what it had counted as collected although nothing of it is kept
(`metrics_collector_handler.py:113-126`).

One more remark of `governance/notifications.py` holds only where no email fails, and
`CadenceInOrder` says so: running day-2 before day-4 does not give a finding its reminders
"in cadence order rather than out of it" (lines 391-392) when the day-2 email
raises and the day-4 email does not – the next pass sends day 2 after day 4.

Most hazards that `PROJECT.json` lists without a property are the ones above. Two others have
none because what the code does there contradicts no statement of the repository. The governance messages leave
before the sweep commits, so a worker may judge the inventory of before the sweep;
`PassMatchesInventory` holds a pass to the rows it read, and the message of the next scan
has the rest judged. A day ingested again under an edited mapping, or after a gap, keeps
the rows or the gap of the first time; `SpendReconciles` excepts a day with older rows
elsewhere, and such a gap keeps the day null.

Two more were met and have no run because the code has no counterpart to check:
`update_rule`'s docstring (rules.py:215-218) and an edge case of spec 003 say an
edit never applies to a scan in progress, but the worker evaluates the newest
version when it runs; FR-017 of spec 003 gates validation on the recorded status
(`validate_scan`), but the worker calls `validate_account` and relies on the
message, which is sent before the status is committed.

## 7 Abstractions

*Scan.* One account; the daily transaction that starts all accounts appears as a
start that may roll back for a foreign reason, and its older timestamp is taken
as the moment of the check (the real one deletes less, never more). The clocks of
database and Lambdas agree. The region list is a set. A start whose
`start_execution` call fails leaves nothing and is no step. A unit that meets the
row locks of a finalize waits for it, and one that inserts an ARN another unit
has just inserted fails on the unique constraint (`FailUnit`). Region identity of
an identifier is `homeRegion`, fixed by the first unit that reports it, as
`persist_unit_result` does.

*Account.* Every transaction reads at its beginning and writes at its end; a
writer that waits for a row lock is the later writer. The status `pending` of the
enumeration is never written by the code. What a deactivated account's running
scan does to resources is ScanLifecycle's.

*Findings.* One rule key (keys do not share rows); `format_pattern` is part of
`allowed`; the parent column is recomputed by every pass and so is a function of
the rows. Rows and newest version are read at one instant: the queries follow
each other without a network call between. Severity, SDA reclassification and the
score the worker logs are left out. The visibility timeout equals the worker's
timeout, but a standard queue may deliver twice anyway, and the model lets it.

*Notifications.* `attempted_at` is kept for day-0 rows only, the one place a query
reads it. Which address an owner has, and whether it is one, is a choice between
`Send` and `Withhold`. What the ORM loaded for the day-2 query may still be in
memory at the day-4 query; that is the same as the day-4 query running earlier, and
the reason why `NoReminderIfDealtWithBefore` speaks of the first of the two.
The update of `escalated_at` is not blocked by other writers of the finding.

*Spend.* One service: services share no row. A mapping that asks for more than the
project tag can match no spend row (`NoValue`). Amounts are whole and positive; 0 is a
group the bill does not have, so groups of nothing and credits, which
`governance/spend.py:89-98` writes like any other, are left out. A failure to read the
external id writes neither rows nor a gap (`SkipAccount`). A gap row stays beside rows a
later repetition writes, and keeps the day null. A stamp is the day of the run: one set
on the first of a month belongs to the month before, which `StampsOfThisMonth` allows.

*Agents.* A model call costs one unit. A section is four sets: the references it declares
(`cites`), those its prose names without declaring them (`names`), the figures it declares
and the figures it states; numbers and identifiers are compared, not parsed. The tools only read. The
digest's compliance baseline is the digest row before; its figures are those of the day
named and of the day before.

*Governance.* The number of writes that make a modifier frequent is the constant of the
code; which of two equally frequent is taken is open. Events are looked up by the short
name of a resource; that they are looked up by its full ARN next
(`ownership.py:133`, 159-161) is left out, as is the list of ten event names that count as a
creation (`aws.py:455-468`): a creation by another name is one the trail has forgotten. A
`LookupEvents` that returns a creation returns it to the sweep of write events as well
(`aws.py:605-621`), so it counts as a write. `AbandonRun` is the transaction of metrics that
ends in a rollback, with or without the run knowing. Last use of a principal has three
values: never, recently, long ago. A metric is one number per server and day; a
forecast fits whole numbers over a common denominator instead of rounding decimals.

*Composition.* The modules of `Agents` and of `Governance` are independent in the
code too: where one reads a table another writes (the digest reads spend, the registry
maps spend to projects), the reader lets that table change freely.

## 8 What is not modelled

Scoring, utilization, scan deltas and every list endpoint only read: ratios and counts
computed in one query on request. Role resolution, the authorizer and the token trigger
are pure functions of one request; audit and `GroundingRejection` rows are appended in the
transaction of the operation they record. Deployment records have one writer, the
pipeline. Prompts, the HTTP client of the agent tools, the delivery scripts and the
frontend hold no state of the system; the Terraform modules contribute the constants above.
The enrichment of single resource types, the parsing of ARNs and AWS responses, texts
and layouts are data the properties do not tell apart.

## 9 Plan

Done: every component that keeps state and whose steps can interleave, and a proof of every
invariant and action property a run checks. In the order of their worth, what could follow:

1. More abstract specifications in the manner of `InventoryContract`, with step-by-step
   refinements: a store of measurements that is written once, a registry in which a check
   and its commit are one step.
2. Theorems about the exceptions of section 6 that have none yet: bills whose groups share
   a row (`SpendReconciles` excludes them), findings of deleted resources, removals that
   are refused.
3. `OverrunFollowsSpend` checked with amounts on both sides of the 80 per cent threshold,
   when the instance can be made smaller elsewhere; the theorem already covers them.
4. Liveness of the cadence: with a pass that commits every day, an open finding is
   eventually notified or leaves the window.
