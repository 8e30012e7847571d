---------------------------- MODULE SpendBudget ----------------------------
(***************************************************************************)
(* Daily spend and the budgets it is measured against: the cost-ingestion  *)
(* worker (backend/handlers/cost_ingestion_worker_handler.py), the spend   *)
(* table it corrects in place (backend/app/governance/spend.py), the       *)
(* thresholds and overrun findings checked in the same transaction         *)
(* (backend/app/governance/budgets.py), and the projects (SDAs) that       *)
(* administrators register, edit and remove meanwhile                      *)
(* (backend/app/api/routers/sdas.py).                                      *)
(*                                                                         *)
(* Services do not interact, so one stands for all of them.  A mapping     *)
(* matters to spend only when the project tag is all it asks for: its      *)
(* value, or NoValue for a mapping that no spend row can satisfy.  How two *)
(* registrations race is SdaRegistry's subject.                            *)
(***************************************************************************)
EXTENDS Integers, FiniteSets, Functions

CONSTANTS
    Accounts,      \* the verified accounts
    Sdas,          \* identifiers of projects, never used twice
    Values,        \* values of the project tag
    Untagged,      \* the group of a bill without the tag
    NoValue,       \* a mapping no spend row satisfies
    NoSda,         \* the "No SDA" bucket
    Amounts,       \* what a group of a bill may cost; credits and groups of nothing are left out
    Cap,           \* default_budget_usd
    MonthLength,   \* days in a month
    Window,        \* _FORECAST_WINDOW_DAYS
    MaxDay,        \* bound: the last day of the model
    MaxRuns,       \* bound: how many invocations begin
    Workers        \* invocations that may run at the same time

ASSUME SpendAssumption ==
    /\ Untagged \notin Values /\ NoValue \notin Values /\ NoValue # Untagged
    /\ NoSda \notin Sdas
    /\ Amounts \subseteq Nat \ {0}
    /\ Cap \in Nat \ {0}
    /\ MonthLength \in Nat \ {0}
    /\ Window \in Nat \ {0}
    /\ MaxDay \in Nat \ {0} /\ MaxRuns \in Nat
    /\ IsFiniteSet(Accounts) /\ IsFiniteSet(Sdas) /\ IsFiniteSet(Values)

Days == 1..MaxDay
Groups == Values \cup {Untagged}
Buckets == Sdas \cup {NoSda}
Thresholds == {"actual_80", "actual_100", "forecast_80", "forecast_100"}
Never == 0       \* a stamp that is NULL
Keep == -1       \* a column the ORM leaves alone
Unknown == -1    \* a trend day that is null
NotTold == -1    \* a day never ingested with success

Bills == [Groups -> Amounts \cup {0}]
NoRows == [b \in Buckets |-> 0]
NoStamps == [t \in Thresholds |-> Never]

VARIABLES
    today,     \* the UTC calendar day
    sdas,      \* the projects: whether registered, and their mapping
    spend,     \* the amount of each row of a day, 0 where there is none
    gaps,      \* the gap rows
    budget,    \* the four crossed-timestamps of each project's budget
    overrun,   \* whether a project has an open overrun finding
    run,       \* the transaction each worker has open
    begun,     \* how many invocations have begun
    bill,      \* history: the last bill of a day that fitted its rows one to one
    disputed   \* history: projects whose budget changed while a run was checking it

spendVars == <<spend, gaps, bill>>
budgetVars == <<budget, overrun, disputed>>
vars == <<today, sdas, spendVars, budgetVars, run, begun>>

NoVerdict == [sda |-> NoSda, stamps |-> NoStamps, opens |-> FALSE, resolves |-> FALSE]
Unflushed == [stamps |-> [t \in Thresholds |-> Keep], finding |-> "keep"]

Idle == [stage |-> "idle", day |-> 0, alone |-> FALSE, todo |-> {}, account |-> "none",
         seen |-> [s \in Sdas |-> NoValue], wrote |-> [a \in Accounts |-> NoRows],
         gaps |-> {}, told |-> [a \in Accounts |-> NotTold], merged |-> {},
         read |-> [s \in Sdas |-> NoStamps], left |-> {}, checked |-> {}, verdict |-> NoVerdict,
         flushed |-> [s \in Sdas |-> Unflushed]]

Active(w) == run[w].stage # "idle"
Registered == {s \in Sdas : sdas[s].state = "registered"}
Claimed == {sdas[s].value : s \in Registered} \ {NoValue}

(***************************************************************************)
(* The calendar, and the projects.                                         *)
(***************************************************************************)

\* month_bounds
MonthStart(d) == ((d - 1) \div MonthLength) * MonthLength + 1
MonthEnd(d) == MonthStart(d) + MonthLength - 1

\* An invocation lasts two minutes: at most one midnight falls into it.
NextDay ==
    /\ today < MaxDay
    /\ \A w \in Workers : Active(w) => run[w].day = today - 1
    /\ today' = today + 1
    /\ UNCHANGED <<sdas, spendVars, budgetVars, run, begun>>

\* register_sda: the budget exists as soon as the project does.
RegisterSda(s, value) ==
    /\ sdas[s].state = "new"
    /\ value \notin Claimed
    /\ sdas' = [sdas EXCEPT ![s] = [state |-> "registered", value |-> value]]
    /\ budget' = [budget EXCEPT ![s] = NoStamps]
    /\ UNCHANGED <<today, spendVars, overrun, disputed, run, begun>>

UpdateSda(s, value) ==
    /\ s \in Registered
    /\ value \notin Claimed \ {sdas[s].value}
    /\ sdas' = [sdas EXCEPT ![s].value = value]
    /\ UNCHANGED <<today, spendVars, budgetVars, run, begun>>

\* The rows of a removed project move into the bucket that has a unique index of
\* its own: a day with a row in both is a duplicate, and the removal fails.
Collides(s) == \E a \in Accounts, d \in Days : spend[a][d][s] > 0 /\ spend[a][d][NoSda] > 0

\* What a run has written and not committed keeps the rows of a project locked.
Locked(s) ==
    \E w \in Workers :
        \/ run[w].flushed[s] # Unflushed
        \/ \E a \in Accounts :
              \/ run[w].wrote[a][s] > 0
              \/ run[w].wrote[a][NoSda] > 0 /\ spend[a][run[w].day][s] > 0

\* Fault: the rows of a project go with it.
Cascaded(rows, s) == [rows EXCEPT ![s] = 0]

\* ON DELETE SET NULL.
Reverted(rows, s) == [rows EXCEPT ![NoSda] = @ + rows[s], ![s] = 0]

RemoveSda(s) ==
    /\ s \in Registered
    /\ ~Locked(s)
    /\ ~Collides(s)
    /\ sdas' = [sdas EXCEPT ![s] = [state |-> "removed", value |-> NoValue]]
    /\ spend' = [a \in Accounts |-> [d \in Days |-> Reverted(spend[a][d], s)]]
    /\ budget' = [budget EXCEPT ![s] = NoStamps]
    /\ overrun' = [overrun EXCEPT ![s] = FALSE]
    /\ UNCHANGED <<today, gaps, bill, disputed, run, begun>>

(***************************************************************************)
(* Ingestion.                                                              *)
(***************************************************************************)

\* _handle_trigger_daily: yesterday, for every verified account.
BeginRun(w) ==
    /\ ~Active(w)
    /\ today > 1
    /\ begun < MaxRuns /\ begun' = begun + 1
    /\ run' = [v \in Workers |->
                 IF v = w THEN [Idle EXCEPT !.stage = "ingesting", !.day = today - 1,
                                            !.alone = \A u \in Workers : ~Active(u),
                                            !.todo = Accounts]
                          ELSE [run[v] EXCEPT !.alone = FALSE]]
    /\ UNCHANGED <<today, sdas, spendVars, budgetVars>>

Ingesting(w, a) == run[w].stage = "ingesting" /\ a \in run[w].todo

\* No other run has an uncommitted row of this account and day.
Writable(w, a) ==
    \A v \in Workers \ {w} :
        run[v].day = run[w].day => run[v].wrote[a] = NoRows /\ a \notin run[v].gaps

\* All attempts failed: one gap row, once.
WriteGap(w, a) ==
    /\ Ingesting(w, a) /\ run[w].account = "none"
    /\ Writable(w, a)
    /\ run' = [run EXCEPT ![w].todo = @ \ {a}, ![w].gaps = @ \cup {a}]
    /\ UNCHANGED <<today, sdas, spendVars, budgetVars, begun>>

\* Something other than the billing call failed, and the exception is swallowed.
SkipAccount(w, a) ==
    /\ Ingesting(w, a) /\ run[w].account = "none"
    /\ run' = [run EXCEPT ![w].todo = @ \ {a}]
    /\ UNCHANGED <<today, sdas, spendVars, budgetVars, begun>>

\* The call succeeded: ingest_spend_rows reads the projects first.
ReadSdas(w, a) ==
    /\ Ingesting(w, a) /\ run[w].account = "none"
    /\ run' = [run EXCEPT ![w].account = a,
                          ![w].seen = [s \in Sdas |-> IF s \in Registered THEN sdas[s].value
                                                                        ELSE NoValue]]
    /\ UNCHANGED <<today, sdas, spendVars, budgetVars, begun>>

\* resolve_sda_id
ResolveSda(seen, group) ==
    IF \E s \in Sdas : seen[s] = group THEN CHOOSE s \in Sdas : seen[s] = group ELSE NoSda

LandsIn(seen, told, b) == {g \in Groups : told[g] > 0 /\ ResolveSda(seen, g) = b}

\* Fault: a repeated ingestion adds to what the row holds.
AccumulatedRows(seen, told, old) ==
    {[b \in Buckets |-> IF LandsIn(seen, told, b) = {} THEN 0
                        ELSE old[b] + told[CHOOSE g \in LandsIn(seen, told, b) : TRUE]]}

\* _upsert_spend_record, group by group: of those that land in one row, the last
\* one overwrites the others.
UpsertedRows(seen, told, old) ==
    {rows \in [Buckets -> Amounts \cup {0}] :
        \A b \in Buckets :
            IF LandsIn(seen, told, b) = {} THEN rows[b] = 0
            ELSE \E g \in LandsIn(seen, told, b) : rows[b] = told[g]}

Total(amounts) == SumFunction(amounts)

\* Two groups of a bill share a row.
Merges(seen, told) == \E b \in Buckets : Cardinality(LandsIn(seen, told, b)) > 1

Aborted(w) == [Idle EXCEPT !.stage = "aborted", !.day = run[w].day]

\* A row for a project removed since it was read violates the foreign key, and the
\* failed statement leaves the transaction unusable for everything after it.
Orphaned(w, told) ==
    \E g \in Groups : told[g] > 0 /\ ResolveSda(run[w].seen, g) \in Sdas \ Registered

IngestedRun(w, a, told, rows) ==
    [run[w] EXCEPT !.todo = @ \ {a}, !.account = "none", !.wrote[a] = rows,
                   !.told[a] = Total(told),
                   !.merged = IF Merges(run[w].seen, told) THEN @ \cup {a} ELSE @]

UpsertSpend(w, a, told) ==
    /\ Ingesting(w, a) /\ run[w].account = a
    /\ Writable(w, a)
    /\ IF Orphaned(w, told)
       THEN run' = [run EXCEPT ![w] = Aborted(w)]
       ELSE \E rows \in UpsertedRows(run[w].seen, told, spend[a][run[w].day]) :
               run' = [run EXCEPT ![w] = IngestedRun(w, a, told, rows)]
    /\ UNCHANGED <<today, sdas, spendVars, budgetVars, begun>>

(***************************************************************************)
(* The budgets, in the transaction of the ingestion.                       *)
(***************************************************************************)

\* What the transaction of w reads: its own rows over the committed ones.
View(w, a, d, b) ==
    IF d = run[w].day /\ run[w].wrote[a][b] > 0 THEN run[w].wrote[a][b] ELSE spend[a][d][b]

\* Fault: the sum runs over the forecast window instead of the month.
RecentActual(w, s) ==
    Total([p \in Accounts \X {d \in Days : d <= run[w].day /\ d > run[w].day - Window} |->
              View(w, p[1], p[2], s)])

\* _month_to_date_actual
MonthToDate(w, s) ==
    Total([p \in Accounts \X (MonthStart(run[w].day)..run[w].day) |-> View(w, p[1], p[2], s)])

\* _recent_daily_spend: the days of the window that have a row.
RecentDays(w, s) ==
    {d \in Days : /\ d <= run[w].day /\ d > run[w].day - Window
                  /\ \E a \in Accounts : View(w, a, d, s) > 0}

RecentTotal(w, s) ==
    Total([p \in Accounts \X RecentDays(w, s) |-> View(w, p[1], p[2], s)])

\* project_forecast, times the number of recent days: the month so far, and their
\* average for every day still to come.
ScaledForecast(w, s) ==
    MonthToDate(w, s) * Cardinality(RecentDays(w, s))
        + RecentTotal(w, s) * (MonthEnd(run[w].day) - run[w].day)

\* crossings: at the threshold is past it.
Reaches(usd, percent, scale) == usd * 100 >= percent * Cap * scale

Crossed(w, s, t) ==
    LET actual == MonthToDate(w, s)
        days == Cardinality(RecentDays(w, s))
    IN CASE t = "actual_80" -> Reaches(actual, 80, 1)
         [] t = "actual_100" -> Reaches(actual, 100, 1)
         [] t = "forecast_80" -> IF days = 0 THEN Reaches(actual, 80, 1)
                                 ELSE Reaches(ScaledForecast(w, s), 80, days)
         [] t = "forecast_100" -> IF days = 0 THEN Reaches(actual, 100, 1)
                                  ELSE Reaches(ScaledForecast(w, s), 100, days)

\* _check_all_budgets reads every budget before it checks the first one.
BeginChecks(w) ==
    /\ run[w].stage = "ingesting" /\ run[w].todo = {}
    /\ run' = [run EXCEPT ![w].stage = "checking", ![w].read = budget, ![w].left = Registered]
    /\ UNCHANGED <<today, sdas, spendVars, budgetVars, begun>>

\* Fault: last month's stamps stay.
KeptForNewMonth(stamp, d) == stamp

\* _reset_for_new_month
ResetForNewMonth(stamp, d) == IF stamp < MonthStart(d) THEN Never ELSE stamp

\* _stamp
Stamp(current, crossed) == IF ~crossed THEN Never ELSE IF current # Never THEN current ELSE today

\* Fault: a finding is resolved when the check clears the stamp, and not when the new
\* month has cleared it.
ClearsNow(before, after) == before # Never /\ after = Never

\* resolves_a_finding
Clears(before, after) == after = Never

\* check_thresholds: reset, measure, and the columns to write; the ORM leaves alone
\* what does not differ from what was read.
MeasureBudget(w, s) ==
    /\ run[w].stage = "checking" /\ s \in run[w].left /\ run[w].verdict = NoVerdict
    /\ LET read == run[w].read[s]
           before == [t \in Thresholds |-> ResetForNewMonth(read[t], run[w].day)]
           after == [t \in Thresholds |-> Stamp(before[t], Crossed(w, s, t))]
       IN run' = [run EXCEPT
                    ![w].left = @ \ {s},
                    ![w].verdict =
                       [sda |-> s,
                        stamps |-> [t \in Thresholds |-> IF after[t] = read[t] THEN Keep
                                                                               ELSE after[t]],
                        opens |-> after["actual_100"] # Never /\ before["actual_100"] = Never,
                        resolves |-> Clears(before["actual_100"], after["actual_100"])]]
    /\ UNCHANGED <<today, sdas, spendVars, budgetVars, begun>>

\* opens_a_finding, and none is open.
Opens(w, s) == run[w].verdict.opens /\ ~overrun[s]

Resolves(w, s) == run[w].verdict.resolves /\ overrun[s]

\* The columns of the budget and of its finding that the check changes.
Write(w) ==
    LET s == run[w].verdict.sda
    IN [stamps |-> run[w].verdict.stamps,
        finding |-> CASE Opens(w, s) -> "open" [] Resolves(w, s) -> "resolved" [] OTHER -> "keep"]

FlushedRun(w) ==
    LET s == run[w].verdict.sda
    IN [run[w] EXCEPT !.verdict = NoVerdict, !.checked = @ \cup {s}, !.flushed[s] = Write(w)]

\* The lookup of the open finding makes the session write the stamps first, which
\* waits for another run that has written them; a budget removed meanwhile cannot be
\* written, and spoils the transaction.
FlushBudget(w) ==
    /\ run[w].verdict # NoVerdict
    /\ \A v \in Workers \ {w} :
          LET other == run[v].flushed[run[w].verdict.sda]
          IN /\ Write(w).stamps = Unflushed.stamps \/ other.stamps = Unflushed.stamps
             /\ Write(w).finding = "keep" \/ other.finding = "keep"
    /\ run' = [run EXCEPT ![w] =
                 IF Write(w) # Unflushed /\ run[w].verdict.sda \notin Registered
                 THEN Aborted(w) ELSE FlushedRun(w)]
    /\ UNCHANGED <<today, sdas, spendVars, budgetVars, begun>>

CommitRun(w) ==
    /\ run[w].stage = "checking" /\ run[w].left = {} /\ run[w].verdict = NoVerdict
    /\ LET r == run[w]
           ingested == {a \in Accounts : r.told[a] # NotTold}
           leftover == {a \in ingested :
                          \E b \in Buckets : r.wrote[a][b] = 0 /\ spend[a][r.day][b] > 0}
       IN /\ spend' = [a \in Accounts |-> [spend[a] EXCEPT ![r.day] =
                         [b \in Buckets |-> IF r.wrote[a][b] > 0 THEN r.wrote[a][b] ELSE @[b]]]]
          /\ gaps' = gaps \cup (r.gaps \X {r.day})
          /\ bill' = [a \in Accounts |-> [bill[a] EXCEPT ![r.day] =
                        IF a \in r.merged \cup leftover THEN NotTold
                        ELSE IF a \in ingested THEN r.told[a] ELSE @]]
          /\ budget' = [s \in Sdas |-> [t \in Thresholds |->
                          IF r.flushed[s].stamps[t] = Keep THEN budget[s][t]
                                                           ELSE r.flushed[s].stamps[t]]]
          /\ overrun' = [s \in Sdas |-> CASE r.flushed[s].finding = "open" -> TRUE
                                          [] r.flushed[s].finding = "resolved" -> FALSE
                                          [] OTHER -> overrun[s]]
          /\ disputed' = disputed \cup {s \in Registered : r.read[s] # budget[s]}
    /\ run' = [run EXCEPT ![w] = Idle]
    /\ UNCHANGED <<today, sdas, begun>>

\* The handler raises, or the Lambda dies.
RollbackRun(w) ==
    /\ Active(w)
    /\ run' = [run EXCEPT ![w] = Idle]
    /\ UNCHANGED <<today, sdas, spendVars, budgetVars, begun>>

-----------------------------------------------------------------------------
Init ==
    /\ today = 1
    /\ sdas = [s \in Sdas |-> [state |-> "new", value |-> NoValue]]
    /\ spend = [a \in Accounts |-> [d \in Days |-> NoRows]]
    /\ gaps = {}
    /\ budget = [s \in Sdas |-> NoStamps]
    /\ overrun = [s \in Sdas |-> FALSE]
    /\ disputed = {}
    /\ run = [w \in Workers |-> Idle]
    /\ begun = 0
    /\ bill = [a \in Accounts |-> [d \in Days |-> NotTold]]

Next ==
    \/ NextDay
    \/ \E s \in Sdas, value \in Values \cup {NoValue} : RegisterSda(s, value) \/ UpdateSda(s, value)
    \/ \E s \in Sdas : RemoveSda(s)
    \/ \E w \in Workers :
          \/ BeginRun(w) \/ BeginChecks(w) \/ FlushBudget(w) \/ CommitRun(w) \/ RollbackRun(w)
          \/ \E a \in Accounts :
                \/ WriteGap(w, a) \/ SkipAccount(w, a) \/ ReadSdas(w, a)
                \/ \E told \in Bills : UpsertSpend(w, a, told)
          \/ \E s \in Sdas : MeasureBudget(w, s)

Spec == Init /\ [][Next]_vars

(***************************************************************************)
(* What the API shows.                                                     *)
(***************************************************************************)

\* get_spend_summary: a day with any gap is null, otherwise the sum of its rows.
Trend(d) ==
    IF \E a \in Accounts : <<a, d>> \in gaps THEN Unknown
    ELSE Total([a \in Accounts |-> Total(spend[a][d])])

\* list_budgets, list_budget_overruns
ShownBudgets == [s \in Registered |-> budget[s]]
ShownOverruns == {s \in Registered : overrun[s]}

(***************************************************************************)
(* Properties.                                                             *)
(***************************************************************************)
StampSets == [Thresholds -> 0..MaxDay]
RowSets == [Buckets -> Amounts \cup {0}]
Flushed == [Thresholds -> {Keep} \cup 0..MaxDay]
Flushes == [stamps : Flushed, finding : {"keep", "open", "resolved"}]
Verdicts == [sda : Buckets, stamps : Flushed, opens : BOOLEAN, resolves : BOOLEAN]

Runs == [stage : {"idle", "ingesting", "checking", "aborted"}, day : 0..MaxDay,
         alone : BOOLEAN, todo : SUBSET Accounts, account : Accounts \cup {"none"},
         seen : [Sdas -> Values \cup {NoValue}], wrote : [Accounts -> RowSets],
         gaps : SUBSET Accounts, told : [Accounts -> Int], merged : SUBSET Accounts,
         read : [Sdas -> StampSets], left : SUBSET Sdas, checked : SUBSET Sdas, verdict : Verdicts,
         flushed : [Sdas -> Flushes]]

TypeOK ==
    /\ today \in Days
    /\ sdas \in [Sdas -> [state : {"new", "registered", "removed"}, value : Values \cup {NoValue}]]
    /\ spend \in [Accounts -> [Days -> [Buckets -> Nat]]]
    /\ gaps \subseteq Accounts \X Days
    /\ budget \in [Sdas -> StampSets]
    /\ overrun \in [Sdas -> BOOLEAN]
    /\ disputed \subseteq Sdas
    /\ run \in [Workers -> Runs]
    /\ begun \in 0..MaxRuns
    /\ bill \in [Accounts -> [Days -> Int]]

\* A day of the trend that is not null adds up to what the provider billed, however
\* often it was ingested and whatever happened to the projects meanwhile, unless a
\* bill put two groups into one row or left an older row behind (SC-001).
SpendReconciles ==
    \A d \in Days :
        Trend(d) # Unknown /\ (\A a \in Accounts : bill[a][d] # NotTold)
        => Trend(d) = Total([a \in Accounts |-> bill[a][d]])

\* FR-016, R-507: opening is tied to a transition of the stamp and resolving to a
\* level, in transactions that overlap; all the same a project has an open overrun
\* finding exactly as long as its actual-100 stamp is set, unless some run checked
\* its budget against stamps that another run had replaced.
OverrunMatchesStamp ==
    \A s \in Registered \ disputed : budget[s]["actual_100"] # Never <=> s \in ShownOverruns

\* The rows of a project in the month of a day, up to that day.
Spent(rows, s, d) ==
    Total([p \in Accounts \X {e \in Days : MonthStart(d) <= e /\ e <= d} |-> rows[p[1]][p[2]][s]])

\* FR-016, FR-017: a run that no other overlapped leaves a finding open exactly for
\* the projects whose committed month has reached the cap, across month boundaries too.
OverrunFollowsSpend ==
    [][\A w \in Workers : CommitRun(w) /\ run[w].alone =>
          \A s \in Registered \ disputed :
             s \in run[w].checked => (s \in ShownOverruns' <=> Reaches(Spent(spend', s, run[w].day), 100, 1))]_vars

\* The stamps are of one calendar month: after a run about a day no stamp is older
\* than the month of that day.  A stamp set on the first of the month may still
\* belong to the last check of the month before.
StampsOfThisMonth ==
    [][\A w \in Workers : CommitRun(w) /\ run[w].alone =>
          \A s \in Registered, t \in Thresholds :
             budget'[s][t] # Never => budget'[s][t] >= MonthStart(run[w].day)]_vars

\* FR-010b of spec 003: an SDA can be removed.
RemovalIsNotRefused == \A s \in Registered : ~Collides(s)

\* SC-001 as it is written: what a run is about to commit for a day adds up to the bill.
RunReconciles ==
    \A w \in Workers, a \in Accounts :
        run[w].stage = "checking" /\ run[w].told[a] # NotTold
        => Total([b \in Buckets |-> View(w, a, run[w].day, b)]) = run[w].told[a]

=============================================================================
