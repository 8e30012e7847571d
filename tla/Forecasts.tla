----------------------------- MODULE Forecasts -----------------------------
(***************************************************************************)
(* The figures computed on request from collected history: the forecast of *)
(* a project's spend or capacity with its backtest                         *)
(* (backend/app/governance/forecasting.py, api/routers/forecasts.py) and   *)
(* the advice to step an instance class down                               *)
(* (backend/app/governance/rightsizing.py).                                *)
(*                                                                         *)
(* Rows arrive in any order and may be marked unknown.  The decimals are   *)
(* exact fractions here: the rounding of the last digit is left out.       *)
(***************************************************************************)
EXTENDS Integers, FiniteSets, FiniteSetsExt

CONSTANTS
    Sources,     \* services that cost, or servers that are measured
    LastHistory, \* bound: days of history
    Amounts,     \* values a row can have
    MinPeriods,  \* CLOUDPULSE_FORECAST_MIN_PERIODS, and that of rightsizing
    HeldOut,     \* BACKTEST_HELD_OUT_DAYS
    Scale,       \* the fraction observations are counted in, so that a mean is whole
    LowCpu       \* CLOUDPULSE_RIGHTSIZING_LOW_CPU_PERCENT

History == 1..LastHistory
Absent == -2
Unknown == -1   \* is_gap, is_unavailable

ASSUME ForecastAssumption ==
    /\ Amounts \subseteq Nat
    /\ LastHistory \in Nat /\ {MinPeriods, HeldOut, LowCpu} \subseteq Nat \ {0}
    /\ MinPeriods > 1
    /\ IsFiniteSet(Sources)
    /\ Scale \in Nat \ {0} /\ \A n \in 1..Cardinality(Sources) : Scale % n = 0

VARIABLES
    kind,        \* what the rows are: spend of services or CPU of servers
    rows         \* the rows of one project, by source and day

forecastVars == <<kind, rows>>

\* A row is written as unknown or with a value; an unknown one can still get a value.
Collect(s, d, v) ==
    /\ rows[s][d] = Absent \/ (rows[s][d] = Unknown /\ v \in Amounts)
    /\ rows' = [rows EXCEPT ![s][d] = v]
    /\ UNCHANGED kind

(***************************************************************************)
(* spend_history and capacity_history.                                     *)
(***************************************************************************)

\* Fault: a row without a value counts as zero.
KnownOrZero(t, d) == {s \in Sources : t[s][d] # Absent}

Known(t, d) == {s \in Sources : t[s][d] \notin {Absent, Unknown}}

HistoryDays(t) == {d \in History : Known(t, d) # {}}

Measured(t, d) == SumFunction([s \in Known(t, d) |-> IF t[s][d] = Unknown THEN 0 ELSE t[s][d]])

Observed(t, d) ==
    IF kind = "spend" THEN Measured(t, d) * Scale
    ELSE (Measured(t, d) * Scale) \div Cardinality(Known(t, d))

(***************************************************************************)
(* _fit, _predict and project.                                             *)
(***************************************************************************)

\* The line of least squares from the sums over n points, as whole numbers over one
\* denominator; it is level where they have one abscissa.
Line(origin, n, sumX, sumY, sumXX, sumXY) ==
    LET det == n * sumXX - sumX * sumX
        rise == n * sumXY - sumX * sumY
    IN IF det = 0 THEN [origin |-> origin, over |-> n, intercept |-> sumY, slope |-> 0]
       ELSE [origin |-> origin, over |-> n * det,
             intercept |-> sumY * det - rise * sumX, slope |-> n * rise]

Fit(t, days) ==
    LET x(d) == d - Min(days)
        sum(f) == SumFunction(f)
    IN Line(Min(days), Cardinality(days),
            sum([d \in days |-> x(d)]), sum([d \in days |-> Observed(t, d)]),
            sum([d \in days |-> x(d) * x(d)]), sum([d \in days |-> x(d) * Observed(t, d)]))

AtLeastZero(x) == IF x < 0 THEN 0 ELSE x

Predict(line, d) == AtLeastZero(line.intercept + line.slope * (d - line.origin))

NotEnough == [over |-> 0, value |-> 0]

\* Spend sums the horizon; capacity is the level on its last day.
Project(t, days, from, horizon) ==
    IF Cardinality(days) < MinPeriods THEN NotEnough
    ELSE LET line == Fit(t, days)
             last == from + horizon - 1
         IN [over |-> line.over,
             value |-> IF kind = "spend" THEN SumFunction([d \in from..last |-> Predict(line, d)])
                       ELSE Predict(line, last)]

(***************************************************************************)
(* backtest.                                                               *)
(***************************************************************************)
Latest(days, n) == CHOOSE late \in SUBSET days :
                      Cardinality(late) = n /\ \A d \in late : \A e \in days \ late : e < d

Cutoff(days) == Min(Latest(days, HeldOut))

\* Fault: the first day held out is trained on.
TrainingThrough(t) == {d \in HistoryDays(t) : d <= Cutoff(HistoryDays(t))}

Training(t) == {d \in HistoryDays(t) : d < Cutoff(HistoryDays(t))}

Backtest(t) ==
    LET days == HistoryDays(t) IN
    IF Cardinality(days) <= HeldOut THEN NotEnough
    ELSE Project(t, Training(t), Cutoff(days), HeldOut)

\* What a reader is shown: no backtest without a forecast.
Forecast(t) ==
    LET projection == Project(t, HistoryDays(t), LastHistory + 1, HeldOut)
    IN [projection |-> projection,
        backtest |-> IF projection = NotEnough THEN NotEnough ELSE Backtest(t)]

(***************************************************************************)
(* candidates and recommend, for one server with a smaller class to go to. *)
(***************************************************************************)
Recommend(t, s) ==
    LET days == {d \in History : s \in Known(t, d)}
        cpu(d) == IF t[s][d] = Unknown THEN 0 ELSE t[s][d]
    IN /\ Cardinality(days) >= MinPeriods
       /\ SumFunction([d \in days |-> cpu(d)]) < LowCpu * Cardinality(days)
       /\ \A d \in days : cpu(d) < 2 * LowCpu

-----------------------------------------------------------------------------
ForecastInit ==
    /\ kind \in {"spend", "capacity"}
    /\ rows = [s \in Sources |-> [d \in History |-> Absent]]

ForecastNext == \E s \in Sources, d \in History, v \in Amounts \cup {Unknown} : Collect(s, d, v)

ForecastSpec == ForecastInit /\ [][ForecastNext]_forecastVars

(***************************************************************************)
(* Properties.                                                             *)
(***************************************************************************)
ForecastTypeOK ==
    /\ kind \in {"spend", "capacity"}
    /\ rows \in [Sources -> [History -> Amounts \cup {Absent, Unknown}]]

\* The table with the known values of some days replaced.
Replaced(days, v) ==
    [s \in Sources |-> [d \in History |-> IF d \in days /\ s \in Known(rows, d) THEN v ELSE rows[s][d]]]

\* FR-022: a backtest forecasts from what came before the days it is held against; had
\* anything else been measured on those days it would have forecast the same.
BacktestIsBlind ==
    Cardinality(HistoryDays(rows)) > HeldOut =>
       \A v \in Amounts : Backtest(Replaced(Latest(HistoryDays(rows), HeldOut), v)) = Backtest(rows)

\* The table as if no unknown row had been written.
Forgotten == [s \in Sources |-> [d \in History |-> IF rows[s][d] = Unknown THEN Absent ELSE rows[s][d]]]

\* FR-020: a gap or an unavailable measurement is not a zero: no forecast, backtest or
\* recommendation is different for it.
UnknownIsNotZero ==
    /\ Forecast(rows) = Forecast(Forgotten)
    /\ kind = "capacity" => \A s \in Sources : Recommend(rows, s) = Recommend(Forgotten, s)

Residual(line, d) ==
    line.intercept + line.slope * (d - line.origin) - line.over * Observed(rows, d)

\* The squared error of a line with a common denominator, times its square.
Error(line) ==
    SumFunction([d \in HistoryDays(rows) |-> Residual(line, d) * Residual(line, d)])

\* The fitted line is the one of least squares: moving either end of it, however little,
\* makes the error no smaller.
LineIsLeastSquares ==
    Cardinality(HistoryDays(rows)) >= MinPeriods =>
       LET line == Fit(rows, HistoryDays(rows))
       IN \A up, tilt \in {-1, 0, 1} :
             Error(line) <= Error([line EXCEPT !.intercept = @ + up, !.slope = @ + tilt])

\* FR-020, FR-021, FR-022: what a reader is shown of the future rests on what was measured.
ForecastsAreHonest == BacktestIsBlind /\ UnknownIsNotZero /\ LineIsLeastSquares

=============================================================================
