------------------------- MODULE SpendBudgetProofs -------------------------
(***************************************************************************)
(* Machine-checked theorems about SpendBudget, for any number of accounts, *)
(* projects, tag values and overlapping invocations, any length of month   *)
(* and any cap.                                                            *)
(***************************************************************************)
EXTENDS SpendBudget, SumTheorems

-----------------------------------------------------------------------------
(* The calendar.                                                           *)

LEMMA MonthBegins ==
    ASSUME NEW d \in Nat \ {0}
    PROVE  MonthStart(d) \in Nat \ {0} /\ MonthStart(d) <= d
<1>1. MonthLength \in Nat \ {0}
  BY SpendAssumption
<1>. DEFINE q == (d - 1) \div MonthLength
<1>2. q \in Nat /\ q * MonthLength <= d - 1 /\ q * MonthLength >= 0
  BY <1>1
<1>. QED
  BY <1>1, <1>2 DEF MonthStart

-----------------------------------------------------------------------------
(* Type correctness.                                                       *)

RunShape(r) ==
    /\ r.verdict # NoVerdict => r.verdict.sda \in Sdas /\ r.stage = "checking"
    /\ r.stage # "idle" => r.day \in Days /\ r.day < today

TypeInv == TypeOK /\ \A w \in Workers : RunShape(run[w])

LEMMA BucketsFinite ==
    /\ IsFiniteSet(Buckets) /\ IsFiniteSet(Groups) /\ IsFiniteSet(Accounts)
    /\ Amounts \cup {0} \subseteq Nat
BY SpendAssumption, FS_AddElement DEF Buckets, Groups

LEMMA TotalIsNatural ==
    ASSUME NEW S, IsFiniteSet(S), NEW f \in [S -> Nat]
    PROVE  Total(f) \in Nat
<1>1. DOMAIN f = S /\ \A x \in S : f[x] \in Nat
  OBVIOUS
<1>. QED
  BY <1>1, SumIsPositive DEF Total, SumFunction

LEMMA StampTypes ==
    /\ NoStamps \in StampSets
    /\ Unflushed \in Flushes
    /\ NoVerdict \in Verdicts
    /\ \A st \in StampSets : \A t \in Thresholds : st[t] \in Nat
    /\ "actual_100" \in Thresholds
BY SpendAssumption
   DEF NoStamps, StampSets, Never, Unflushed, Flushes, Flushed, Keep, NoVerdict, Verdicts,
       Buckets, Thresholds

LEMMA NoRowsType == NoRows \in RowSets /\ \A rows \in RowSets : rows \in [Buckets -> Nat]
BY BucketsFinite DEF NoRows, RowSets

LEMMA IdleType ==
    /\ Idle \in Runs
    /\ RunShape(Idle)
    /\ Idle.stage = "idle" /\ Idle.verdict = NoVerdict /\ Idle.day = 0
BY SpendAssumption, StampTypes, NoRowsType
   DEF Idle, Runs, NotTold, RunShape, Buckets

LEMMA TypeInit == Init => TypeInv
<1>. SUFFICES ASSUME Init PROVE TypeInv
  OBVIOUS
<1>2. today \in Days /\ begun \in 0..MaxRuns
  BY SpendAssumption DEF Init, Days
<1>3. spend \in [Accounts -> [Days -> [Buckets -> Nat]]]
  BY NoRowsType DEF Init
<1>4. bill \in [Accounts -> [Days -> Int]]
  BY DEF Init, NotTold
<1>5. run \in [Workers -> Runs] /\ budget \in [Sdas -> StampSets]
  BY StampTypes, IdleType DEF Init
<1>6. TypeOK
  BY <1>2, <1>3, <1>4, <1>5 DEF Init, TypeOK
<1>. QED
  BY <1>6, IdleType DEF Init, TypeInv

\* Steps of a run that only change its own transaction.
LEMMA OneRunTypes ==
    ASSUME TypeInv, NEW w \in Workers, NEW r \in Runs, RunShape(r),
           run' = [run EXCEPT ![w] = r],
           UNCHANGED <<today, sdas, spendVars, budgetVars, begun>>
    PROVE  TypeInv'
<1>1. TypeOK'
  BY DEF TypeInv, TypeOK, spendVars, budgetVars
<1>2. \A v \in Workers : RunShape(run'[v])
  BY DEF TypeInv, TypeOK
<1>. QED
  BY <1>1, <1>2 DEF TypeInv, RunShape, spendVars, budgetVars

LEMMA NextDayTypes == ASSUME TypeInv, NextDay PROVE TypeInv'
<1>1. /\ today \in Days /\ today' \in Days /\ today < today'
      /\ UNCHANGED <<sdas, spendVars, budgetVars, run, begun>>
  BY SpendAssumption DEF NextDay, TypeInv, TypeOK, Days
<1>2. TypeOK'
  BY <1>1 DEF TypeInv, TypeOK, spendVars, budgetVars
<1>3. ASSUME NEW w \in Workers PROVE RunShape(run[w])'
  <2>1. RunShape(run[w]) /\ run'[w] = run[w]
    BY <1>1 DEF TypeInv
  <2>2. \A d \in Days : d < today => d < today'
    BY <1>1 DEF Days
  <2>. QED
    BY <2>1, <2>2 DEF RunShape
<1>. QED
  BY <1>2, <1>3 DEF TypeInv

LEMMA SdaTypes ==
    ASSUME TypeInv, NEW s \in Sdas, NEW value \in Values \cup {NoValue},
           RegisterSda(s, value) \/ UpdateSda(s, value)
    PROVE  TypeInv'
<1>1. sdas' \in [Sdas -> [state : {"new", "registered", "removed"}, value : Values \cup {NoValue}]]
  BY DEF RegisterSda, UpdateSda, TypeInv, TypeOK
<1>2. budget' \in [Sdas -> StampSets]
  BY StampTypes DEF RegisterSda, UpdateSda, TypeInv, TypeOK, budgetVars
<1>3. TypeOK'
  BY <1>1, <1>2 DEF RegisterSda, UpdateSda, TypeInv, TypeOK, spendVars, budgetVars
<1>. QED
  BY <1>3 DEF RegisterSda, UpdateSda, TypeInv, RunShape

LEMMA RevertedType ==
    ASSUME NEW rows \in [Buckets -> Nat], NEW s \in Sdas
    PROVE  Reverted(rows, s) \in [Buckets -> Nat]
BY SpendAssumption DEF Reverted, Buckets

LEMMA RemoveTypes == ASSUME TypeInv, NEW s \in Sdas, RemoveSda(s) PROVE TypeInv'
<1>1. spend' \in [Accounts -> [Days -> [Buckets -> Nat]]]
  <2>1. \A a \in Accounts, d \in Days : Reverted(spend[a][d], s) \in [Buckets -> Nat]
    BY RevertedType DEF TypeInv, TypeOK
  <2>. QED
    BY <2>1 DEF RemoveSda
<1>2. TypeOK'
  BY <1>1, StampTypes DEF RemoveSda, TypeInv, TypeOK
<1>. QED
  BY <1>2 DEF RemoveSda, TypeInv, RunShape

LEMMA BeginRunTypes == ASSUME TypeInv, NEW w \in Workers, BeginRun(w) PROVE TypeInv'
<1>. DEFINE fresh(alone) == [Idle EXCEPT !.stage = "ingesting", !.day = today - 1,
                                         !.alone = alone, !.todo = Accounts]
            others == \A u \in Workers : ~Active(u)
<1>1. today - 1 \in Days /\ today - 1 < today /\ today - 1 \in 0..MaxDay
  <2>1. today \in 1..MaxDay /\ MaxDay \in Nat
    BY SpendAssumption DEF TypeInv, TypeOK, Days
  <2>2. today > 1
    BY DEF BeginRun
  <2>. QED
    BY <2>1, <2>2 DEF Days
<1>2. others \in BOOLEAN
  OBVIOUS
<1>3. ASSUME NEW alone \in BOOLEAN
      PROVE  /\ fresh(alone) \in Runs /\ fresh(alone).verdict = NoVerdict
             /\ fresh(alone).day = today - 1
  BY <1>1, IdleType DEF Runs
<1>4. run' = [v \in Workers |-> IF v = w THEN fresh(others) ELSE [run[v] EXCEPT !.alone = FALSE]]
  BY DEF BeginRun
<1>. HIDE DEF fresh, others
<1>5. \A v \in Workers :
         /\ run'[v] \in Runs
         /\ \/ run'[v].verdict = run[v].verdict /\ run'[v].stage = run[v].stage
            \/ run'[v].verdict = NoVerdict
         /\ run'[v].stage # "idle" => run'[v].day \in Days /\ run'[v].day < today
  <2>. TAKE v \in Workers
  <2>1. CASE v = w
    BY <1>1, <1>2, <1>3, <1>4, <2>1
  <2>2. CASE v # w
    <3>1. run[v] \in Runs /\ RunShape(run[v])
      BY DEF TypeInv, TypeOK
    <3>2. run'[v] = [run[v] EXCEPT !.alone = FALSE]
      BY <1>4, <2>2
    <3>. QED
      BY <3>1, <3>2 DEF Runs, RunShape
  <2>. QED
    BY <2>1, <2>2
<1>6. run' \in [Workers -> Runs]
  BY <1>4, <1>5
<1>7. UNCHANGED <<today, sdas, spendVars, budgetVars>> /\ begun' = begun + 1 /\ begun < MaxRuns
  BY DEF BeginRun
<1>8. begun' \in 0..MaxRuns
  BY <1>7, SpendAssumption DEF TypeInv, TypeOK
<1>9. TypeOK'
  BY <1>6, <1>7, <1>8 DEF TypeInv, TypeOK, spendVars, budgetVars
<1>. QED
  BY <1>5, <1>7, <1>9 DEF TypeInv, RunShape

LEMMA AccountTypes ==
    ASSUME TypeInv, NEW w \in Workers, NEW a \in Accounts,
           WriteGap(w, a) \/ SkipAccount(w, a) \/ ReadSdas(w, a)
    PROVE  TypeInv'
<1>. DEFINE r == run'[w]
<1>1. run' = [run EXCEPT ![w] = r]
  BY DEF WriteGap, SkipAccount, ReadSdas, TypeInv, TypeOK
<1>2. run[w] \in Runs /\ RunShape(run[w])
  BY DEF TypeInv, TypeOK
<1>3. r \in Runs /\ r.verdict = run[w].verdict /\ r.stage = run[w].stage /\ r.day = run[w].day
  <2>1. CASE WriteGap(w, a)
    BY <1>2, <2>1 DEF WriteGap, TypeInv, TypeOK, Runs
  <2>2. CASE SkipAccount(w, a)
    BY <1>2, <2>2 DEF SkipAccount, TypeInv, TypeOK, Runs
  <2>3. CASE ReadSdas(w, a)
    <3>1. [s \in Sdas |-> IF s \in Registered THEN sdas[s].value ELSE NoValue]
             \in [Sdas -> Values \cup {NoValue}]
      BY DEF TypeInv, TypeOK
    <3>. QED
      BY <1>2, <2>3, <3>1 DEF ReadSdas, TypeInv, TypeOK, Runs
  <2>. QED
    BY <2>1, <2>2, <2>3
<1>4. RunShape(r)
  BY <1>2, <1>3 DEF RunShape
<1>5. UNCHANGED <<today, sdas, spendVars, budgetVars, begun>>
  BY DEF WriteGap, SkipAccount, ReadSdas
<1>. HIDE DEF r
<1>. QED
  BY <1>1, <1>3, <1>4, <1>5, OneRunTypes

LEMMA AbortedType ==
    ASSUME TypeInv, NEW w \in Workers, Active(w)
    PROVE  Aborted(w) \in Runs /\ RunShape(Aborted(w))
<1>1. run[w] \in Runs /\ RunShape(run[w])
  BY DEF TypeInv, TypeOK
<1>2. Aborted(w) \in Runs
  BY <1>1, IdleType DEF Aborted, Runs
<1>3. Aborted(w).verdict = NoVerdict /\ Aborted(w).day = run[w].day
  BY IdleType DEF Aborted, Runs
<1>. QED
  BY <1>1, <1>2, <1>3 DEF RunShape, Active

LEMMA UpsertTypes ==
    ASSUME TypeInv, NEW w \in Workers, NEW a \in Accounts, NEW told \in Bills,
           UpsertSpend(w, a, told)
    PROVE  TypeInv'
<1>1. run[w] \in Runs /\ RunShape(run[w]) /\ Active(w)
  BY DEF TypeInv, TypeOK, UpsertSpend, Ingesting, Active
<1>2. UNCHANGED <<today, sdas, spendVars, budgetVars, begun>>
  BY DEF UpsertSpend
<1>3. CASE Orphaned(w, told)
  <2>1. run' = [run EXCEPT ![w] = Aborted(w)]
    BY <1>3 DEF UpsertSpend
  <2>. QED
    BY <1>1, <1>2, <2>1, AbortedType, OneRunTypes
<1>4. CASE ~Orphaned(w, told)
  <2>1. PICK rows \in UpsertedRows(run[w].seen, told, spend[a][run[w].day]) :
           run' = [run EXCEPT ![w] = IngestedRun(w, a, told, rows)]
    BY <1>4 DEF UpsertSpend
  <2>2. rows \in RowSets
    BY DEF UpsertedRows, RowSets
  <2>3. Total(told) \in Int
    <3>1. told \in [Groups -> Nat]
      BY BucketsFinite DEF Bills
    <3>. QED
      BY <3>1, BucketsFinite, TotalIsNatural
  <2>. DEFINE merged == IF Merges(run[w].seen, told) THEN run[w].merged \cup {a} ELSE run[w].merged
              r == IngestedRun(w, a, told, rows)
  <2>4. merged \in SUBSET Accounts
    BY <1>1 DEF Runs
  <2>5. r \in Runs /\ r.verdict = run[w].verdict /\ r.stage = run[w].stage /\ r.day = run[w].day
    <3>1. r = [run[w] EXCEPT !.todo = @ \ {a}, !.account = "none", !.wrote[a] = rows,
                             !.told[a] = Total(told), !.merged = merged]
      BY Zenon DEF IngestedRun
    <3>. HIDE DEF merged, r
    <3>. QED
      BY <1>1, <2>2, <2>3, <2>4, <3>1 DEF Runs
  <2>6. RunShape(r)
    BY <1>1, <2>5 DEF RunShape
  <2>. HIDE DEF r
  <2>. QED
    BY <1>2, <2>1, <2>5, <2>6, OneRunTypes DEF r
<1>. QED
  BY <1>3, <1>4

LEMMA BeginChecksTypes == ASSUME TypeInv, NEW w \in Workers, BeginChecks(w) PROVE TypeInv'
<1>. DEFINE r == run'[w]
<1>1. run' = [run EXCEPT ![w] = r]
  BY DEF BeginChecks, TypeInv, TypeOK
<1>2. run[w] \in Runs /\ RunShape(run[w]) /\ run[w].stage # "idle"
  BY DEF TypeInv, TypeOK, BeginChecks
<1>3. r \in Runs /\ r.verdict = run[w].verdict /\ r.day = run[w].day /\ r.stage = "checking"
  BY <1>2 DEF BeginChecks, TypeInv, TypeOK, Runs, Registered
<1>4. RunShape(r)
  BY <1>2, <1>3 DEF RunShape
<1>5. UNCHANGED <<today, sdas, spendVars, budgetVars, begun>>
  BY DEF BeginChecks
<1>. HIDE DEF r
<1>. QED
  BY <1>1, <1>3, <1>4, <1>5, OneRunTypes

\* What check_thresholds finds of a budget: the stamps it read, those that survive the
\* reset, and those it leaves.
Before_(w, s) == [t \in Thresholds |-> ResetForNewMonth(run[w].read[s][t], run[w].day)]
After(w, s) == [t \in Thresholds |-> Stamp(Before_(w, s)[t], Crossed(w, s, t))]

Verdict(w, s) ==
    [sda |-> s,
     stamps |-> [t \in Thresholds |-> IF After(w, s)[t] = run[w].read[s][t] THEN Keep
                                                                           ELSE After(w, s)[t]],
     opens |-> After(w, s)["actual_100"] # Never /\ Before_(w, s)["actual_100"] = Never,
     resolves |-> Clears(Before_(w, s)["actual_100"], After(w, s)["actual_100"])]

\* Two fields of a record written one after the other are written together.
LEMMA TwoFields ==
    ASSUME NEW f, NEW w \in DOMAIN f, NEW left, NEW verdict
    PROVE  [f EXCEPT ![w].left = left, ![w].verdict = verdict]
              = [f EXCEPT ![w] = [f[w] EXCEPT !.left = left, !.verdict = verdict]]
<1>. DEFINE g == [f EXCEPT ![w].left = left]
<1>1. g[w] = [f[w] EXCEPT !.left = left] /\ DOMAIN g = DOMAIN f
  OBVIOUS
<1>2. [g EXCEPT ![w] = [g[w] EXCEPT !.verdict = verdict]]
        = [f EXCEPT ![w] = [g[w] EXCEPT !.verdict = verdict]]
  OBVIOUS
<1>. QED
  BY <1>1, <1>2

LEMMA MeasureGives ==
    ASSUME TypeInv, NEW w \in Workers, NEW s \in Sdas, MeasureBudget(w, s)
    PROVE  run' = [run EXCEPT ![w] = [run[w] EXCEPT !.left = @ \ {s}, !.verdict = Verdict(w, s)]]
<1>1. run' = [run EXCEPT ![w].left = run[w].left \ {s}, ![w].verdict = Verdict(w, s)]
  BY DEF MeasureBudget, Verdict, After, Before_
<1>2. w \in DOMAIN run
  BY DEF TypeInv, TypeOK
<1>. HIDE DEF MeasureBudget, Verdict
<1>. QED
  BY <1>1, <1>2, TwoFields

LEMMA VerdictType ==
    ASSUME TypeInv, NEW w \in Workers, NEW s \in Sdas
    PROVE  /\ Before_(w, s) \in StampSets /\ After(w, s) \in StampSets
           /\ Verdict(w, s) \in Verdicts /\ Verdict(w, s).sda = s /\ Verdict(w, s) # NoVerdict
<1>1. run[w].read[s] \in StampSets /\ today \in 0..MaxDay
  BY DEF TypeInv, TypeOK, Runs, Days
<1>2. Before_(w, s) \in StampSets
  <2>1. \A t \in Thresholds : run[w].read[s][t] \in 0..MaxDay /\ 0 \in 0..MaxDay
    BY <1>1, SpendAssumption DEF StampSets
  <2>2. \A t \in Thresholds : ResetForNewMonth(run[w].read[s][t], run[w].day) \in 0..MaxDay
    BY <2>1 DEF ResetForNewMonth, Never
  <2>. QED
    BY <2>2 DEF Before_, StampSets
<1>3. After(w, s) \in StampSets
  BY <1>1, <1>2, SpendAssumption DEF After, Stamp, StampSets, Never
<1>4. Verdict(w, s) \in Verdicts
  BY <1>1, <1>3 DEF Verdict, Verdicts, StampSets, Flushed, Keep, Clears, Buckets
<1>5. s # NoSda
  BY SpendAssumption
<1>. QED
  BY <1>2, <1>3, <1>4, <1>5 DEF Verdict, NoVerdict

LEMMA MeasureTypes ==
    ASSUME TypeInv, NEW w \in Workers, NEW s \in Sdas, MeasureBudget(w, s)
    PROVE  TypeInv'
<1>. DEFINE r == [run[w] EXCEPT !.left = @ \ {s}, !.verdict = Verdict(w, s)]
<1>1. run' = [run EXCEPT ![w] = r]
  BY MeasureGives
<1>2. run[w] \in Runs /\ RunShape(run[w])
  BY DEF TypeInv, TypeOK
<1>3. r \in Runs /\ r.verdict = Verdict(w, s) /\ r.stage = "checking" /\ r.day = run[w].day
  BY <1>2, VerdictType DEF Runs, MeasureBudget
<1>4. RunShape(r)
  BY <1>2, <1>3, VerdictType DEF RunShape
<1>5. UNCHANGED <<today, sdas, spendVars, budgetVars, begun>>
  BY DEF MeasureBudget
<1>. HIDE DEF r
<1>. QED
  BY <1>1, <1>3, <1>4, <1>5, OneRunTypes

LEMMA FlushType ==
    ASSUME TypeInv, NEW w \in Workers, run[w].verdict # NoVerdict
    PROVE  /\ Write(w) \in Flushes
           /\ FlushedRun(w) \in Runs /\ RunShape(FlushedRun(w))
<1>1. run[w] \in Runs /\ RunShape(run[w]) /\ run[w].verdict.sda \in Sdas
  BY DEF TypeInv, TypeOK, RunShape
<1>2. run[w].verdict \in Verdicts
  BY <1>1 DEF Runs
<1>3. Write(w) \in Flushes
  BY <1>2 DEF Write, Flushes, Verdicts
<1>4. /\ FlushedRun(w) \in Runs /\ FlushedRun(w).verdict = NoVerdict
      /\ FlushedRun(w).stage = run[w].stage /\ FlushedRun(w).day = run[w].day
  <2>. HIDE DEF Write
  <2>. QED
    BY <1>1, <1>3, StampTypes DEF FlushedRun, Runs
<1>. QED
  BY <1>1, <1>3, <1>4 DEF RunShape

LEMMA FlushTypes == ASSUME TypeInv, NEW w \in Workers, FlushBudget(w), Active(w) PROVE TypeInv'
<1>. DEFINE aborts == Write(w) # Unflushed /\ run[w].verdict.sda \notin Registered
<1>1. /\ run[w].verdict # NoVerdict
      /\ UNCHANGED <<today, sdas, spendVars, budgetVars, begun>>
      /\ run' = [run EXCEPT ![w] = IF aborts THEN Aborted(w) ELSE FlushedRun(w)]
  BY Zenon DEF FlushBudget
<1>. HIDE DEF aborts
<1>2. CASE aborts
  BY <1>1, <1>2, AbortedType, OneRunTypes
<1>3. CASE ~aborts
  BY <1>1, <1>3, FlushType, OneRunTypes
<1>. QED
  BY <1>2, <1>3

LEMMA CommitTypes == ASSUME TypeInv, NEW w \in Workers, CommitRun(w) PROVE TypeInv'
<1>1. run[w] \in Runs /\ RunShape(run[w]) /\ run[w].day \in Days
  BY DEF TypeInv, TypeOK, CommitRun, RunShape
<1>2. run' = [run EXCEPT ![w] = Idle] /\ UNCHANGED <<today, sdas, begun>>
  BY DEF CommitRun
<1>3. spend' \in [Accounts -> [Days -> [Buckets -> Nat]]]
  <2>. DEFINE row(a, old) == [b \in Buckets |-> IF run[w].wrote[a][b] > 0 THEN run[w].wrote[a][b]
                                                                      ELSE old[b]]
  <2>1. \A a \in Accounts : \A old \in [Buckets -> Nat] : row(a, old) \in [Buckets -> Nat]
    <3>1. \A a \in Accounts : run[w].wrote[a] \in [Buckets -> Nat]
      BY <1>1, NoRowsType DEF Runs
    <3>. QED
      BY <3>1
  <2>2. spend' = [a \in Accounts |-> [spend[a] EXCEPT ![run[w].day] = row(a, @)]]
    BY DEF CommitRun
  <2>3. \A a \in Accounts : spend[a] \in [Days -> [Buckets -> Nat]]
    BY DEF TypeInv, TypeOK
  <2>. HIDE DEF row
  <2>. QED
    BY <1>1, <2>1, <2>2, <2>3
<1>4. gaps' \subseteq Accounts \X Days
  BY <1>1 DEF CommitRun, TypeInv, TypeOK, Runs
<1>5. bill' \in [Accounts -> [Days -> Int]]
  <2>. DEFINE ingested == {a \in Accounts : run[w].told[a] # NotTold}
              leftover == {a \in ingested :
                             \E b \in Buckets : run[w].wrote[a][b] = 0 /\ spend[a][run[w].day][b] > 0}
              cell(a, old) == IF a \in run[w].merged \cup leftover THEN NotTold
                              ELSE IF a \in ingested THEN run[w].told[a] ELSE old
  <2>1. \A a \in Accounts : \A old \in Int : cell(a, old) \in Int
    BY <1>1 DEF Runs, NotTold
  <2>2. bill' = [a \in Accounts |-> [bill[a] EXCEPT ![run[w].day] = cell(a, @)]]
    BY DEF CommitRun
  <2>3. \A a \in Accounts : bill[a] \in [Days -> Int]
    BY DEF TypeInv, TypeOK
  <2>. HIDE DEF cell
  <2>. QED
    BY <1>1, <2>1, <2>2, <2>3
<1>6. budget' \in [Sdas -> StampSets]
  <2>1. budget' = [s \in Sdas |-> [t \in Thresholds |->
                      IF run[w].flushed[s].stamps[t] = Keep THEN budget[s][t]
                                                            ELSE run[w].flushed[s].stamps[t]]]
    BY DEF CommitRun
  <2>2. \A s \in Sdas, t \in Thresholds :
           /\ run[w].flushed[s].stamps[t] \in {Keep} \cup 0..MaxDay
           /\ budget[s][t] \in 0..MaxDay
    BY <1>1 DEF Runs, Flushes, Flushed, TypeInv, TypeOK, StampSets
  <2>. QED
    BY <2>1, <2>2 DEF StampSets
<1>7. overrun' \in [Sdas -> BOOLEAN] /\ disputed' \subseteq Sdas
  <2>1. overrun' = [s \in Sdas |-> CASE run[w].flushed[s].finding = "open" -> TRUE
                                     [] run[w].flushed[s].finding = "resolved" -> FALSE
                                     [] OTHER -> overrun[s]]
        /\ disputed' = disputed \cup {s \in Registered : run[w].read[s] # budget[s]}
    BY DEF CommitRun
  <2>. QED
    BY <2>1 DEF TypeInv, TypeOK, Registered
<1>8. run' \in [Workers -> Runs] /\ \A v \in Workers : RunShape(run'[v])
  BY <1>2, IdleType DEF TypeInv, TypeOK
<1>9. TypeOK'
  BY <1>2, <1>3, <1>4, <1>5, <1>6, <1>7, <1>8 DEF TypeInv, TypeOK
<1>. QED
  BY <1>2, <1>8, <1>9 DEF TypeInv, RunShape

LEMMA RollbackTypes == ASSUME TypeInv, NEW w \in Workers, RollbackRun(w) PROVE TypeInv'
BY IdleType, OneRunTypes DEF RollbackRun

\* Every step keeps the types.
LEMMA TypeStep == ASSUME TypeInv, [Next]_vars PROVE TypeInv'
<1>1. CASE NextDay
  BY <1>1, NextDayTypes
<1>2. ASSUME NEW s \in Sdas, NEW value \in Values \cup {NoValue},
             RegisterSda(s, value) \/ UpdateSda(s, value)
      PROVE  TypeInv'
  BY <1>2, SdaTypes
<1>3. ASSUME NEW s \in Sdas, RemoveSda(s) PROVE TypeInv'
  BY <1>3, RemoveTypes
<1>4. ASSUME NEW w \in Workers,
             BeginRun(w) \/ BeginChecks(w) \/ FlushBudget(w) \/ CommitRun(w) \/ RollbackRun(w)
      PROVE  TypeInv'
  <2>1. FlushBudget(w) => Active(w)
    BY DEF FlushBudget, Active, TypeInv, RunShape
  <2>. QED
    BY <1>4, <2>1, BeginRunTypes, BeginChecksTypes, FlushTypes, CommitTypes, RollbackTypes
<1>5. ASSUME NEW w \in Workers, NEW a \in Accounts,
             \/ WriteGap(w, a) \/ SkipAccount(w, a) \/ ReadSdas(w, a)
             \/ \E told \in Bills : UpsertSpend(w, a, told)
      PROVE  TypeInv'
  BY <1>5, AccountTypes, UpsertTypes
<1>6. ASSUME NEW w \in Workers, NEW s \in Sdas, MeasureBudget(w, s) PROVE TypeInv'
  BY <1>6, MeasureTypes
<1>7. CASE UNCHANGED vars
  BY <1>7 DEF vars, spendVars, budgetVars, TypeInv, TypeOK, RunShape
<1>. QED
  BY <1>1, <1>2, <1>3, <1>4, <1>5, <1>6, <1>7 DEF Next

\* The state keeps its types however runs, registrations, removals and days follow each
\* other: what an aborted or rolled back invocation leaves, a removed project's rows in
\* the "No SDA" bucket, and every amount a whole number that is never negative.
THEOREM TypeCorrect == Spec => []TypeOK
<1>1. Init => TypeInv
  BY TypeInit
<1>2. TypeInv /\ [Next]_vars => TypeInv'
  BY TypeStep
<1>3. TypeInv => TypeOK
  BY DEF TypeInv
<1>. QED
  BY <1>1, <1>2, <1>3, PTL DEF Spec

-----------------------------------------------------------------------------
(* A day adds up to its bill.                                              *)

\* A row of the table adds up to the bill its day was last told, and what a run is about
\* to write to the bill it was told, unless groups of that bill merged.
BillInv ==
    /\ \A a \in Accounts, d \in Days : bill[a][d] # NotTold => Total(spend[a][d]) = bill[a][d]
    /\ \A w \in Workers, a \in Accounts :
          /\ run[w].told[a] = NotTold => run[w].wrote[a] = NoRows
          /\ run[w].told[a] # NotTold /\ a \notin run[w].merged
             => Total(run[w].wrote[a]) = run[w].told[a]

\* Rows that each take one group of a bill add up to it.
LEMMA UnmergedRowsAddUp ==
    ASSUME NEW seen, NEW told \in Bills, NEW old, NEW rows \in UpsertedRows(seen, told, old),
           ~Merges(seen, told)
    PROVE  Total(rows) = Total(told)
<1>. DEFINE Paid == {g \in Groups : told[g] > 0}
            m == [g \in Paid |-> ResolveSda(seen, g)]
            Hit == {m[g] : g \in Paid}
<1>1. /\ rows \in [Buckets -> Nat] /\ told \in [Groups -> Nat]
      /\ IsFiniteSet(Groups) /\ IsFiniteSet(Buckets)
  BY BucketsFinite DEF UpsertedRows, Bills
<1>2. \A g \in Paid : m[g] \in Buckets /\ g \in LandsIn(seen, told, m[g])
  BY DEF ResolveSda, Buckets, LandsIn
<1>3. ASSUME NEW b \in Buckets, NEW g \in LandsIn(seen, told, b), NEW h \in LandsIn(seen, told, b)
      PROVE  g = h
  <2>. SUFFICES ASSUME g # h PROVE FALSE
    OBVIOUS
  <2>1. IsFiniteSet(LandsIn(seen, told, b))
    BY <1>1, FS_Subset DEF LandsIn
  <2>2. Cardinality({g, h}) <= Cardinality(LandsIn(seen, told, b))
    BY <2>1, FS_Subset
  <2>3. Cardinality({g, h}) = 2
    <3>1. IsFiniteSet({h}) /\ Cardinality({h}) = 1 /\ g \notin {h} /\ {g, h} = {h} \cup {g}
      BY FS_Singleton
    <3>. QED
      BY <3>1, FS_AddElement
  <2>4. Cardinality(LandsIn(seen, told, b)) \in Nat
    BY <2>1, FS_CardinalityType
  <2>. QED
    BY <2>2, <2>3, <2>4 DEF Merges
<1>4. \A g \in Paid : told[g] = rows[m[g]]
  <2>. SUFFICES ASSUME NEW g \in Paid PROVE told[g] = rows[m[g]]
    OBVIOUS
  <2>1. m[g] \in Buckets /\ g \in LandsIn(seen, told, m[g])
    BY <1>2
  <2>2. PICK h \in LandsIn(seen, told, m[g]) : rows[m[g]] = told[h]
    BY <2>1 DEF UpsertedRows
  <2>. QED
    BY <1>3, <2>1, <2>2
<1>5. \A x, y \in Paid : m[x] = m[y] => x = y
  BY <1>2, <1>3
<1>6. \A b \in Buckets \ Hit : rows[b] = 0
  <2>. SUFFICES ASSUME NEW b \in Buckets \ Hit PROVE LandsIn(seen, told, b) = {}
    BY DEF UpsertedRows
  <2>. QED
    BY DEF LandsIn
<1>7. SumFunctionOnSet(told, Groups) = SumFunctionOnSet(told, Paid)
  <2>1. Paid \in SUBSET Groups /\ \A g \in Groups \ Paid : told[g] = 0
    BY <1>1
  <2>2. Integral(told, Groups)
    BY <1>1 DEF Integral
  <2>. HIDE DEF Paid
  <2>. QED
    BY <1>1, <2>1, <2>2, SumOfSupport
<1>8. SumFunctionOnSet(told, Paid) = SumFunctionOnSet(rows, Hit)
  <2>1. IsFiniteSet(Paid) /\ Integral(told, Paid)
    BY <1>1, FS_Subset DEF Integral
  <2>. HIDE DEF Paid, m
  <2>. QED
    BY <1>4, <1>5, <2>1, SumRenamed
<1>9. SumFunctionOnSet(rows, Buckets) = SumFunctionOnSet(rows, Hit)
  <2>1. Integral(rows, Buckets)
    BY <1>1 DEF Integral
  <2>2. Hit \in SUBSET Buckets
    <3>. HIDE DEF Paid, m
    <3>. QED
      BY <1>2
  <2>. HIDE DEF Hit
  <2>. QED
    BY <1>1, <1>6, <2>1, <2>2, SumOfSupport
<1>10. DOMAIN rows = Buckets /\ DOMAIN told = Groups
  BY <1>1
<1>. QED
  BY <1>7, <1>8, <1>9, <1>10 DEF Total, SumFunction

\* Moving the rows of a project into the "No SDA" bucket keeps every total.
LEMMA RevertedRowsAddUp ==
    ASSUME NEW rows \in [Buckets -> Nat], NEW s \in Sdas
    PROVE  Total(Reverted(rows, s)) = Total(rows)
<1>. DEFINE new == Reverted(rows, s)
            Rest == (Buckets \ {s}) \ {NoSda}
<1>1. /\ IsFiniteSet(Buckets) /\ s \in Buckets /\ NoSda \in Buckets \ {s} /\ s # NoSda
      /\ IsFiniteSet(Buckets \ {s}) /\ IsFiniteSet(Rest)
  BY SpendAssumption, BucketsFinite, FS_RemoveElement DEF Buckets
<1>2. /\ new \in [Buckets -> Nat] /\ new[s] = 0 /\ new[NoSda] = rows[NoSda] + rows[s]
      /\ \A b \in Rest : new[b] = rows[b]
  BY <1>1, RevertedType DEF Reverted
<1>3. ASSUME NEW f \in [Buckets -> Nat]
      PROVE  SumFunctionOnSet(f, Buckets) = f[s] + (f[NoSda] + SumFunctionOnSet(f, Rest))
  <2>1. Integral(f, Buckets) /\ Integral(f, Buckets \ {s})
    BY DEF Integral
  <2>2. SumFunctionOnSet(f, Buckets) = f[s] + SumFunctionOnSet(f, Buckets \ {s})
    BY <1>1, <2>1, SumTakesOut
  <2>3. SumFunctionOnSet(f, Buckets \ {s}) = f[NoSda] + SumFunctionOnSet(f, Rest)
    BY <1>1, <2>1, SumTakesOut
  <2>. QED
    BY <2>2, <2>3
<1>4. SumFunctionOnSet(new, Rest) = SumFunctionOnSet(rows, Rest)
  <2>1. Integral(new, Rest)
    BY <1>2 DEF Integral
  <2>. HIDE DEF new, Rest
  <2>. QED
    BY <1>1, <1>2, <2>1, SumsAgree
<1>5. SumFunctionOnSet(rows, Rest) \in Int
  <2>1. Integral(rows, Rest)
    BY DEF Integral
  <2>. HIDE DEF Rest
  <2>. QED
    BY <1>1, <2>1, SumIsInteger
<1>6. SumFunctionOnSet(new, Buckets) = SumFunctionOnSet(rows, Buckets)
  <2>. HIDE DEF new, Rest
  <2>1. rows[s] \in Nat /\ rows[NoSda] \in Nat
    BY <1>1
  <2>2. SumFunctionOnSet(new, Buckets) = 0 + ((rows[NoSda] + rows[s]) + SumFunctionOnSet(rows, Rest))
    BY <1>2, <1>3, <1>4
  <2>3. SumFunctionOnSet(rows, Buckets) = rows[s] + (rows[NoSda] + SumFunctionOnSet(rows, Rest))
    BY <1>3
  <2>. QED
    BY <1>5, <2>1, <2>2, <2>3
<1>. QED
  BY <1>2, <1>6 DEF Total, SumFunction

LEMMA BillInit == Init => BillInv
<1>. SUFFICES ASSUME Init PROVE BillInv
  OBVIOUS
<1>1. \A w \in Workers, a \in Accounts : run[w].told[a] = NotTold /\ run[w].wrote[a] = NoRows
  BY DEF Init, Idle
<1>2. \A a \in Accounts, d \in Days : bill[a][d] = NotTold
  BY DEF Init
<1>. QED
  BY <1>1, <1>2 DEF BillInv

\* What a step leaves of the bills and of the transactions it does not touch.
LEMMA BillsOfOneRun ==
    ASSUME TypeInv, BillInv, NEW w \in Workers, NEW r \in Runs, run' = [run EXCEPT ![w] = r],
           UNCHANGED spendVars,
           \A a \in Accounts :
              /\ r.told[a] = NotTold => r.wrote[a] = NoRows
              /\ r.told[a] # NotTold /\ a \notin r.merged => Total(r.wrote[a]) = r.told[a]
    PROVE  BillInv'
<1>1. \A v \in Workers : run'[v] = IF v = w THEN r ELSE run[v]
  BY DEF TypeInv, TypeOK
<1>2. spend' = spend /\ bill' = bill
  BY DEF spendVars
<1>. QED
  BY <1>1, <1>2 DEF BillInv

\* Steps that leave every run's rows and bills alone.
LEMMA BillsKept ==
    ASSUME TypeInv, BillInv, UNCHANGED spendVars,
           \A v \in Workers :
              \/ /\ run'[v].told = run[v].told /\ run'[v].wrote = run[v].wrote
                 /\ run'[v].merged = run[v].merged
              \/ run'[v].told = Idle.told /\ run'[v].wrote = Idle.wrote
    PROVE  BillInv'
<1>1. spend' = spend /\ bill' = bill
  BY DEF spendVars
<1>2. \A a \in Accounts : Idle.told[a] = NotTold /\ Idle.wrote[a] = NoRows
  BY DEF Idle
<1>. QED
  BY <1>1, <1>2 DEF BillInv

LEMMA RemovalKeepsBills == ASSUME TypeInv, BillInv, NEW s \in Sdas, RemoveSda(s) PROVE BillInv'
<1>1. \A a \in Accounts, d \in Days : spend'[a][d] = Reverted(spend[a][d], s)
  BY DEF RemoveSda
<1>2. \A a \in Accounts, d \in Days : Total(spend'[a][d]) = Total(spend[a][d])
  BY <1>1, RevertedRowsAddUp DEF TypeInv, TypeOK
<1>. QED
  BY <1>2 DEF RemoveSda, BillInv

LEMMA UpsertKeepsBills ==
    ASSUME TypeInv, BillInv, NEW w \in Workers, NEW a \in Accounts, NEW told \in Bills,
           UpsertSpend(w, a, told)
    PROVE  BillInv'
<1>1. UNCHANGED spendVars /\ run[w] \in Runs /\ Active(w)
  BY DEF UpsertSpend, TypeInv, TypeOK, Ingesting, Active
<1>2. CASE Orphaned(w, told)
  <2>1. run' = [run EXCEPT ![w] = Aborted(w)]
    BY <1>2 DEF UpsertSpend
  <2>2. Aborted(w).told = Idle.told /\ Aborted(w).wrote = Idle.wrote
    BY DEF Aborted, Idle
  <2>3. \A v \in Workers : run'[v] = IF v = w THEN Aborted(w) ELSE run[v]
    BY <2>1 DEF TypeInv, TypeOK
  <2>. QED
    BY <1>1, <2>2, <2>3, BillsKept
<1>3. CASE ~Orphaned(w, told)
  <2>1. PICK rows \in UpsertedRows(run[w].seen, told, spend[a][run[w].day]) :
           run' = [run EXCEPT ![w] = IngestedRun(w, a, told, rows)]
    BY <1>3 DEF UpsertSpend
  <2>. DEFINE r == IngestedRun(w, a, told, rows)
  <2>2. /\ r.told = [run[w].told EXCEPT ![a] = Total(told)]
        /\ r.wrote = [run[w].wrote EXCEPT ![a] = rows]
        /\ r.merged = IF Merges(run[w].seen, told) THEN run[w].merged \cup {a} ELSE run[w].merged
    BY <1>1 DEF IngestedRun, Runs
  <2>3. ~Merges(run[w].seen, told) => Total(rows) = Total(told)
    BY <2>1, UnmergedRowsAddUp
  <2>4. Total(told) # NotTold
    <3>1. told \in [Groups -> Nat]
      BY BucketsFinite DEF Bills
    <3>. QED
      BY <3>1, BucketsFinite, TotalIsNatural DEF NotTold
  <2>5. DOMAIN run[w].told = Accounts /\ DOMAIN run[w].wrote = Accounts
    BY <1>1 DEF Runs
  <2>. HIDE DEF r
  <2>6. \A c \in Accounts :
           /\ r.told[c] = NotTold => r.wrote[c] = NoRows
           /\ r.told[c] # NotTold /\ c \notin r.merged => Total(r.wrote[c]) = r.told[c]
    <3>. TAKE c \in Accounts
    <3>1. CASE c = a
      BY <2>2, <2>3, <2>4, <2>5, <3>1
    <3>2. CASE c # a
      BY <2>2, <2>5, <3>2 DEF BillInv
    <3>. QED
      BY <3>1, <3>2
  <2>7. \A v \in Workers : run'[v] = IF v = w THEN r ELSE run[v]
    BY <2>1 DEF TypeInv, TypeOK, r
  <2>. QED
    BY <1>1, <2>6, <2>7 DEF BillInv, spendVars
<1>. QED
  BY <1>2, <1>3

LEMMA CommitKeepsBills == ASSUME TypeInv, BillInv, NEW w \in Workers, CommitRun(w) PROVE BillInv'
<1>. DEFINE r == run[w]
            ingested == {a \in Accounts : r.told[a] # NotTold}
            leftover == {a \in ingested :
                           \E b \in Buckets : r.wrote[a][b] = 0 /\ spend[a][r.day][b] > 0}
            row(a) == [b \in Buckets |-> IF r.wrote[a][b] > 0 THEN r.wrote[a][b]
                                                              ELSE spend[a][r.day][b]]
            cell(a) == IF a \in r.merged \cup leftover THEN NotTold
                       ELSE IF a \in ingested THEN r.told[a] ELSE bill[a][r.day]
<1>1. r \in Runs /\ r.day \in Days
  BY DEF TypeInv, TypeOK, CommitRun, RunShape
<1>2. \A a \in Accounts, d \in Days :
         spend'[a][d] = IF d = r.day THEN row(a) ELSE spend[a][d]
  BY <1>1 DEF CommitRun, TypeInv, TypeOK
<1>3. \A a \in Accounts, d \in Days :
         bill'[a][d] = IF d = r.day THEN cell(a) ELSE bill[a][d]
  BY <1>1 DEF CommitRun, TypeInv, TypeOK
<1>4. ASSUME NEW a \in Accounts, cell(a) # NotTold PROVE Total(row(a)) = cell(a)
  <2>1. /\ r.wrote[a] \in [Buckets -> Nat] /\ spend[a][r.day] \in [Buckets -> Nat]
    BY <1>1, NoRowsType DEF Runs, TypeInv, TypeOK
  <2>2. CASE a \in ingested
    <3>1. cell(a) = r.told[a] /\ a \notin r.merged /\ a \notin leftover
      BY <1>4, <2>2
    <3>2. \A b \in Buckets : row(a)[b] = r.wrote[a][b]
      BY <2>1, <2>2, <3>1
    <3>3. row(a) = r.wrote[a]
      BY <2>1, <3>2
    <3>4. Total(r.wrote[a]) = r.told[a]
      BY <2>2, <3>1 DEF BillInv
    <3>. QED
      BY <3>1, <3>3, <3>4
  <2>3. CASE a \notin ingested
    <3>1. cell(a) = bill[a][r.day] /\ r.wrote[a] = NoRows
      BY <1>4, <2>3 DEF BillInv
    <3>2. row(a) = spend[a][r.day]
      BY <2>1, <3>1 DEF NoRows
    <3>3. Total(spend[a][r.day]) = bill[a][r.day]
      BY <1>1, <1>4, <3>1 DEF BillInv
    <3>. QED
      BY <3>1, <3>2, <3>3
  <2>. QED
    BY <2>2, <2>3
<1>5. \A v \in Workers : run'[v] = IF v = w THEN Idle ELSE run[v]
  BY DEF CommitRun, TypeInv, TypeOK
<1>6. \A a \in Accounts : Idle.told[a] = NotTold /\ Idle.wrote[a] = NoRows
  BY DEF Idle
<1>. HIDE DEF row, cell, r
<1>. QED
  BY <1>2, <1>3, <1>4, <1>5, <1>6 DEF BillInv

LEMMA BillStep == ASSUME TypeInv, BillInv, [Next]_vars PROVE BillInv'
<1>1. ASSUME NEW w \in Workers, NEW r, run' = [run EXCEPT ![w] = r], UNCHANGED spendVars,
             \/ /\ r.told = run[w].told /\ r.wrote = run[w].wrote /\ r.merged = run[w].merged
             \/ r.told = Idle.told /\ r.wrote = Idle.wrote
      PROVE  BillInv'
  BY <1>1, BillsKept DEF TypeInv, TypeOK
<1>2. CASE NextDay
  BY <1>2 DEF NextDay, BillInv, spendVars
<1>3. ASSUME NEW s \in Sdas, NEW value \in Values \cup {NoValue},
             RegisterSda(s, value) \/ UpdateSda(s, value)
      PROVE  BillInv'
  BY <1>3 DEF RegisterSda, UpdateSda, BillInv, spendVars
<1>4. ASSUME NEW s \in Sdas, RemoveSda(s) PROVE BillInv'
  BY <1>4, RemovalKeepsBills
<1>5. ASSUME NEW w \in Workers, BeginRun(w) PROVE BillInv'
  <2>1. UNCHANGED spendVars
    BY <1>5 DEF BeginRun
  <2>2. \A v \in Workers :
           \/ /\ run'[v].told = run[v].told /\ run'[v].wrote = run[v].wrote
              /\ run'[v].merged = run[v].merged
           \/ run'[v].told = Idle.told /\ run'[v].wrote = Idle.wrote
    <3>1. \A v \in Workers \ {w} : run'[v] = [run[v] EXCEPT !.alone = FALSE] /\ run[v] \in Runs
      BY <1>5 DEF BeginRun, TypeInv, TypeOK
    <3>2. run'[w].told = Idle.told /\ run'[w].wrote = Idle.wrote
      BY <1>5 DEF BeginRun, Idle
    <3>. TAKE v \in Workers
    <3>4. CASE v = w
      BY <3>2, <3>4
    <3>5. CASE v # w
      <4>1. run'[v] = [run[v] EXCEPT !.alone = FALSE] /\ run[v] \in Runs
        BY <3>1, <3>5
      <4>. QED
        BY <4>1 DEF Runs
    <3>. QED
      BY <3>4, <3>5
  <2>. QED
    BY <2>1, <2>2, BillsKept
<1>6. ASSUME NEW w \in Workers, BeginChecks(w) PROVE BillInv'
  <2>1. /\ run'[w].told = run[w].told /\ run'[w].wrote = run[w].wrote
        /\ run'[w].merged = run[w].merged /\ \A v \in Workers \ {w} : run'[v] = run[v]
    BY <1>6 DEF BeginChecks, TypeInv, TypeOK, Runs
  <2>. QED
    BY <1>6, <2>1, BillsKept DEF BeginChecks
<1>7. ASSUME NEW w \in Workers, FlushBudget(w) PROVE BillInv'
  <2>1. UNCHANGED spendVars /\ run[w] \in Runs
    BY <1>7 DEF FlushBudget, TypeInv, TypeOK
  <2>2. Aborted(w).told = Idle.told /\ Aborted(w).wrote = Idle.wrote
    BY DEF Aborted, Idle
  <2>3. /\ FlushedRun(w).told = run[w].told /\ FlushedRun(w).wrote = run[w].wrote
        /\ FlushedRun(w).merged = run[w].merged
    BY <2>1 DEF FlushedRun, Runs
  <2>4. run' = [run EXCEPT ![w] = Aborted(w)] \/ run' = [run EXCEPT ![w] = FlushedRun(w)]
    <3>1. run' = [run EXCEPT ![w] =
                     IF Write(w) # Unflushed /\ run[w].verdict.sda \notin Registered
                     THEN Aborted(w) ELSE FlushedRun(w)]
      BY <1>7, Zenon DEF FlushBudget
    <3>. QED
      BY <3>1
  <2>. QED
    BY <1>1, <2>1, <2>2, <2>3, <2>4
<1>8. ASSUME NEW w \in Workers, CommitRun(w) PROVE BillInv'
  BY <1>8, CommitKeepsBills
<1>9. ASSUME NEW w \in Workers, RollbackRun(w) PROVE BillInv'
  BY <1>9, <1>1 DEF RollbackRun
<1>10. ASSUME NEW w \in Workers, NEW a \in Accounts,
              WriteGap(w, a) \/ SkipAccount(w, a) \/ ReadSdas(w, a)
       PROVE  BillInv'
  <2>1. /\ run'[w].told = run[w].told /\ run'[w].wrote = run[w].wrote
        /\ run'[w].merged = run[w].merged /\ \A v \in Workers \ {w} : run'[v] = run[v]
    <3>1. run[w] \in Runs /\ \A v \in Workers \ {w} : run'[v] = run[v]
      BY <1>10 DEF WriteGap, SkipAccount, ReadSdas, TypeInv, TypeOK
    <3>2. CASE WriteGap(w, a)
      BY <3>1, <3>2 DEF WriteGap, TypeInv, TypeOK, Runs
    <3>3. CASE SkipAccount(w, a)
      BY <3>1, <3>3 DEF SkipAccount, TypeInv, TypeOK, Runs
    <3>4. CASE ReadSdas(w, a)
      <4>. DEFINE seen == [s \in Sdas |-> IF s \in Registered THEN sdas[s].value ELSE NoValue]
      <4>1. run'[w] = [run[w] EXCEPT !.account = a, !.seen = seen]
        BY <3>1, <3>4 DEF ReadSdas, TypeInv, TypeOK
      <4>. HIDE DEF seen
      <4>. QED
        BY <3>1, <4>1 DEF Runs
    <3>. QED
      BY <1>10, <3>1, <3>2, <3>3, <3>4
  <2>. QED
    BY <1>10, <2>1, BillsKept DEF WriteGap, SkipAccount, ReadSdas
<1>11. ASSUME NEW w \in Workers, NEW a \in Accounts, NEW told \in Bills, UpsertSpend(w, a, told)
       PROVE  BillInv'
  BY <1>11, UpsertKeepsBills
<1>12. ASSUME NEW w \in Workers, NEW s \in Sdas, MeasureBudget(w, s) PROVE BillInv'
  <2>1. /\ run'[w].told = run[w].told /\ run'[w].wrote = run[w].wrote
        /\ run'[w].merged = run[w].merged /\ \A v \in Workers \ {w} : run'[v] = run[v]
    <3>. DEFINE q == [run[w] EXCEPT !.left = @ \ {s}, !.verdict = Verdict(w, s)]
    <3>1. run' = [run EXCEPT ![w] = q]
      BY <1>12, MeasureGives
    <3>2. q.told = run[w].told /\ q.wrote = run[w].wrote /\ q.merged = run[w].merged
      BY DEF TypeInv, TypeOK, Runs
    <3>. HIDE DEF q
    <3>. QED
      BY <3>1, <3>2 DEF TypeInv, TypeOK
  <2>. QED
    BY <1>12, <2>1, BillsKept DEF MeasureBudget
<1>13. CASE UNCHANGED vars
  BY <1>13 DEF vars, spendVars, BillInv
<1>. QED
  BY <1>2, <1>3, <1>4, <1>5, <1>6, <1>7, <1>8, <1>9, <1>10, <1>11, <1>12, <1>13 DEF Next

\* Whatever runs repeat or overlap and whatever happens to the projects meanwhile, a day
\* the trend shows adds up to what the provider billed, account by account.
THEOREM Reconciles == Spec => []SpendReconciles
<1>1. Init => TypeInv /\ BillInv
  BY TypeInit, BillInit
<1>2. TypeInv /\ BillInv /\ [Next]_vars => (TypeInv /\ BillInv)'
  BY TypeStep, BillStep
<1>3. BillInv => SpendReconciles
  <2>. SUFFICES ASSUME BillInv, NEW d \in Days, Trend(d) # Unknown,
                       \A a \in Accounts : bill[a][d] # NotTold
                PROVE  Trend(d) = Total([a \in Accounts |-> bill[a][d]])
    BY DEF SpendReconciles
  <2>1. Trend(d) = Total([a \in Accounts |-> Total(spend[a][d])])
    BY DEF Trend
  <2>2. [a \in Accounts |-> Total(spend[a][d])] = [a \in Accounts |-> bill[a][d]]
    BY DEF BillInv
  <2>. QED
    BY <2>1, <2>2
<1>. QED
  BY <1>1, <1>2, <1>3, PTL DEF Spec

-----------------------------------------------------------------------------
(* Overrun findings and stamps.                                            *)

Over(stamps) == stamps["actual_100"] # Never

\* The stamps a check leaves: the columns it writes over those it read.
Effective(read, columns) ==
    [t \in Thresholds |-> IF columns[t] = Keep THEN read[t] ELSE columns[t]]

Leaves(r, s) == Effective(r.read[s], r.flushed[s].stamps)
VerdictLeaves(r) == Effective(r.read[r.verdict.sda], r.verdict.stamps)

\* A check opens and resolves by the stamps it leaves.
CheckShape(r) ==
    /\ r.stage # "checking" => r.checked = {}
    /\ \A s \in Sdas \ r.checked : r.flushed[s] = Unflushed
    /\ \A s \in Sdas : /\ r.flushed[s].finding = "open" => Over(Leaves(r, s))
                       /\ r.flushed[s].finding = "resolved" => ~Over(Leaves(r, s))
    /\ r.verdict # NoVerdict =>
          /\ r.verdict.resolves <=> ~Over(VerdictLeaves(r))
          /\ r.verdict.opens => Over(VerdictLeaves(r))
          /\ Over(VerdictLeaves(r)) /\ ~r.verdict.opens => Over(r.read[r.verdict.sda])

\* The projects a run has measured or is going to.
Measured(r) == r.checked \cup (IF r.verdict = NoVerdict THEN {} ELSE {r.verdict.sda})

\* What two runs have flushed never meets in one budget, as the first holds its row.
OneWriter ==
    \A v, w \in Workers, s \in Sdas :
       v # w => \/ run[v].flushed[s].stamps = Unflushed.stamps
                \/ run[w].flushed[s].stamps = Unflushed.stamps

\* A check that leaves the finding alone found it as its stamps have it.
KeptAsFound ==
    \A w \in Workers, s \in Registered \ disputed :
       s \in run[w].checked /\ run[w].read[s] = budget[s] /\ run[w].flushed[s].finding = "keep"
       => (Over(Leaves(run[w], s)) <=> overrun[s])

StampInv ==
    /\ \A w \in Workers : CheckShape(run[w])
    /\ \A w \in Workers : \A s \in run[w].left \cup Measured(run[w]) : sdas[s].state # "new"
    /\ \A s \in Sdas : sdas[s].state = "new" => ~overrun[s]
    /\ OneWriter
    /\ KeptAsFound
    /\ OverrunMatchesStamp

LEMMA EffectiveOfNothing ==
    ASSUME NEW read \in StampSets
    PROVE  Effective(read, Unflushed.stamps) = read
BY DEF Effective, Unflushed, StampSets

\* A run that has checked nothing.
Blank(r) == /\ r.checked = {} /\ r.left = {} /\ r.verdict = NoVerdict
            /\ r.flushed = Idle.flushed

SameChecks(r, q) ==
    /\ r.stage = q.stage /\ r.checked = q.checked /\ r.left = q.left /\ r.read = q.read
    /\ r.flushed = q.flushed /\ r.verdict = q.verdict

LEMMA BlankShape == ASSUME NEW r, Blank(r) PROVE CheckShape(r) /\ Measured(r) = {}
BY DEF Blank, CheckShape, Measured, Idle, Unflushed

LEMMA StampsKept ==
    ASSUME TypeInv, StampInv, UNCHANGED <<sdas, budgetVars>>,
           \A v \in Workers : SameChecks(run'[v], run[v]) \/ Blank(run'[v])
    PROVE  StampInv'
<1>1. UNCHANGED <<sdas, budget, overrun, disputed>> /\ Registered' = Registered
  BY DEF budgetVars, Registered
<1>2. ASSUME NEW v \in Workers PROVE CheckShape(run[v])'
  <2>1. CASE SameChecks(run'[v], run[v])
    BY <2>1 DEF StampInv, SameChecks, CheckShape, Leaves, VerdictLeaves
  <2>. QED
    BY <1>2, <2>1, BlankShape
<1>3. ASSUME NEW v \in Workers
      PROVE  \A s \in run'[v].left \cup Measured(run'[v]) : sdas[s].state # "new"
  <2>1. CASE SameChecks(run'[v], run[v])
    BY <2>1 DEF StampInv, SameChecks, Measured
  <2>2. CASE Blank(run'[v])
    BY <2>2, BlankShape DEF Blank
  <2>. QED
    BY <1>3, <2>1, <2>2
<1>4. \A v \in Workers, s \in Sdas : \/ run'[v].flushed[s] = run[v].flushed[s]
                                     \/ run'[v].flushed[s] = Unflushed
  BY DEF SameChecks, Blank, Idle
<1>5. OneWriter'
  BY <1>4 DEF StampInv, OneWriter
<1>6. KeptAsFound'
  BY <1>1 DEF StampInv, KeptAsFound, SameChecks, Blank, Leaves
<1>7. OverrunMatchesStamp'
  BY <1>1 DEF StampInv, OverrunMatchesStamp, ShownOverruns
<1>. QED
  BY <1>1, <1>2, <1>3, <1>5, <1>6, <1>7 DEF StampInv

\* A step of the checks of one run.
LEMMA StampsOfOneRun ==
    ASSUME TypeInv, StampInv, NEW w \in Workers, NEW r \in Runs, run' = [run EXCEPT ![w] = r],
           UNCHANGED <<sdas, budgetVars>>, CheckShape(r),
           \A s \in r.left \cup Measured(r) : sdas[s].state # "new",
           \A v \in Workers \ {w}, s \in Sdas :
              \/ r.flushed[s].stamps = Unflushed.stamps
              \/ run[v].flushed[s].stamps = Unflushed.stamps,
           \A s \in Registered \ disputed :
              s \in r.checked /\ r.read[s] = budget[s] /\ r.flushed[s].finding = "keep"
              => (Over(Leaves(r, s)) <=> overrun[s])
    PROVE  StampInv'
<1>1. UNCHANGED <<sdas, budget, overrun, disputed>> /\ Registered' = Registered
  BY DEF budgetVars, Registered
<1>2. \A v \in Workers : run'[v] = IF v = w THEN r ELSE run[v]
  BY DEF TypeInv, TypeOK
<1>3. OneWriter'
  BY <1>2 DEF StampInv, OneWriter
<1>4. KeptAsFound'
  BY <1>1, <1>2 DEF StampInv, KeptAsFound
<1>5. OverrunMatchesStamp'
  BY <1>1 DEF StampInv, OverrunMatchesStamp, ShownOverruns
<1>. QED
  BY <1>1, <1>2, <1>3, <1>4, <1>5 DEF StampInv

LEMMA StampsInit == Init => StampInv
<1>. SUFFICES ASSUME Init PROVE StampInv
  OBVIOUS
<1>1. \A w \in Workers : run[w] = Idle /\ Blank(run[w])
  BY DEF Init, Blank, Idle
<1>2. \A w \in Workers : CheckShape(run[w]) /\ Measured(run[w]) = {} /\ run[w].left = {}
  BY <1>1, BlankShape DEF Blank
<1>3. \A s \in Sdas : sdas[s].state = "new" /\ ~overrun[s]
  BY DEF Init
<1>4. Registered = {}
  BY <1>3 DEF Registered
<1>5. OneWriter
  BY <1>1 DEF OneWriter, Idle
<1>. QED
  BY <1>2, <1>3, <1>4, <1>5 DEF StampInv, KeptAsFound, OverrunMatchesStamp

LEMMA RegistrationKeepsStamps ==
    ASSUME TypeInv, StampInv, NEW s \in Sdas, NEW value \in Values \cup {NoValue},
           RegisterSda(s, value)
    PROVE  StampInv'
<1>1. /\ sdas[s].state = "new" /\ run' = run /\ overrun' = overrun /\ disputed' = disputed
      /\ \A u \in Sdas \ {s} : sdas'[u] = sdas[u] /\ budget'[u] = budget[u]
      /\ sdas'[s].state = "registered" /\ budget'[s] = NoStamps
  BY DEF RegisterSda, TypeInv, TypeOK
<1>2. Registered' = Registered \cup {s} /\ s \notin Registered
  BY <1>1 DEF Registered
<1>3. \A w \in Workers : s \notin run[w].checked
  BY <1>1 DEF StampInv, Measured
<1>4. KeptAsFound'
  BY <1>1, <1>2, <1>3 DEF StampInv, KeptAsFound, Registered
<1>5. OverrunMatchesStamp'
  BY <1>1, <1>2, StampTypes DEF StampInv, OverrunMatchesStamp, ShownOverruns, Registered, NoStamps
<1>6. OneWriter'
  BY <1>1 DEF StampInv, OneWriter
<1>7. \A w \in Workers : CheckShape(run[w])'
  BY <1>1 DEF StampInv
<1>8. \A w \in Workers : \A u \in run[w].left \cup Measured(run[w]) : u \in Sdas
  BY DEF Measured, TypeInv, TypeOK, Runs, RunShape
<1>. QED
  BY <1>1, <1>4, <1>5, <1>6, <1>7, <1>8 DEF StampInv

LEMMA UpdateKeepsStamps ==
    ASSUME TypeInv, StampInv, NEW s \in Sdas, NEW value \in Values \cup {NoValue},
           UpdateSda(s, value)
    PROVE  StampInv'
<1>1. /\ run' = run /\ overrun' = overrun /\ disputed' = disputed /\ budget' = budget
      /\ \A u \in Sdas : sdas'[u].state = sdas[u].state
  BY DEF UpdateSda, TypeInv, TypeOK, budgetVars
<1>2. Registered' = Registered
  BY <1>1 DEF Registered
<1>3. \A w \in Workers : \A u \in run[w].left \cup Measured(run[w]) : u \in Sdas
  BY DEF Measured, TypeInv, TypeOK, Runs, RunShape
<1>. QED
  BY <1>1, <1>2, <1>3 DEF StampInv, OneWriter, KeptAsFound, OverrunMatchesStamp, ShownOverruns

LEMMA RemovalKeepsStamps ==
    ASSUME TypeInv, StampInv, NEW s \in Sdas, RemoveSda(s)
    PROVE  StampInv'
<1>1. /\ run' = run /\ disputed' = disputed
      /\ \A u \in Sdas \ {s} : /\ sdas'[u] = sdas[u] /\ budget'[u] = budget[u]
                              /\ overrun'[u] = overrun[u]
      /\ sdas'[s].state = "removed" /\ ~overrun'[s]
  BY DEF RemoveSda, TypeInv, TypeOK
<1>2. Registered' = Registered \ {s}
  BY <1>1 DEF Registered
<1>3. \A w \in Workers : \A u \in run[w].left \cup Measured(run[w]) : u \in Sdas
  BY DEF Measured, TypeInv, TypeOK, Runs, RunShape
<1>4. KeptAsFound'
  BY <1>1, <1>2 DEF StampInv, KeptAsFound, Registered
<1>5. OverrunMatchesStamp'
  BY <1>1, <1>2 DEF StampInv, OverrunMatchesStamp, ShownOverruns, Registered
<1>6. OneWriter' /\ \A w \in Workers : CheckShape(run[w])'
  BY <1>1 DEF StampInv, OneWriter
<1>. QED
  BY <1>1, <1>3, <1>4, <1>5, <1>6 DEF StampInv

LEMMA BeginChecksKeepsStamps ==
    ASSUME TypeInv, StampInv, NEW w \in Workers, BeginChecks(w)
    PROVE  StampInv'
<1>. DEFINE r == [run[w] EXCEPT !.stage = "checking", !.read = budget, !.left = Registered]
<1>1. run' = [run EXCEPT ![w] = r] /\ UNCHANGED <<sdas, budgetVars>>
  BY DEF BeginChecks
<1>2. run[w] \in Runs /\ run[w].stage = "ingesting" /\ run[w].verdict = NoVerdict
  BY DEF BeginChecks, TypeInv, TypeOK, RunShape
<1>3. /\ r \in Runs /\ r.flushed = run[w].flushed /\ r.checked = run[w].checked
      /\ r.verdict = NoVerdict /\ r.left = Registered
  BY <1>2 DEF Runs, TypeInv, TypeOK, Registered
<1>. HIDE DEF r
<1>4. r.checked = {} /\ \A s \in Sdas : r.flushed[s] = Unflushed
  BY <1>2, <1>3 DEF StampInv, CheckShape
<1>5. CheckShape(r)
  BY <1>3, <1>4 DEF CheckShape, Unflushed
<1>6. \A s \in r.left \cup Measured(r) : sdas[s].state # "new"
  BY <1>3, <1>4 DEF Measured, Registered
<1>. QED
  BY <1>1, <1>3, <1>4, <1>5, <1>6, StampsOfOneRun

\* What a verdict does to the columns is what Stamp makes of them.
LEMMA VerdictLeavesAfter ==
    ASSUME TypeInv, NEW w \in Workers, NEW s \in Sdas, NEW r,
           r.verdict = Verdict(w, s), r.read = run[w].read
    PROVE  /\ VerdictLeaves(r) = After(w, s)
           /\ r.verdict.resolves <=> ~Over(VerdictLeaves(r))
           /\ r.verdict.opens => Over(VerdictLeaves(r))
           /\ Over(VerdictLeaves(r)) /\ ~r.verdict.opens => Over(r.read[s])
<1>1. Before_(w, s) \in StampSets /\ After(w, s) \in StampSets /\ run[w].read[s] \in StampSets
  BY VerdictType DEF TypeInv, TypeOK, Runs
<1>2. /\ Verdict(w, s).sda = s
      /\ \A t \in Thresholds : Verdict(w, s).stamps[t] =
                IF After(w, s)[t] = run[w].read[s][t] THEN Keep ELSE After(w, s)[t]
      /\ Verdict(w, s).opens <=> Over(After(w, s)) /\ ~Over(Before_(w, s))
      /\ Verdict(w, s).resolves <=> ~Over(After(w, s))
  BY DEF Verdict, Clears, Over
<1>3. \A t \in Thresholds : After(w, s)[t] # Keep
  BY <1>1 DEF StampSets, Keep
<1>4. VerdictLeaves(r) = After(w, s)
  <2>1. VerdictLeaves(r) = [t \in Thresholds |-> After(w, s)[t]]
    BY <1>2, <1>3 DEF VerdictLeaves, Effective
  <2>2. After(w, s) = [t \in Thresholds |-> After(w, s)[t]]
    BY <1>1 DEF StampSets
  <2>. QED
    BY <2>1, <2>2
<1>5. Over(Before_(w, s)) => Over(run[w].read[s])
  BY StampTypes DEF Over, Before_, ResetForNewMonth
<1>. QED
  BY <1>2, <1>4, <1>5

LEMMA MeasureKeepsStamps ==
    ASSUME TypeInv, StampInv, NEW w \in Workers, NEW s \in Sdas, MeasureBudget(w, s)
    PROVE  StampInv'
<1>. DEFINE r == [run[w] EXCEPT !.left = @ \ {s}, !.verdict = Verdict(w, s)]
<1>1. run' = [run EXCEPT ![w] = r] /\ UNCHANGED <<sdas, budgetVars>>
  <2>1. UNCHANGED <<sdas, budgetVars>>
    BY DEF MeasureBudget
  <2>. QED
    BY <2>1, MeasureGives
<1>2. run[w] \in Runs /\ run[w].stage = "checking" /\ s \in run[w].left
  BY DEF TypeInv, TypeOK, MeasureBudget
<1>3. /\ r \in Runs /\ r.flushed = run[w].flushed /\ r.checked = run[w].checked
      /\ r.read = run[w].read /\ r.verdict = Verdict(w, s) /\ r.left = run[w].left \ {s}
      /\ r.stage = "checking" /\ r.verdict.sda = s
  BY <1>2, VerdictType DEF Runs
<1>. HIDE DEF r
<1>4. CheckShape(r)
  <2>1. \A u \in Sdas : Leaves(r, u) = Leaves(run[w], u)
    BY <1>3 DEF Leaves
  <2>. QED
    BY <1>3, <2>1, VerdictLeavesAfter DEF StampInv, CheckShape
<1>5. Measured(r) \subseteq run[w].checked \cup {s}
  BY <1>3 DEF Measured
<1>6. \A u \in r.left \cup Measured(r) : sdas[u].state # "new"
  BY <1>2, <1>3, <1>5 DEF StampInv, Measured
<1>7. \A u \in Sdas : Leaves(r, u) = Leaves(run[w], u)
  BY <1>3 DEF Leaves
<1>8. \A v \in Workers \ {w}, u \in Sdas :
         \/ r.flushed[u].stamps = Unflushed.stamps
         \/ run[v].flushed[u].stamps = Unflushed.stamps
  BY <1>3 DEF StampInv, OneWriter
<1>9. \A u \in Registered \ disputed :
         u \in r.checked /\ r.read[u] = budget[u] /\ r.flushed[u].finding = "keep"
         => (Over(Leaves(r, u)) <=> overrun[u])
  BY <1>3, <1>7 DEF StampInv, KeptAsFound, Registered
<1>. QED
  BY <1>1, <1>3, <1>4, <1>6, <1>8, <1>9, StampsOfOneRun

LEMMA AbortedIsBlank ==
    ASSUME NEW w \in Workers
    PROVE  Blank(Aborted(w)) /\ Blank(Idle)
BY DEF Aborted, Idle, Blank

LEMMA FlushKeepsStamps ==
    ASSUME TypeInv, StampInv, NEW w \in Workers, FlushBudget(w)
    PROVE  StampInv'
<1>. DEFINE s == run[w].verdict.sda
            r == FlushedRun(w)
<1>1. /\ UNCHANGED <<sdas, budgetVars>> /\ run[w].verdict # NoVerdict
      /\ \A v \in Workers \ {w} : \/ Write(w).stamps = Unflushed.stamps
                                  \/ run[v].flushed[s].stamps = Unflushed.stamps
      /\ run' = [run EXCEPT ![w] = IF Write(w) # Unflushed /\ s \notin Registered
                                   THEN Aborted(w) ELSE r]
  BY Zenon DEF FlushBudget
<1>2. run[w] \in Runs /\ s \in Sdas /\ run[w].stage = "checking" /\ RunShape(run[w])
  BY <1>1 DEF TypeInv, TypeOK, RunShape
<1>3. CASE run' = [run EXCEPT ![w] = Aborted(w)]
  <2>1. \A v \in Workers : run'[v] = IF v = w THEN Aborted(w) ELSE run[v]
    BY <1>3 DEF TypeInv, TypeOK
  <2>. QED
    BY <1>1, <2>1, AbortedIsBlank, StampsKept DEF SameChecks
<1>4. CASE run' = [run EXCEPT ![w] = r]
  <2>1. /\ r \in Runs /\ r.checked = run[w].checked \cup {s} /\ r.left = run[w].left
        /\ r.read = run[w].read /\ r.verdict = NoVerdict /\ r.stage = "checking"
        /\ r.flushed = [run[w].flushed EXCEPT ![s] = Write(w)]
    <3>1. r \in Runs
      BY <1>1, FlushType
    <3>. QED
      BY <1>2, <3>1 DEF FlushedRun, Runs
  <2>2. /\ Write(w).stamps = run[w].verdict.stamps
        /\ Write(w).finding = CASE Opens(w, s) -> "open" [] Resolves(w, s) -> "resolved"
                                [] OTHER -> "keep"
    BY DEF Write
  <2>3. DOMAIN run[w].flushed = Sdas
    BY <1>2 DEF Runs
  <2>. HIDE DEF r
  <2>4. Leaves(r, s) = VerdictLeaves(run[w])
    BY <1>2, <2>1, <2>2, <2>3 DEF Leaves, VerdictLeaves
  <2>5. \A u \in Sdas \ {s} : /\ Leaves(r, u) = Leaves(run[w], u)
                             /\ r.flushed[u] = run[w].flushed[u]
    BY <2>1, <2>3 DEF Leaves
  <2>6. /\ run[w].verdict.resolves <=> ~Over(VerdictLeaves(run[w]))
        /\ run[w].verdict.opens => Over(VerdictLeaves(run[w]))
        /\ Over(VerdictLeaves(run[w])) /\ ~run[w].verdict.opens => Over(run[w].read[s])
    BY <1>1 DEF StampInv, CheckShape
  <2>7. r.flushed[s] = Write(w)
    BY <1>2, <2>1, <2>3
  <2>. HIDE DEF s
  <2>8. CheckShape(r)
    <3>1. /\ Write(w).finding = "open" => Over(Leaves(r, s))
          /\ Write(w).finding = "resolved" => ~Over(Leaves(r, s))
      BY <2>2, <2>4, <2>6 DEF Opens, Resolves
    <3>. QED
      BY <2>1, <2>5, <2>7, <3>1 DEF CheckShape, StampInv
  <2>9. \A u \in r.left \cup Measured(r) : sdas[u].state # "new"
    BY <1>1, <2>1 DEF StampInv, Measured, s
  <2>10. \A v \in Workers \ {w}, u \in Sdas :
            \/ r.flushed[u].stamps = Unflushed.stamps
            \/ run[v].flushed[u].stamps = Unflushed.stamps
    BY <1>1, <2>5, <2>7 DEF StampInv, OneWriter
  <2>11. ASSUME NEW u \in Registered \ disputed, u \in r.checked, r.read[u] = budget[u],
                r.flushed[u].finding = "keep"
         PROVE  Over(Leaves(r, u)) <=> overrun[u]
    <3>1. CASE u # s
      BY <2>1, <2>5, <2>11, <3>1 DEF StampInv, KeptAsFound, Registered
    <3>2. CASE u = s
      <4>1. Over(budget[s]) <=> overrun[s]
        BY <2>11, <3>2 DEF StampInv, OverrunMatchesStamp, ShownOverruns, Over
      <4>2. ~Opens(w, s) /\ ~Resolves(w, s)
        BY <2>2, <2>7, <2>11, <3>2
      <4>3. run[w].read[s] = budget[s]
        BY <2>1, <2>11, <3>2
      <4>. QED
        BY <2>4, <2>6, <3>2, <4>1, <4>2, <4>3 DEF Opens, Resolves
    <3>. QED
      BY <3>1, <3>2
  <2>. QED
    BY <1>1, <1>4, <2>1, <2>8, <2>9, <2>10, <2>11, StampsOfOneRun
<1>. QED
  BY <1>1, <1>3, <1>4

\* What a commit makes of a budget and of its finding.
LEMMA CommitGives ==
    ASSUME TypeInv, NEW w \in Workers, CommitRun(w)
    PROVE  /\ run' = [run EXCEPT ![w] = Idle] /\ sdas' = sdas /\ Registered' = Registered
           /\ disputed' = disputed \cup {s \in Registered : run[w].read[s] # budget[s]}
           /\ \A s \in Sdas :
                 /\ budget'[s] = Effective(budget[s], run[w].flushed[s].stamps)
                 /\ run[w].flushed[s].finding = "open" => overrun'[s]
                 /\ run[w].flushed[s].finding = "resolved" => ~overrun'[s]
                 /\ run[w].flushed[s].finding = "keep" => overrun'[s] = overrun[s]
                 /\ run[w].flushed[s].finding \in {"open", "resolved", "keep"}
<1>1. /\ sdas' = sdas /\ run' = [run EXCEPT ![w] = Idle]
      /\ disputed' = disputed \cup {s \in Registered : run[w].read[s] # budget[s]}
      /\ budget' = [s \in Sdas |-> [t \in Thresholds |->
                        IF run[w].flushed[s].stamps[t] = Keep THEN budget[s][t]
                                                              ELSE run[w].flushed[s].stamps[t]]]
      /\ overrun' = [s \in Sdas |-> CASE run[w].flushed[s].finding = "open" -> TRUE
                                       [] run[w].flushed[s].finding = "resolved" -> FALSE
                                       [] OTHER -> overrun[s]]
  BY DEF CommitRun
<1>2. \A s \in Sdas : run[w].flushed[s].finding \in {"open", "resolved", "keep"}
  BY DEF TypeInv, TypeOK, Runs, Flushes
<1>3. \A s \in Sdas : budget'[s] = Effective(budget[s], run[w].flushed[s].stamps)
  BY <1>1 DEF Effective
<1>4. \A s \in Sdas :
         /\ run[w].flushed[s].finding = "open" => overrun'[s]
         /\ run[w].flushed[s].finding = "resolved" => ~overrun'[s]
         /\ run[w].flushed[s].finding = "keep" => overrun'[s] = overrun[s]
  BY <1>1
<1>5. Registered' = Registered
  BY <1>1 DEF Registered
<1>. QED
  BY <1>1, <1>2, <1>3, <1>4, <1>5

LEMMA CommitMatches ==
    ASSUME TypeInv, StampInv, NEW w \in Workers, CommitRun(w)
    PROVE  OverrunMatchesStamp'
<1>. SUFFICES ASSUME NEW s \in Registered, s \notin disputed'
              PROVE  Over(budget'[s]) <=> overrun'[s]
  BY CommitGives DEF OverrunMatchesStamp, ShownOverruns, Over
<1>1. s \in Sdas /\ s \notin disputed /\ run[w].read[s] = budget[s]
  BY CommitGives DEF Registered
<1>2. budget'[s] = Leaves(run[w], s)
  BY <1>1, CommitGives DEF Leaves
<1>3. CASE s \notin run[w].checked
  <2>1. run[w].flushed[s] = Unflushed
    BY <1>1, <1>3 DEF StampInv, CheckShape
  <2>2. budget'[s] = budget[s] /\ overrun'[s] = overrun[s]
    BY <1>1, <2>1, CommitGives, EffectiveOfNothing DEF TypeInv, TypeOK, Unflushed
  <2>. QED
    BY <1>1, <2>2 DEF StampInv, OverrunMatchesStamp, ShownOverruns, Over
<1>4. CASE s \in run[w].checked
  BY <1>1, <1>2, <1>4, CommitGives DEF StampInv, CheckShape, KeptAsFound
<1>. QED
  BY <1>3, <1>4

LEMMA CommitKeepsFound ==
    ASSUME TypeInv, StampInv, NEW w \in Workers, CommitRun(w)
    PROVE  KeptAsFound'
<1>1. OverrunMatchesStamp'
  BY CommitMatches
<1>2. \A v \in Workers : run'[v] = IF v = w THEN Idle ELSE run[v]
  BY CommitGives DEF TypeInv, TypeOK
<1>. SUFFICES ASSUME NEW v \in Workers, NEW s \in Registered, s \notin disputed',
                     s \in run'[v].checked, run'[v].read[s] = budget'[s],
                     run'[v].flushed[s].finding = "keep"
              PROVE  Over(Leaves(run'[v], s)) <=> overrun'[s]
  BY CommitGives DEF KeptAsFound
<1>3. v # w /\ run'[v] = run[v]
  BY <1>2 DEF Idle
<1>4. s \in Sdas /\ s \notin disputed /\ run[w].read[s] = budget[s]
  BY CommitGives DEF Registered
<1>5. Over(budget'[s]) <=> overrun'[s]
  BY <1>1, CommitGives DEF OverrunMatchesStamp, ShownOverruns, Over
<1>6. CASE run[v].flushed[s].stamps = Unflushed.stamps
  <2>1. run[v].read[s] \in StampSets
    BY <1>4 DEF TypeInv, TypeOK, Runs
  <2>2. Leaves(run[v], s) = budget'[s]
    BY <1>3, <1>6, <2>1, EffectiveOfNothing DEF Leaves
  <2>. QED
    BY <1>3, <1>5, <2>2
<1>7. CASE run[w].flushed[s].stamps = Unflushed.stamps
  <2>1. budget[s] \in StampSets
    BY <1>4 DEF TypeInv, TypeOK
  <2>2. budget'[s] = budget[s] /\ Leaves(run[w], s) = budget[s]
    BY <1>4, <1>7, <2>1, CommitGives, EffectiveOfNothing DEF Leaves
  <2>3. Over(Leaves(run[v], s)) <=> overrun[s]
    BY <1>3, <1>4, <2>2 DEF StampInv, KeptAsFound
  <2>4. Over(budget[s]) <=> overrun[s]
    BY <1>4 DEF StampInv, OverrunMatchesStamp, ShownOverruns, Over
  <2>. QED
    BY <1>3, <1>5, <2>2, <2>3, <2>4
<1>. QED
  BY <1>3, <1>4, <1>6, <1>7 DEF StampInv, OneWriter

LEMMA CommitKeepsStamps ==
    ASSUME TypeInv, StampInv, NEW w \in Workers, CommitRun(w)
    PROVE  StampInv'
<1>1. \A v \in Workers : run'[v] = IF v = w THEN Idle ELSE run[v]
  BY CommitGives DEF TypeInv, TypeOK
<1>2. CheckShape(Idle) /\ Measured(Idle) = {} /\ Idle.left = {}
  BY AbortedIsBlank, BlankShape DEF Blank
<1>3. \A v \in Workers : /\ CheckShape(run'[v])
                        /\ \A s \in run'[v].left \cup Measured(run'[v]) : sdas'[s].state # "new"
  BY <1>1, <1>2, CommitGives DEF StampInv
<1>4. OneWriter'
  BY <1>1 DEF StampInv, OneWriter, Idle
<1>5. \A s \in Sdas : sdas'[s].state = "new" => ~overrun'[s]
  <2>. SUFFICES ASSUME NEW s \in Sdas, sdas[s].state = "new" PROVE ~overrun'[s]
    BY CommitGives
  <2>1. s \notin run[w].checked /\ ~overrun[s]
    BY DEF StampInv, Measured
  <2>2. run[w].flushed[s].finding = "keep"
    BY <2>1 DEF StampInv, CheckShape, Unflushed
  <2>. QED
    BY <2>1, <2>2, CommitGives
<1>. QED
  BY <1>3, <1>4, <1>5, CommitMatches, CommitKeepsFound DEF StampInv

\* Every step keeps the stamps and the findings together.
LEMMA StampStep == ASSUME TypeInv, StampInv, [Next]_vars PROVE StampInv'
<1>1. CASE NextDay
  BY <1>1, StampsKept DEF NextDay, SameChecks
<1>2. ASSUME NEW s \in Sdas, NEW value \in Values \cup {NoValue},
             RegisterSda(s, value) \/ UpdateSda(s, value)
      PROVE  StampInv'
  BY <1>2, RegistrationKeepsStamps, UpdateKeepsStamps
<1>3. ASSUME NEW s \in Sdas, RemoveSda(s) PROVE StampInv'
  BY <1>3, RemovalKeepsStamps
<1>4. ASSUME NEW w \in Workers, BeginRun(w) PROVE StampInv'
  <2>1. UNCHANGED <<sdas, budgetVars>>
    BY <1>4 DEF BeginRun
  <2>2. Blank(run'[w])
    BY <1>4 DEF BeginRun, Blank, Idle
  <2>3. ASSUME NEW v \in Workers, v # w PROVE SameChecks(run'[v], run[v])
    <3>1. run'[v] = [run[v] EXCEPT !.alone = FALSE] /\ run[v] \in Runs
      BY <1>4, <2>3 DEF BeginRun, TypeInv, TypeOK
    <3>. QED
      BY <3>1 DEF SameChecks, Runs
  <2>. QED
    BY <2>1, <2>2, <2>3, StampsKept
<1>5. ASSUME NEW w \in Workers, BeginChecks(w) \/ FlushBudget(w) \/ CommitRun(w) PROVE StampInv'
  BY <1>5, BeginChecksKeepsStamps, FlushKeepsStamps, CommitKeepsStamps
<1>6. ASSUME NEW w \in Workers, NEW r, run' = [run EXCEPT ![w] = r],
             UNCHANGED <<sdas, budgetVars>>, SameChecks(r, run[w]) \/ Blank(r)
      PROVE  StampInv'
  <2>1. \A v \in Workers : run'[v] = IF v = w THEN r ELSE run[v]
    BY <1>6 DEF TypeInv, TypeOK
  <2>2. \A v \in Workers : SameChecks(run[v], run[v])
    BY DEF SameChecks
  <2>. QED
    BY <1>6, <2>1, <2>2, StampsKept
<1>7. ASSUME NEW w \in Workers, RollbackRun(w) PROVE StampInv'
  BY <1>6, <1>7, AbortedIsBlank DEF RollbackRun
<1>8. ASSUME NEW w \in Workers, NEW a \in Accounts,
             WriteGap(w, a) \/ SkipAccount(w, a) \/ ReadSdas(w, a)
      PROVE  StampInv'
  <2>1. UNCHANGED <<sdas, budgetVars>> /\ run[w] \in Runs
    BY <1>8 DEF WriteGap, SkipAccount, ReadSdas, TypeInv, TypeOK
  <2>2. CASE WriteGap(w, a)
    <3>. DEFINE q == [run[w] EXCEPT !.todo = @ \ {a}, !.gaps = @ \cup {a}]
    <3>1. run' = [run EXCEPT ![w] = q]
      BY <2>2 DEF WriteGap, TypeInv, TypeOK
    <3>2. SameChecks(q, run[w])
      BY <2>1 DEF SameChecks, Runs
    <3>. HIDE DEF q
    <3>. QED
      BY <1>6, <2>1, <3>1, <3>2
  <2>3. CASE SkipAccount(w, a)
    <3>. DEFINE q == [run[w] EXCEPT !.todo = @ \ {a}]
    <3>1. run' = [run EXCEPT ![w] = q]
      BY <2>3 DEF SkipAccount, TypeInv, TypeOK
    <3>2. SameChecks(q, run[w])
      BY <2>1 DEF SameChecks, Runs
    <3>. HIDE DEF q
    <3>. QED
      BY <1>6, <2>1, <3>1, <3>2
  <2>4. CASE ReadSdas(w, a)
    <3>. DEFINE seen == [s \in Sdas |-> IF s \in Registered THEN sdas[s].value ELSE NoValue]
    <3>1. run' = [run EXCEPT ![w] = [@ EXCEPT !.account = a, !.seen = seen]]
      BY <2>4 DEF ReadSdas, TypeInv, TypeOK
    <3>. HIDE DEF seen
    <3>2. SameChecks([run[w] EXCEPT !.account = a, !.seen = seen], run[w])
      BY <2>1 DEF SameChecks, Runs
    <3>. QED
      BY <1>6, <2>1, <3>1, <3>2
  <2>. QED
    BY <1>8, <2>2, <2>3, <2>4
<1>9. ASSUME NEW w \in Workers, NEW a \in Accounts, NEW told \in Bills, UpsertSpend(w, a, told)
      PROVE  StampInv'
  <2>1. UNCHANGED <<sdas, budgetVars>> /\ run[w] \in Runs
    BY <1>9 DEF UpsertSpend, TypeInv, TypeOK
  <2>2. ASSUME NEW rows PROVE SameChecks(IngestedRun(w, a, told, rows), run[w])
    BY <2>1 DEF SameChecks, Runs, IngestedRun
  <2>3. \/ run' = [run EXCEPT ![w] = Aborted(w)]
        \/ \E rows : run' = [run EXCEPT ![w] = IngestedRun(w, a, told, rows)]
    BY <1>9 DEF UpsertSpend
  <2>. QED
    BY <1>6, <2>1, <2>2, <2>3, AbortedIsBlank
<1>10. ASSUME NEW w \in Workers, NEW s \in Sdas, MeasureBudget(w, s) PROVE StampInv'
  BY <1>10, MeasureKeepsStamps
<1>11. CASE UNCHANGED vars
  BY <1>11, StampsKept DEF vars, SameChecks
<1>. QED
  BY <1>1, <1>2, <1>3, <1>4, <1>5, <1>7, <1>8, <1>9, <1>10, <1>11 DEF Next

\* Opening follows a transition of the stamp and resolving a level, in transactions that
\* overlap: all the same a project has an open overrun finding exactly as long as its
\* actual-100 stamp is set, unless a run checked stamps that another had replaced.
THEOREM OverrunsMatchStamps == Spec => []OverrunMatchesStamp
<1>1. Init => TypeInv /\ StampInv
  BY TypeInit, StampsInit
<1>2. TypeInv /\ StampInv /\ [Next]_vars => (TypeInv /\ StampInv)'
  BY TypeStep, StampStep
<1>3. StampInv => OverrunMatchesStamp
  BY DEF StampInv
<1>. QED
  BY <1>1, <1>2, <1>3, PTL DEF Spec

-----------------------------------------------------------------------------
(* Runs that no other overlaps.                                            *)

\* What the check of a project by a run found, as the committed rows and its own have it.
FitsSpend(w, s, stamps) ==
    /\ Over(stamps) <=> Reaches(MonthToDate(w, s), 100, 1)
    /\ \A t \in Thresholds : stamps[t] # Never => stamps[t] >= MonthStart(run[w].day)

AloneInv ==
    \A w \in Workers :
       Active(w) /\ run[w].alone =>
          /\ \A v \in Workers \ {w} : ~Active(v)
          /\ run[w].stage = "checking" => \A s \in Registered :
                /\ IF s \in run[w].left \cup Measured(run[w]) THEN run[w].read[s] = budget[s]
                                                             ELSE budget[s] = NoStamps
                /\ s \in run[w].checked => FitsSpend(w, s, Leaves(run[w], s))
                /\ run[w].verdict # NoVerdict /\ run[w].verdict.sda = s
                   => FitsSpend(w, s, VerdictLeaves(run[w]))

\* The days of the month so far are days of the model.
LEMMA MonthSoFar ==
    ASSUME NEW d \in Days
    PROVE  /\ MonthStart(d)..d = {e \in Days : MonthStart(d) <= e /\ e <= d}
           /\ MonthStart(d) \in Nat /\ MonthStart(d) <= d
<1>1. d \in Nat \ {0} /\ d <= MaxDay /\ MaxDay \in Nat
  BY SpendAssumption DEF Days
<1>2. MonthStart(d) \in Nat \ {0} /\ MonthStart(d) <= d
  BY <1>1, MonthBegins
<1>. QED
  BY <1>1, <1>2 DEF Days

LEMMA MonthKept ==
    ASSUME NEW w \in Workers, NEW s, run[w].day \in Days, run'[w].day = run[w].day,
           run'[w].wrote = run[w].wrote,
           \A a \in Accounts, d \in Days : spend'[a][d][s] = spend[a][d][s]
    PROVE  MonthToDate(w, s)' = MonthToDate(w, s)
<1>1. MonthStart(run[w].day)..run[w].day \subseteq Days
  BY MonthSoFar
<1>2. \A a \in Accounts, d \in Days : View(w, a, d, s)' = View(w, a, d, s)
  BY DEF View
<1>. DEFINE M == Accounts \X (MonthStart(run[w].day)..run[w].day)
<1>3. \A p \in M : p[1] \in Accounts /\ p[2] \in Days
  BY <1>1
<1>4. [p \in M |-> View(w, p[1], p[2], s)'] = [p \in M |-> View(w, p[1], p[2], s)]
  <2>. HIDE DEF M
  <2>. QED
    BY <1>2, <1>3
<1>. QED
  BY <1>4 DEF MonthToDate

\* What a run that no other overlaps has found of the projects it has measured.
ChecksFit(w) ==
    \A s \in Registered :
       /\ IF s \in run[w].left \cup Measured(run[w]) THEN run[w].read[s] = budget[s]
                                                    ELSE budget[s] = NoStamps
       /\ s \in run[w].checked => FitsSpend(w, s, Leaves(run[w], s))
       /\ run[w].verdict # NoVerdict /\ run[w].verdict.sda = s
          => FitsSpend(w, s, VerdictLeaves(run[w]))

LEMMA AloneInvSays ==
    AloneInv <=> \A w \in Workers : Active(w) /\ run[w].alone =>
                    /\ \A v \in Workers \ {w} : ~Active(v)
                    /\ run[w].stage = "checking" => ChecksFit(w)
BY DEF AloneInv, ChecksFit

\* A step of an active run: no other run was ever alone, and it stays alone if it was.
LEMMA AloneOfOneRun ==
    ASSUME TypeInv, AloneInv, NEW w \in Workers, Active(w), NEW r, run' = [run EXCEPT ![w] = r],
           r.alone = run[w].alone \/ r.alone = FALSE,
           r.stage = "checking" /\ r.alone /\ run[w].alone => ChecksFit(w)'
    PROVE  AloneInv'
<1>1. \A v \in Workers : run'[v] = IF v = w THEN r ELSE run[v]
  BY DEF TypeInv, TypeOK
<1>2. \A v \in Workers : Active(v) /\ run[v].alone => v = w
  BY DEF AloneInv
<1>. SUFFICES ASSUME NEW v \in Workers, Active(v)', run'[v].alone
              PROVE  /\ \A u \in Workers \ {v} : ~Active(u)'
                     /\ run'[v].stage = "checking" => ChecksFit(v)'
  BY DEF AloneInv, ChecksFit
<1>3. v = w
  BY <1>1, <1>2 DEF Active
<1>4. run'[w] = r /\ r.alone /\ run[w].alone
  BY <1>1, <1>3
<1>5. \A u \in Workers \ {v} : ~Active(u)'
  BY <1>1, <1>3, <1>4 DEF AloneInv, Active
<1>. QED
  BY <1>3, <1>4, <1>5

LEMMA AloneInit == Init => AloneInv
BY DEF Init, AloneInv, Active, Idle

\* The projects a run has on its list, in hand or behind it.
LEMMA MeasuredTypes ==
    ASSUME TypeInv, NEW w \in Workers
    PROVE  run[w].left \cup Measured(run[w]) \subseteq Sdas
BY DEF Measured, TypeInv, TypeOK, Runs, RunShape

LEMMA ChecksFitKept ==
    ASSUME TypeInv, NEW w \in Workers, run[w].stage = "checking", ChecksFit(w), run' = run,
           \A u \in Registered' : u \in Registered /\ budget'[u] = budget[u],
           \A u \in Registered', a \in Accounts, d \in Days : spend'[a][d][u] = spend[a][d][u]
    PROVE  ChecksFit(w)'
<1>1. run[w].day \in Days
  BY DEF TypeInv, RunShape
<1>2. ASSUME NEW u \in Registered' PROVE MonthToDate(w, u)' = MonthToDate(w, u)
  BY <1>1, MonthKept
<1>3. ASSUME NEW u \in Registered', NEW stamps, FitsSpend(w, u, stamps)
      PROVE  FitsSpend(w, u, stamps)'
  BY <1>2, <1>3 DEF FitsSpend
<1>4. Measured(run[w])' = Measured(run[w]) /\ VerdictLeaves(run[w])' = VerdictLeaves(run[w])
  BY DEF Measured, VerdictLeaves
<1>5. \A u \in Registered' : Leaves(run[w], u)' = Leaves(run[w], u)
  BY DEF Leaves
<1>. QED
  BY <1>3, <1>4, <1>5 DEF ChecksFit

LEMMA AloneKept ==
    ASSUME TypeInv, AloneInv, run' = run,
           \A w \in Workers : run[w].stage = "checking" /\ ChecksFit(w) => ChecksFit(w)'
    PROVE  AloneInv'
<1>. SUFFICES ASSUME NEW w \in Workers, Active(w)', run'[w].alone
              PROVE  /\ \A v \in Workers \ {w} : ~Active(v)'
                     /\ run'[w].stage = "checking" => ChecksFit(w)'
  BY DEF AloneInv, ChecksFit
<1>1. Active(w) /\ run[w].alone
  BY DEF Active
<1>2. (\A v \in Workers \ {w} : ~Active(v)) /\ (run[w].stage = "checking" => ChecksFit(w))
  BY <1>1, AloneInvSays
<1>. QED
  BY <1>2 DEF Active

LEMMA RegistrationKeepsAlone ==
    ASSUME TypeInv, StampInv, AloneInv, NEW s \in Sdas, NEW value \in Values \cup {NoValue},
           RegisterSda(s, value)
    PROVE  AloneInv'
<1>1. /\ sdas[s].state = "new" /\ run' = run /\ spend' = spend
      /\ \A u \in Sdas \ {s} : sdas'[u] = sdas[u] /\ budget'[u] = budget[u]
      /\ sdas'[s].state = "registered" /\ budget'[s] = NoStamps
  BY DEF RegisterSda, TypeInv, TypeOK, spendVars
<1>2. Registered' = Registered \cup {s} /\ s \notin Registered
  BY <1>1 DEF Registered
<1>. SUFFICES ASSUME NEW w \in Workers, run[w].stage = "checking", ChecksFit(w)
              PROVE  ChecksFit(w)'
  BY <1>1, AloneKept
<1>3. s \notin run[w].left \cup Measured(run[w])
  BY <1>1 DEF StampInv
<1>4. run[w].day \in Days
  BY DEF TypeInv, RunShape
<1>5. \A u \in Sdas : MonthToDate(w, u)' = MonthToDate(w, u)
  BY <1>1, <1>4, MonthKept
<1>6. ASSUME NEW u \in Registered', NEW stamps, FitsSpend(w, u, stamps)
      PROVE  FitsSpend(w, u, stamps)'
  BY <1>1, <1>5, <1>6 DEF FitsSpend, Registered
<1>7. Measured(run[w])' = Measured(run[w]) /\ VerdictLeaves(run[w])' = VerdictLeaves(run[w])
  BY <1>1 DEF Measured, VerdictLeaves
<1>8. \A u \in Sdas : Leaves(run[w], u)' = Leaves(run[w], u)
  BY <1>1 DEF Leaves
<1>9. s \notin run[w].checked /\ ~(run[w].verdict # NoVerdict /\ run[w].verdict.sda = s)
  BY <1>3 DEF Measured
<1>. QED
  BY <1>1, <1>2, <1>3, <1>6, <1>7, <1>8, <1>9 DEF ChecksFit, Registered

LEMMA RemovalKeepsAlone ==
    ASSUME TypeInv, AloneInv, NEW s \in Sdas, RemoveSda(s)
    PROVE  AloneInv'
<1>1. /\ run' = run
      /\ \A u \in Sdas \ {s} : sdas'[u] = sdas[u] /\ budget'[u] = budget[u]
      /\ sdas'[s].state = "removed"
      /\ \A a \in Accounts, d \in Days : spend'[a][d] = Reverted(spend[a][d], s)
  BY DEF RemoveSda, TypeInv, TypeOK
<1>2. Registered' \subseteq Registered \ {s}
  BY <1>1 DEF Registered
<1>3. ASSUME NEW rows \in [Buckets -> Nat], NEW u \in Sdas \ {s}
      PROVE  Reverted(rows, s)[u] = rows[u]
  BY SpendAssumption DEF Reverted, Buckets
<1>4. \A a \in Accounts, d \in Days : \A u \in Sdas \ {s} : spend'[a][d][u] = spend[a][d][u]
  BY <1>1, <1>3 DEF TypeInv, TypeOK
<1>5. \A u \in Registered' : u \in Registered /\ budget'[u] = budget[u]
  BY <1>1, <1>2 DEF Registered
<1>6. \A u \in Registered', a \in Accounts, d \in Days : spend'[a][d][u] = spend[a][d][u]
  BY <1>2, <1>4 DEF Registered
<1>. QED
  BY <1>1, <1>5, <1>6, ChecksFitKept, AloneKept

LEMMA BeginRunKeepsAlone ==
    ASSUME TypeInv, NEW w \in Workers, BeginRun(w)
    PROVE  AloneInv'
<1>1. /\ run'[w].stage = "ingesting" /\ run'[w].alone = (\A u \in Workers : ~Active(u))
      /\ \A v \in Workers \ {w} : run'[v] = [run[v] EXCEPT !.alone = FALSE] /\ run[v] \in Runs
  BY DEF BeginRun, Idle, TypeInv, TypeOK
<1>2. \A v \in Workers \ {w} : run'[v].alone = FALSE /\ run'[v].stage = run[v].stage
  <2>. TAKE v \in Workers \ {w}
  <2>1. run'[v] = [run[v] EXCEPT !.alone = FALSE] /\ run[v] \in Runs
    BY <1>1
  <2>. QED
    BY <2>1 DEF Runs
<1>. QED
  BY <1>1, <1>2 DEF AloneInv, Active

LEMMA BeginChecksKeepsAlone ==
    ASSUME TypeInv, StampInv, AloneInv, NEW w \in Workers, BeginChecks(w)
    PROVE  AloneInv'
<1>. DEFINE r == [run[w] EXCEPT !.stage = "checking", !.read = budget, !.left = Registered]
<1>1. run' = [run EXCEPT ![w] = r] /\ UNCHANGED <<sdas, budgetVars>>
  BY DEF BeginChecks
<1>2. run[w] \in Runs /\ run[w].stage = "ingesting" /\ run[w].verdict = NoVerdict /\ Active(w)
  BY DEF BeginChecks, TypeInv, TypeOK, RunShape, Active
<1>3. /\ r.checked = run[w].checked /\ r.verdict = NoVerdict /\ r.left = Registered
      /\ r.alone = run[w].alone /\ r.read = budget
  BY <1>2 DEF Runs
<1>. HIDE DEF r
<1>4. r.checked = {}
  BY <1>2, <1>3 DEF StampInv, CheckShape
<1>5. run'[w] = r /\ Registered' = Registered /\ budget' = budget
  BY <1>1 DEF TypeInv, TypeOK, Registered, budgetVars
<1>6. ChecksFit(w)'
  BY <1>3, <1>4, <1>5 DEF ChecksFit
<1>. QED
  BY <1>1, <1>2, <1>3, <1>6, AloneOfOneRun

\* The stamps a check leaves are what the month has reached, and of this month.
LEMMA AfterFitsSpend ==
    ASSUME TypeInv, NEW w \in Workers, NEW s \in Sdas, Active(w)
    PROVE  FitsSpend(w, s, After(w, s))
<1>1. run[w].day \in Days /\ run[w].day < today /\ today \in Days
  BY DEF TypeInv, TypeOK, RunShape, Active
<1>. DEFINE start == MonthStart(run[w].day)
<1>2. start \in Nat /\ start <= run[w].day
  BY <1>1, MonthSoFar
<1>3. today \in Nat \ {0} /\ run[w].day \in Nat
  BY <1>1, SpendAssumption DEF Days
<1>4. Before_(w, s) \in StampSets /\ After(w, s) \in StampSets /\ run[w].read[s] \in StampSets
  BY VerdictType DEF TypeInv, TypeOK, Runs
<1>5. Crossed(w, s, "actual_100") = Reaches(MonthToDate(w, s), 100, 1)
  BY DEF Crossed
<1>6. Over(After(w, s)) <=> Crossed(w, s, "actual_100")
  BY <1>3, StampTypes DEF Over, After, Stamp, Never
<1>7. ASSUME NEW t \in Thresholds, After(w, s)[t] # Never PROVE After(w, s)[t] >= start
  <2>1. After(w, s)[t] = today \/ (After(w, s)[t] = Before_(w, s)[t] /\ Before_(w, s)[t] # Never)
    BY <1>7 DEF After, Stamp
  <2>2. Before_(w, s)[t] # Never => ~(Before_(w, s)[t] < start)
    BY DEF Before_, ResetForNewMonth
  <2>3. Before_(w, s)[t] \in Nat
    BY <1>4, StampTypes
  <2>. HIDE DEF start
  <2>. QED
    BY <1>1, <1>2, <1>3, <2>1, <2>2, <2>3
<1>. QED
  BY <1>5, <1>6, <1>7 DEF FitsSpend

LEMMA MeasureKeepsAlone ==
    ASSUME TypeInv, StampInv, AloneInv, NEW w \in Workers, NEW s \in Sdas, MeasureBudget(w, s)
    PROVE  AloneInv'
<1>. DEFINE r == [run[w] EXCEPT !.left = @ \ {s}, !.verdict = Verdict(w, s)]
<1>1. run' = [run EXCEPT ![w] = r] /\ UNCHANGED <<sdas, spendVars, budgetVars>>
  <2>1. UNCHANGED <<sdas, spendVars, budgetVars>>
    BY DEF MeasureBudget
  <2>. QED
    BY <2>1, MeasureGives
<1>2. /\ run[w] \in Runs /\ run[w].stage = "checking" /\ s \in run[w].left /\ Active(w)
      /\ run[w].verdict = NoVerdict
  BY DEF TypeInv, TypeOK, MeasureBudget, Active
<1>3. /\ r.flushed = run[w].flushed /\ r.checked = run[w].checked /\ r.alone = run[w].alone
      /\ r.read = run[w].read /\ r.verdict = Verdict(w, s) /\ r.left = run[w].left \ {s}
      /\ r.day = run[w].day /\ r.wrote = run[w].wrote /\ r.verdict.sda = s
      /\ r.verdict # NoVerdict
  BY <1>2, VerdictType DEF Runs
<1>. HIDE DEF r
<1>4. run'[w] = r /\ Registered' = Registered /\ budget' = budget /\ spend' = spend
  BY <1>1 DEF TypeInv, TypeOK, Registered, budgetVars, spendVars
<1>5. \A u : MonthToDate(w, u)' = MonthToDate(w, u)
  <2>1. run[w].day \in Days
    BY <1>2 DEF TypeInv, RunShape
  <2>. QED
    BY <1>3, <1>4, <2>1, MonthKept
<1>6. ASSUME NEW u, NEW stamps, FitsSpend(w, u, stamps) PROVE FitsSpend(w, u, stamps)'
  BY <1>3, <1>4, <1>5, <1>6 DEF FitsSpend
<1>7. VerdictLeaves(r) = After(w, s) /\ FitsSpend(w, s, After(w, s))
  BY <1>2, <1>3, VerdictLeavesAfter, AfterFitsSpend
<1>8. \A u : Leaves(r, u) = Leaves(run[w], u)
  BY <1>3 DEF Leaves
<1>9. r.left \cup Measured(r) = run[w].left \cup Measured(run[w])
  BY <1>2, <1>3 DEF Measured
<1>10. ASSUME run[w].alone PROVE ChecksFit(w)'
  <2>1. ChecksFit(w)
    BY <1>2, <1>10, AloneInvSays
  <2>2. /\ Leaves(run[w], s)' = Leaves(r, s) /\ VerdictLeaves(run[w])' = VerdictLeaves(r)
        /\ \A u \in Registered : Leaves(run[w], u)' = Leaves(run[w], u)
    BY <1>4, <1>8 DEF Leaves, VerdictLeaves
  <2>3. ASSUME NEW u \in Registered, u \in r.checked PROVE FitsSpend(w, u, Leaves(run[w], u))'
    BY <1>3, <1>6, <2>1, <2>2, <2>3 DEF ChecksFit
  <2>4. FitsSpend(w, s, VerdictLeaves(run[w]))'
    BY <1>6, <1>7, <2>2
  <2>5. \A u \in Registered : IF u \in r.left \cup Measured(r) THEN r.read[u] = budget[u]
                                                             ELSE budget[u] = NoStamps
    BY <1>3, <1>9, <2>1 DEF ChecksFit
  <2>. QED
    BY <1>3, <1>4, <2>3, <2>4, <2>5 DEF ChecksFit
<1>. QED
  BY <1>1, <1>2, <1>3, <1>10, AloneOfOneRun

LEMMA FlushKeepsAlone ==
    ASSUME TypeInv, StampInv, AloneInv, NEW w \in Workers, FlushBudget(w)
    PROVE  AloneInv'
<1>. DEFINE r == FlushedRun(w)
<1>0. run[w].verdict # NoVerdict
  BY DEF FlushBudget
<1>a. PICK s \in Sdas : s = run[w].verdict.sda
  BY <1>0 DEF TypeInv, RunShape
<1>1. /\ UNCHANGED <<sdas, spendVars, budgetVars>> /\ run[w].verdict # NoVerdict
      /\ run' = [run EXCEPT ![w] = IF Write(w) # Unflushed /\ s \notin Registered
                                   THEN Aborted(w) ELSE r]
  BY <1>a, Zenon DEF FlushBudget
<1>2. run[w] \in Runs /\ s \in Sdas /\ run[w].stage = "checking" /\ Active(w)
  BY <1>1, <1>a DEF TypeInv, TypeOK, RunShape, Active
<1>3. CASE run' = [run EXCEPT ![w] = Aborted(w)]
  <2>1. Aborted(w).stage = "aborted"
    BY DEF Aborted, Idle
  <2>2. Aborted(w).alone = FALSE
    BY DEF Aborted, Idle
  <2>. QED
    BY <1>2, <1>3, <2>1, <2>2, AloneOfOneRun
<1>4. CASE run' = [run EXCEPT ![w] = r]
  <2>1. /\ r.checked = run[w].checked \cup {s} /\ r.left = run[w].left
        /\ r.read = run[w].read /\ r.verdict = NoVerdict /\ r.stage = "checking"
        /\ r.flushed = [run[w].flushed EXCEPT ![s] = Write(w)] /\ r.alone = run[w].alone
        /\ r.day = run[w].day /\ r.wrote = run[w].wrote
    BY <1>2, <1>a DEF FlushedRun, Runs
  <2>2. Write(w).stamps = run[w].verdict.stamps
    BY DEF Write
  <2>3. DOMAIN run[w].flushed = Sdas
    BY <1>2 DEF Runs
  <2>. HIDE DEF r
  <2>4. run'[w] = r /\ Registered' = Registered /\ budget' = budget /\ spend' = spend
    BY <1>1, <1>4 DEF TypeInv, TypeOK, Registered, budgetVars, spendVars
  <2>5. \A u : MonthToDate(w, u)' = MonthToDate(w, u)
    <3>1. run[w].day \in Days
      BY <1>2 DEF TypeInv, RunShape
    <3>. QED
      BY <2>1, <2>4, <3>1, MonthKept
  <2>6. ASSUME NEW u, NEW stamps, FitsSpend(w, u, stamps) PROVE FitsSpend(w, u, stamps)'
    BY <2>1, <2>4, <2>5, <2>6 DEF FitsSpend
  <2>7. /\ Leaves(run[w], s)' = Leaves(r, s)
        /\ \A u \in Registered : Leaves(run[w], u)' = Leaves(r, u)
    BY <2>1, <2>4 DEF Leaves
  <2>8. Leaves(r, s) = VerdictLeaves(run[w])
    BY <1>a, <1>2, <2>1, <2>2, <2>3 DEF Leaves, VerdictLeaves
  <2>9. \A u \in Registered \ {s} : Leaves(r, u) = Leaves(run[w], u)
    BY <2>1, <2>3 DEF Leaves, Registered
  <2>10. Measured(r) = Measured(run[w])
    BY <1>a, <1>1, <2>1 DEF Measured
  <2>11. ASSUME run[w].alone PROVE ChecksFit(w)'
    <3>1. ChecksFit(w)
      BY <1>2, <2>11, AloneInvSays
    <3>2. ASSUME NEW u \in Registered, u \in r.checked
          PROVE  FitsSpend(w, u, Leaves(run[w], u))'
      <4>1. CASE u = s
        <5>1. FitsSpend(w, s, VerdictLeaves(run[w]))
          BY <1>a, <1>1, <3>1, <3>2, <4>1 DEF ChecksFit
        <5>2. Leaves(run[w], u)' = VerdictLeaves(run[w])
          BY <2>7, <2>8, <4>1
        <5>. QED
          BY <2>6, <4>1, <5>1, <5>2
      <4>2. CASE u # s
        BY <2>1, <2>6, <2>7, <2>9, <3>1, <3>2, <4>2 DEF ChecksFit
      <4>. QED
        BY <4>1, <4>2
    <3>3. \A u \in Registered : IF u \in r.left \cup Measured(r) THEN r.read[u] = budget[u]
                                                               ELSE budget[u] = NoStamps
      BY <2>1, <2>10, <3>1 DEF ChecksFit
    <3>. QED
      BY <2>1, <2>4, <3>2, <3>3 DEF ChecksFit
  <2>. QED
    BY <1>2, <1>4, <2>1, <2>11, AloneOfOneRun
<1>. QED
  BY <1>1, <1>3, <1>4

\* Every step keeps what is known of a run that no other overlaps.
LEMMA AloneStep == ASSUME TypeInv, StampInv, AloneInv, [Next]_vars PROVE AloneInv'
<1>1. CASE NextDay \/ UNCHANGED vars
  <2>1. UNCHANGED <<sdas, spendVars, budgetVars, run>>
    BY <1>1 DEF NextDay, vars
  <2>2. Registered' = Registered /\ UNCHANGED <<spend, budget, run>>
    BY <2>1 DEF Registered, spendVars, budgetVars
  <2>. QED
    BY <2>2, ChecksFitKept, AloneKept
<1>2. ASSUME NEW s \in Sdas, NEW value \in Values \cup {NoValue}, UpdateSda(s, value)
      PROVE  AloneInv'
  <2>1. UNCHANGED <<spend, budget, run>> /\ \A u \in Sdas : sdas'[u].state = sdas[u].state
    BY <1>2 DEF UpdateSda, TypeInv, TypeOK, spendVars, budgetVars
  <2>2. Registered' = Registered
    BY <2>1 DEF Registered
  <2>. QED
    BY <2>1, <2>2, ChecksFitKept, AloneKept
<1>3. ASSUME NEW w \in Workers, Active(w), NEW r, run' = [run EXCEPT ![w] = r],
             r.alone = run[w].alone \/ r.alone = FALSE, r.stage # "checking"
      PROVE  AloneInv'
  BY <1>3, AloneOfOneRun
<1>4. Idle.alone = FALSE /\ Idle.stage # "checking"
  BY DEF Idle
<1>5. ASSUME NEW w \in Workers, CommitRun(w) \/ RollbackRun(w) PROVE AloneInv'
  <2>1. Active(w) /\ run' = [run EXCEPT ![w] = Idle]
    BY <1>5 DEF CommitRun, RollbackRun, Active
  <2>. QED
    BY <1>3, <1>4, <2>1
<1>6. ASSUME NEW w \in Workers, NEW a \in Accounts,
             WriteGap(w, a) \/ SkipAccount(w, a) \/ ReadSdas(w, a)
      PROVE  AloneInv'
  <2>1. run[w] \in Runs /\ Active(w) /\ run[w].stage = "ingesting"
    BY <1>6 DEF WriteGap, SkipAccount, ReadSdas, Ingesting, Active, TypeInv, TypeOK
  <2>2. CASE WriteGap(w, a)
    <3>. DEFINE q == [run[w] EXCEPT !.todo = @ \ {a}, !.gaps = @ \cup {a}]
    <3>1. run' = [run EXCEPT ![w] = q]
      BY <2>2 DEF WriteGap, TypeInv, TypeOK
    <3>2. q.alone = run[w].alone /\ q.stage = "ingesting"
      BY <2>1 DEF Runs
    <3>. HIDE DEF q
    <3>. QED
      BY <1>3, <2>1, <3>1, <3>2
  <2>3. CASE SkipAccount(w, a)
    <3>. DEFINE q == [run[w] EXCEPT !.todo = @ \ {a}]
    <3>1. run' = [run EXCEPT ![w] = q]
      BY <2>3 DEF SkipAccount, TypeInv, TypeOK
    <3>2. q.alone = run[w].alone /\ q.stage = "ingesting"
      BY <2>1 DEF Runs
    <3>. HIDE DEF q
    <3>. QED
      BY <1>3, <2>1, <3>1, <3>2
  <2>4. CASE ReadSdas(w, a)
    <3>. DEFINE seen == [s \in Sdas |-> IF s \in Registered THEN sdas[s].value ELSE NoValue]
                q == [run[w] EXCEPT !.account = a, !.seen = seen]
    <3>1. run' = [run EXCEPT ![w] = q]
      BY <2>4 DEF ReadSdas, TypeInv, TypeOK
    <3>. HIDE DEF seen
    <3>2. q.alone = run[w].alone /\ q.stage = "ingesting"
      BY <2>1 DEF Runs
    <3>. HIDE DEF q
    <3>. QED
      BY <1>3, <2>1, <3>1, <3>2
  <2>. QED
    BY <1>6, <2>2, <2>3, <2>4
<1>7. ASSUME NEW w \in Workers, NEW a \in Accounts, NEW told \in Bills, UpsertSpend(w, a, told)
      PROVE  AloneInv'
  <2>1. run[w] \in Runs /\ Active(w) /\ run[w].stage = "ingesting"
    BY <1>7 DEF UpsertSpend, Ingesting, Active, TypeInv, TypeOK
  <2>2. ASSUME NEW rows
        PROVE  /\ IngestedRun(w, a, told, rows).alone = run[w].alone
               /\ IngestedRun(w, a, told, rows).stage = "ingesting"
    BY <2>1 DEF Runs, IngestedRun
  <2>3. Aborted(w).alone = FALSE /\ Aborted(w).stage # "checking"
    BY DEF Aborted, Idle
  <2>4. \/ run' = [run EXCEPT ![w] = Aborted(w)]
        \/ \E rows : run' = [run EXCEPT ![w] = IngestedRun(w, a, told, rows)]
    BY <1>7 DEF UpsertSpend
  <2>. QED
    BY <1>3, <2>1, <2>2, <2>3, <2>4
<1>. QED
  BY <1>1, <1>2, <1>5, <1>6, <1>7, RegistrationKeepsAlone, RemovalKeepsAlone, BeginRunKeepsAlone,
     BeginChecksKeepsAlone, MeasureKeepsAlone, FlushKeepsAlone DEF Next

SpendInv == TypeInv /\ StampInv /\ AloneInv

LEMMA SpendInvariant == Spec => []SpendInv
<1>1. Init => SpendInv
  BY TypeInit, StampsInit, AloneInit DEF SpendInv
<1>2. SpendInv /\ [Next]_vars => SpendInv'
  BY TypeStep, StampStep, AloneStep DEF SpendInv
<1>. QED
  BY <1>1, <1>2, PTL DEF Spec

\* What a run that no other overlaps leaves of a registered project.
LEMMA LonelyCommit ==
    ASSUME SpendInv, NEW w \in Workers, CommitRun(w), run[w].alone, NEW s \in Registered
    PROVE  /\ s \in run[w].checked => /\ run[w].read[s] = budget[s]
                                      /\ budget'[s] = Leaves(run[w], s)
                                      /\ FitsSpend(w, s, budget'[s])
           /\ s \notin run[w].checked => budget'[s] = NoStamps
<1>1. /\ run[w].stage = "checking" /\ run[w].left = {} /\ run[w].verdict = NoVerdict /\ Active(w)
      /\ s \in Sdas
  BY DEF CommitRun, Active, Registered
<1>2. ChecksFit(w)
  BY <1>1, AloneInvSays DEF SpendInv
<1>3. Measured(run[w]) = run[w].checked
  BY <1>1 DEF Measured
<1>4. budget'[s] = Effective(budget[s], run[w].flushed[s].stamps)
  BY <1>1, CommitGives DEF SpendInv
<1>5. CASE s \in run[w].checked
  BY <1>1, <1>2, <1>3, <1>4, <1>5 DEF ChecksFit, Leaves
<1>6. CASE s \notin run[w].checked
  <2>1. budget[s] = NoStamps /\ run[w].flushed[s] = Unflushed
    BY <1>1, <1>2, <1>3, <1>6 DEF ChecksFit, SpendInv, StampInv, CheckShape
  <2>. QED
    BY <1>4, <1>6, <2>1, StampTypes, EffectiveOfNothing
<1>. QED
  BY <1>5, <1>6

\* Once committed, the month adds up to what the run measured.
LEMMA CommittedMonth ==
    ASSUME TypeInv, NEW w \in Workers, CommitRun(w), NEW s \in Sdas
    PROVE  Spent(spend', s, run[w].day) = MonthToDate(w, s)
<1>1. run[w].day \in Days
  BY DEF TypeInv, RunShape, CommitRun
<1>. DEFINE M == Accounts \X (MonthStart(run[w].day)..run[w].day)
            N == Accounts \X {e \in Days : MonthStart(run[w].day) <= e /\ e <= run[w].day}
<1>2. M = N /\ \A p \in N : p[1] \in Accounts /\ p[2] \in Days
  BY <1>1, MonthSoFar
<1>3. \A a \in Accounts, d \in Days : spend'[a][d][s] = View(w, a, d, s)
  <2>1. s \in Buckets
    BY DEF Buckets
  <2>2. \A a \in Accounts, d \in Days :
           spend'[a][d] = IF d = run[w].day
                          THEN [b \in Buckets |-> IF run[w].wrote[a][b] > 0 THEN run[w].wrote[a][b]
                                                  ELSE spend[a][run[w].day][b]]
                          ELSE spend[a][d]
    BY <1>1 DEF CommitRun, TypeInv, TypeOK
  <2>. TAKE a \in Accounts, d \in Days
  <2>3. CASE d = run[w].day
    <3>1. spend'[a][d] = [b \in Buckets |-> IF run[w].wrote[a][b] > 0 THEN run[w].wrote[a][b]
                                            ELSE spend[a][run[w].day][b]]
      BY <2>2, <2>3
    <3>2. spend'[a][d][s] = IF run[w].wrote[a][s] > 0 THEN run[w].wrote[a][s] ELSE spend[a][d][s]
      BY <2>1, <2>3, <3>1
    <3>. QED
      BY <2>3, <3>2 DEF View
  <2>4. CASE d # run[w].day
    BY <2>2, <2>4 DEF View
  <2>. QED
    BY <2>3, <2>4
<1>4. [p \in N |-> spend'[p[1]][p[2]][s]] = [p \in N |-> View(w, p[1], p[2], s)]
  <2>. HIDE DEF N
  <2>. QED
    BY <1>2, <1>3
<1>5. Spent(spend', s, run[w].day) = Total([p \in N |-> spend'[p[1]][p[2]][s]])
  BY DEF Spent
<1>6. MonthToDate(w, s) = Total([p \in M |-> View(w, p[1], p[2], s)])
  BY DEF MonthToDate
<1>. QED
  BY <1>2, <1>4, <1>5, <1>6

\* FR-016, FR-017: a run that no other overlapped leaves a finding open exactly for the
\* projects whose committed month has reached the cap, whatever happened to the
\* projects while it ran and whichever months its stamps came from.
THEOREM OverrunsFollowSpend == Spec => OverrunFollowsSpend
<1>1. SpendInv /\ [Next]_vars =>
        [\A w \in Workers : CommitRun(w) /\ run[w].alone =>
           \A s \in Registered \ disputed :
              s \in run[w].checked
              => (s \in ShownOverruns' <=> Reaches(Spent(spend', s, run[w].day), 100, 1))]_vars
  <2>. SUFFICES ASSUME SpendInv, [Next]_vars, NEW w \in Workers, CommitRun(w), run[w].alone,
                       NEW s \in Registered, s \notin disputed, s \in run[w].checked
                PROVE  s \in ShownOverruns' <=> Reaches(Spent(spend', s, run[w].day), 100, 1)
    OBVIOUS
  <2>1. s \in Sdas /\ TypeInv /\ StampInv
    BY DEF Registered, SpendInv
  <2>2. s \in Registered' /\ s \notin disputed'
    BY <2>1, CommitGives, LonelyCommit
  <2>3. s \in ShownOverruns' <=> Over(budget'[s])
    BY <2>1, <2>2, CommitMatches DEF OverrunMatchesStamp, Over
  <2>4. Over(budget'[s]) <=> Reaches(MonthToDate(w, s), 100, 1)
    BY LonelyCommit DEF FitsSpend
  <2>. QED
    BY <2>1, <2>3, <2>4, CommittedMonth
<1>. QED
  BY <1>1, SpendInvariant, PTL DEF Spec, OverrunFollowsSpend

\* The stamps are of one calendar month: after a run that no other overlapped no stamp
\* is older than the month the run was about.
THEOREM StampsAreOfThisMonth == Spec => StampsOfThisMonth
<1>1. SpendInv /\ [Next]_vars =>
        [\A w \in Workers : CommitRun(w) /\ run[w].alone =>
           \A s \in Registered, t \in Thresholds :
              budget'[s][t] # Never => budget'[s][t] >= MonthStart(run[w].day)]_vars
  <2>. SUFFICES ASSUME SpendInv, [Next]_vars, NEW w \in Workers, CommitRun(w), run[w].alone,
                       NEW s \in Registered, NEW t \in Thresholds, budget'[s][t] # Never
                PROVE  budget'[s][t] >= MonthStart(run[w].day)
    OBVIOUS
  <2>. QED
    BY LonelyCommit DEF FitsSpend, NoStamps
<1>. QED
  BY <1>1, SpendInvariant, PTL DEF Spec, StampsOfThisMonth

=============================================================================
