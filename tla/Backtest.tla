------------------------------ MODULE Backtest ------------------------------
(***************************************************************************)
(* The evaluation of a short plan over historical bars and the metrics of  *)
(* several results: app/backtest/runner.py and app/backtest/metrics.py.    *)
(* Returns are in basis points of the entry and exact: the entry divides   *)
(* 10000.                                                                  *)
(***************************************************************************)
EXTENDS Candles

\* _validate_plan and _validate_bars, where they do not raise.  A bar is a
\* candle whose timestamp is its open_time.
IsCase(case) ==
    /\ case.plan.status = "READY"
    /\ 0 < case.plan.objective /\ case.plan.objective < case.plan.entry
    /\ case.plan.entry < case.plan.boundary
    /\ case.plan.multiplier \in 1..5
    /\ case.bars # <<>> /\ IsBatch(case.bars)

StopTouched(plan, bar) == bar.high >= plan.boundary
TargetTouched(plan, bar) == bar.low <= plan.objective

\* _build_result
BuildResult(case, outcome, index, exit, conflict) ==
    LET return == ((case.plan.entry - exit) * 10000) \div case.plan.entry
    IN [outcome |-> outcome, exit_at |-> case.bars[index].open_time, exit |-> exit,
        bars_processed |-> index, return |-> return,
        leveraged |-> return * case.plan.multiplier, conflict |-> conflict]

\* Mutant: the target is looked at first, whatever the policy.
StopsSecond(case, bar) == StopTouched(case.plan, bar) /\ ~TargetTouched(case.plan, bar)

\* Whether a bar that touches a level ends the case at the stop: where it
\* touches both, the policy decides.
StopsFirst(case, bar) ==
    /\ StopTouched(case.plan, bar)
    /\ TargetTouched(case.plan, bar) => case.policy # "OPTIMISTIC"

\* Mutant: the bars are searched from the last one.
LastTouch(case) ==
    SelectLastInSeq(case.bars, LAMBDA b : StopTouched(case.plan, b) \/ TargetTouched(case.plan, b))

\* The bar at which the loop of run_backtest returns, or 0.
FirstTouch(case) ==
    SelectInSeq(case.bars, LAMBDA b : StopTouched(case.plan, b) \/ TargetTouched(case.plan, b))

\* run_backtest
RunBacktest(case) ==
    LET i == FirstTouch(case)
        n == Len(case.bars)
        conflict == StopTouched(case.plan, case.bars[i]) /\ TargetTouched(case.plan, case.bars[i])
    IN IF i = 0 THEN BuildResult(case, "EXPIRED", n, case.bars[n].close, FALSE)
       ELSE IF StopsFirst(case, case.bars[i])
            THEN BuildResult(case, "STOP", i, case.plan.boundary, conflict)
            ELSE BuildResult(case, "TARGET", i, case.plan.objective, conflict)
----------------------------------------------------------------------------
Full == 10000   \* equity = 100.0

\* The deeper of two falls, [loss, peak] each.
Deeper(d, e) == IF e.loss * d.peak > d.loss * e.peak THEN e ELSE d

\* Mutant: the first result sets the peak.
DrawdownStartFirst(returns) ==
    LET first == IF returns = <<>> THEN Full ELSE Full + Head(returns)
    IN [equity |-> Full, peak |-> first, maximum |-> [loss |-> 0, peak |-> first]]

\* The local variables of _max_drawdown.
DrawdownStart(returns) ==
    [equity |-> Full, peak |-> Full, maximum |-> [loss |-> 0, peak |-> Full]]

\* One iteration of its loop.
DrawdownStep(s, value) ==
    LET equity == s.equity + value
        peak == Max({s.peak, equity})
    IN [equity |-> equity, peak |-> peak,
        maximum |-> Deeper(s.maximum, [loss |-> peak - equity, peak |-> peak])]

\* _max_drawdown
MaxDrawdown(returns) == FoldLeft(DrawdownStep, DrawdownStart(returns), returns).maximum

\* The sum of the returns that count.
SumOf(returns, counted) ==
    FoldLeft(LAMBDA n, v : IF v \in counted THEN n + v ELSE n, 0, returns)

\* build_metrics.  The rate, the average, the median and the profit factor are
\* quotients of what is kept here.
BuildMetrics(results) ==
    LET count(outcome) == Cardinality({i \in DOMAIN results : results[i].outcome = outcome})
        returns == [i \in DOMAIN results |-> results[i].leveraged]
    IN [total |-> Len(results), targets |-> count("TARGET"), stops |-> count("STOP"),
        expired |-> count("EXPIRED"),
        conflicts |-> Cardinality({i \in DOMAIN results : results[i].conflict}),
        returns |-> returns,
        gross_profit |-> SumOf(returns, Nat \ {0}), gross_loss |-> -SumOf(returns, Int \ Nat),
        max_drawdown |-> MaxDrawdown(returns)]
=============================================================================
