---------------------------- MODULE ReclaimEngine ----------------------------
(***************************************************************************)
(* The verdict on a confirmed break: app/setups/reclaim_engine.py.  The    *)
(* break is given by its event and its candle; the candles are the closed  *)
(* candles of one interval, H4 or M15.  The function is pure and is        *)
(* applied to the whole batch again in every run of a job.                 *)
(***************************************************************************)
EXTENDS Candles

CONSTANTS
    SuccessfulH4Closes, SuccessfulM15Closes,
    MinAttempt,        \* minimum_attempt_penetration_bps
    MaxPenetration,    \* maximum_failed_reclaim_penetration_bps
    MaxVolumeRatio,    \* maximum_bounce_volume_ratio, in percent
    MinRejectionBody,  \* minimum_rejection_body_fraction, in 1/10000
    MinRejection,      \* minimum_rejection_distance_bps
    MaxPullback,       \* maximum_pullback_bars
    MaxSetupAge,       \* maximum_setup_age_bars
    MinContinuation    \* continuation_minimum_bars

\* ReclaimRules.__post_init__
ASSUME ReclaimRulesAssumption ==
    /\ SuccessfulH4Closes \in Nat \ {0} /\ SuccessfulM15Closes \in Nat \ {0}
    /\ MinAttempt \in Nat /\ MaxPenetration \in Nat /\ MinRejection \in Nat
    /\ MaxVolumeRatio \in 0..1000 /\ MinRejectionBody \in 0..10000
    /\ MaxPullback \in Nat \ {0} /\ MaxSetupAge \in Nat /\ MaxPullback <= MaxSetupAge
    /\ MinContinuation \in Nat /\ MinContinuation >= 2

Outcomes ==
    {"NO_ATTEMPT", "ATTEMPTING", "SUCCESSFUL_RECLAIM", "FAILED_RECLAIM",
     "FAILED_PULLBACK", "CONTINUATION", "EXPIRED", "INVALIDATED"}

\* The setup_type and the readiness that every _result call gives its outcome.
SetupType(outcome) ==
    CASE outcome = "FAILED_PULLBACK" -> "FAILED_PULLBACK_SHORT"
      [] outcome = "CONTINUATION"    -> "CONTINUATION_SHORT"
      [] outcome \in {"NO_ATTEMPT", "ATTEMPTING", "FAILED_RECLAIM"} -> "BREAKDOWN_SHORT"
      [] OTHER                       -> "NONE"

Readiness(outcome) ==
    CASE outcome \in {"FAILED_PULLBACK", "CONTINUATION"} -> "QUALIFIED"
      [] outcome = "SUCCESSFUL_RECLAIM" -> "CANCELLED"
      [] outcome = "EXPIRED"            -> "EXPIRED"
      [] outcome = "INVALIDATED"        -> "INVALIDATED"
      [] OTHER                          -> "WATCH"

\* relevant: the candles that closed after the break.
AfterBreak(break, candles) ==
    Kept(candles, Indices(candles, LAMBDA c : c.close_time > break.observed_at))

RequiredCloses(interval) ==
    IF interval = "H4" THEN SuccessfulH4Closes ELSE SuccessfulM15Closes

Count(candles, Test(_)) == Cardinality(Indices(candles, Test))

MaxHigh(candles) == Max({candles[i].high : i \in DOMAIN candles})

\* Mutant: the closes above the zone need not be consecutive.
SuccessIndexAnyCloses(zone, interval, candles) ==
    LET above == Indices(candles, LAMBDA c : c.close > zone.high)
        S == {i \in above : Cardinality({k \in above : k <= i}) >= RequiredCloses(interval)}
    IN IF S = {} THEN 0 ELSE Min(S)

\* _successful_reclaim_index: the end of the first long enough run of closes
\* above the zone; 0 without one.
SuccessIndex(zone, interval, candles) ==
    LET n == RequiredCloses(interval)
        S == {i \in n..Len(candles) :
                \A k \in (i - n + 1)..i : candles[k].close > zone.high}
    IN IF S = {} THEN 0 ELSE Min(S)

\* _first_attempt_index
AttemptIndex(zone, candles) ==
    SelectInSeq(candles, LAMBDA c : c.high * 10000 >= zone.low * (10000 + MinAttempt))

\* _penetration_bps as a numerator over zone.low.
Penetration(zone, price) == IF price <= zone.low THEN 0 ELSE price - zone.low

\* The test of _rejection_index.
Rejects(zone, c) ==
    /\ c.high >= zone.low
    /\ c.close < zone.low /\ c.close < c.open
    /\ AtLeastBps(Body(c), c.high - c.low, MinRejectionBody)
    /\ AtLeastBps(zone.low - c.close, zone.low, MinRejection)
    /\ AtMostBps(Penetration(zone, c.high), zone.low, MaxPenetration)

\* _volume_ratio as <<sum of the volumes, count times the break's volume>>.
VolumeRatio(candles, broken) ==
    IF broken.volume = 0 THEN None
    ELSE <<FoldLeft(LAMBDA n, c : n + c.volume, 0, candles), Len(candles) * broken.volume>>

WeakBounce(ratio) == ratio # None /\ ratio[1] * 100 <= MaxVolumeRatio * ratio[2]

Least(m, n) == IF m < n THEN m ELSE n

\* _quality, in 1/100.
Quality(zone, maximum, rejection, ratio, bars, triggered) ==
    LET whole == zone.low * (IF MaxPenetration < 1 THEN 1 ELSE MaxPenetration)
        part == Least(whole, Penetration(zone, maximum) * 10000)
        range == rejection.high - rejection.low
        volume == IF ratio = None THEN 800
                  ELSE IF ~WeakBounce(ratio) THEN 0
                  ELSE LET limit == MaxVolumeRatio * ratio[2]
                       IN IF limit = 0 THEN 2500
                          ELSE 1500 + Quantized(1000 * (limit - ratio[1] * 100), limit)
    IN Least(10000,
             Quantized(2500 * (whole - part), whole)
               + (IF range = 0 THEN 0 ELSE Quantized(3000 * Body(rejection), range))
               + Quantized(2000 * (MaxPullback - Least(MaxPullback, bars)), MaxPullback)
               + volume
               + (IF triggered THEN 2000 ELSE 0))
----------------------------------------------------------------------------
(* Verdicts.  A verdict is the part of a ReclaimAttempt that is decided.     *)

\* _result over the candles considered, which give the counters.
Verdict(zone, interval, outcome, started_at, observed_at, considered) ==
    [interval |-> interval, started_at |-> started_at, observed_at |-> observed_at,
     outcome |-> outcome, setup_type |-> SetupType(outcome),
     readiness |-> Readiness(outcome), duration_bars |-> Len(considered),
     closes_above_zone |-> Count(considered, LAMBDA c : c.close > zone.high),
     bars_above_zone |-> Count(considered, LAMBDA c : c.high > zone.high),
     rejection |-> None, rejection_low |-> None, trigger |-> None, quality |-> 0]

\* ReclaimAttempt.__post_init__ accepts a verdict; times and low of a rejection
\* come together, a trigger follows them, and the outcome has its readiness.
IsAttempt(v) ==
    /\ v.started_at <= v.observed_at
    /\ v.quality \in 0..10000
    /\ v.duration_bars >= 0 /\ v.closes_above_zone \in 0..v.bars_above_zone
    /\ v.rejection = None <=> v.rejection_low = None
    /\ v.trigger # None => v.rejection # None /\ v.rejection < v.trigger
    /\ v.outcome = "SUCCESSFUL_RECLAIM" => v.readiness = "CANCELLED"
    /\ v.outcome = "FAILED_PULLBACK" =>
         /\ v.setup_type = "FAILED_PULLBACK_SHORT" /\ v.readiness = "QUALIFIED"
         /\ v.trigger # None
    /\ v.readiness = "QUALIFIED" => v.setup_type # "NONE"
    /\ v.readiness \in {"CANCELLED", "EXPIRED", "INVALIDATED"} => v.setup_type = "NONE"

Spanning(zone, interval, outcome, candles) ==
    Verdict(zone, interval, outcome, Head(candles).open_time, Last(candles).close_time, candles)

\* Where _continuation_result finds its bounce, 0: nowhere.  Of equal highs
\* max takes the first.
BounceIndex(zone, break, search) ==
    LET top == MaxHigh(search)
        b == SelectInSeq(search, LAMBDA c : c.high = top)
    IN IF /\ 1 < b /\ b < Len(search)
          /\ break.close < search[b].high /\ search[b].high < zone.low
       THEN b ELSE 0

\* The candle after the bounce that makes the lower low, 0: none.
LowerLowIndex(broken, search, b) ==
    LET S == {k \in (b + 1)..Len(search) : /\ search[k].close < broken.low
                                           /\ search[k].high < search[b].high}
    IN IF b = 0 \/ S = {} THEN 0 ELSE Min(S)

\* _continuation_result finds a setup; the candles have no attempt.
ContinuationIndex(zone, break, broken, candles) ==
    LET search == Take(candles, MaxPullback)
    IN IF Len(candles) < MinContinuation THEN 0
       ELSE LowerLowIndex(broken, search, BounceIndex(zone, break, search))

Continuation(zone, break, broken, interval, candles) ==
    LET search == Take(candles, MaxPullback)
        bounce == search[BounceIndex(zone, break, search)]
        k == ContinuationIndex(zone, break, broken, candles)
        considered == Take(search, k)
        weak == WeakBounce(VolumeRatio(considered, broken))
    IN [Spanning(zone, interval, "CONTINUATION", considered) EXCEPT
          !.closes_above_zone = 0, !.bars_above_zone = 0,
          !.rejection = bounce.open_time, !.rejection_low = broken.low,
          !.trigger = search[k].open_time,
          !.quality = (IF weak THEN 7500 ELSE 6500) - 100 * Least(k, 10)]

\* The verdict without an attempt to reclaim the zone.
Unattempted(zone, break, broken, interval, candles) ==
    IF ContinuationIndex(zone, break, broken, candles) # 0
    THEN Continuation(zone, break, broken, interval, candles)
    ELSE [Spanning(zone, interval,
                   IF Len(candles) >= MaxSetupAge THEN "EXPIRED" ELSE "NO_ATTEMPT", candles)
            EXCEPT !.closes_above_zone = 0, !.bars_above_zone = 0]

\* Mutant: the rejection candle itself may break its low.
TriggerIndexInclusive(stream, j) ==
    LET S == {k \in j..Len(stream) : stream[k].close <= stream[j].low}
    IN IF S = {} THEN 0 ELSE Min(S)

\* The first later candle that closes below the low of the rejection.
TriggerIndex(stream, j) ==
    LET S == {k \in (j + 1)..Len(stream) : stream[k].close < stream[j].low}
    IN IF S = {} THEN 0 ELSE Min(S)

\* Mutant: the window of the pullback is not applied.
PullbackWindowOpen(stream) == stream

\* limited
PullbackWindow(stream) == Take(stream, MaxPullback)

\* The verdict on an attempt, from its first candle on.
Attempted(zone, broken, interval, stream) ==
    LET limited == PullbackWindow(stream)
        j == SelectInSeq(limited, LAMBDA c : Rejects(zone, c))
        rejected == Take(limited, j)
        k == TriggerIndex(stream, j)
        rejection == limited[j]
    IN IF j = 0
       THEN IF Len(stream) > MaxPullback
            THEN Spanning(zone, interval, "INVALIDATED", limited)
            ELSE Spanning(zone, interval, "ATTEMPTING", stream)
       ELSE [Verdict(zone, interval,
                     IF k = 0 THEN "FAILED_RECLAIM" ELSE "FAILED_PULLBACK",
                     stream[1].open_time,
                     IF k = 0 THEN rejection.close_time ELSE stream[k].close_time,
                     rejected)
               EXCEPT !.rejection = rejection.open_time, !.rejection_low = rejection.low,
                      !.trigger = IF k = 0 THEN None ELSE stream[k].open_time,
                      !.quality = Quality(zone, MaxHigh(rejected), rejection,
                                          VolumeRatio(rejected, broken), j, k # 0)]

\* analyze_reclaim_attempt on the candles after the break.  Without any the
\* interval is taken to be H4, whichever job asks.
JudgeBreak(zone, break, broken, interval, relevant) ==
    LET s == SuccessIndex(zone, interval, relevant)
        a == AttemptIndex(zone, relevant)
    IN IF relevant = <<>>
       THEN Verdict(zone, "H4", "NO_ATTEMPT", break.observed_at, break.observed_at, <<>>)
       ELSE IF s # 0 THEN Spanning(zone, interval, "SUCCESSFUL_RECLAIM", Take(relevant, s))
       ELSE IF a = 0 THEN Unattempted(zone, break, broken, interval, relevant)
       ELSE Attempted(zone, broken, interval, From(relevant, a))

AnalyzeReclaimAttempt(zone, break, broken, interval, candles) ==
    JudgeBreak(zone, break, broken, interval, AfterBreak(break, candles))
==============================================================================
