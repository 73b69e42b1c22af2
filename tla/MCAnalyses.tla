----------------------------- MODULE MCAnalyses -----------------------------
(***************************************************************************)
(* The pure analyses over every stream of closed candles up to a length.   *)
(* The subject says which analysis the stream is for: zones derives the    *)
(* support zones, events judges a given zone and runs the backtest on the  *)
(* same candles, H4 and M15 judge a break of that zone.  The shapes sit on *)
(* both sides of every threshold of the rules.                             *)
(***************************************************************************)
EXTENDS SupportZones, ReclaimEngine, Backtest

CONSTANTS
    MaxCandles,      \* bound: the length of a stream
    MaxZoneCandles,  \* bound: the same for the support zones
    ConfirmedAt      \* when the given zone is confirmed: the first candles are older

VARIABLES
    subject, candles,
    verdict    \* what analyze_reclaim_attempt says of them, or None

vars == <<subject, candles, verdict>>

Zone == [id |-> "zone", low |-> 2000, high |-> 2010, confirmed_at |-> ConfirmedAt]
Break == [observed_at |-> 1, close |-> 1992]
Broken == [open_time |-> 0, close_time |-> 1, open |-> 2004, high |-> 2005, low |-> 1990,
           close |-> 1992, volume |-> 2]

\* None is the identifier of no event.
ASSUME IdAssumption == None \notin {Zone.id} \X Int \X EventStates

Bar(o, h, l, c, v) == [open |-> o, high |-> h, low |-> l, close |-> c, volume |-> v]

ZoneShapes ==
    {Bar(100500, 100500, 100000, 100500, 1),   \* rejected: 50 bps
     Bar(100800, 100800, 100500, 100600, 1),   \* within the tolerance, not rejected
     Bar(101500, 101500, 101000, 101500, 1),   \* 100 bps above the first
     Bar(103000, 103000, 102000, 102500, 1)}

EventShapes ==
    {Bar(2007, 2010, 1990, 1998, 1),   \* breaks: 10 bps, a body of 0.45
     Bar(2005, 2005, 1999, 1999, 1),   \* 5 bps below only
     Bar(1996, 2010, 1990, 1995, 1),   \* below, almost without a body
     Bar(2001, 2005, 2000, 2000, 1),   \* closes at the low of the zone
     Bar(2001, 2010, 2001, 2010, 1),   \* closes at its high
     Bar(2005, 2012, 2005, 2011, 1)}   \* closes above

BreakShapes ==
    {Bar(1991, 1998, 1991, 1997, 1),   \* bounces below the zone
     Bar(1995, 1996, 1985, 1989, 1),   \* closes below the break candle
     Bar(1998, 2001, 1998, 2000, 1),   \* tests the zone: 5 bps
     Bar(2003, 2004, 1994, 1994, 3),   \* rejected, on volume
     Bar(1996, 2003, 1991, 1995, 1),   \* falls back, almost without a body
     Bar(2003, 2021, 1990, 1994, 1),   \* falls back from too high
     Bar(1994, 1996, 1992, 1992, 1),   \* closes below the low of the rejection
     Bar(2005, 2012, 2005, 2011, 1)}   \* closes above the zone

\* The candles after a break open one later than the break candle.
Offset == IF subject \in {"H4", "M15"} THEN 1 ELSE 0

Judged(stream) ==
    IF subject \notin {"H4", "M15"} THEN None
    ELSE AnalyzeReclaimAttempt(Zone, Break, Broken, subject, stream)

\* The market closes one more candle.
Close(shape) ==
    LET at == Len(candles) + Offset
    IN /\ candles' = Append(candles,
            [open |-> shape.open, high |-> shape.high, low |-> shape.low,
             close |-> shape.close, volume |-> shape.volume,
             open_time |-> at, close_time |-> at + 1])
       /\ verdict' = Judged(candles')
       /\ UNCHANGED subject

Init ==
    /\ subject \in {"zones", "events", "H4", "M15"}
    /\ candles = <<>>
    /\ verdict = Judged(candles)

Next ==
    \/ /\ subject = "zones" /\ Len(candles) < MaxZoneCandles
       /\ \E shape \in ZoneShapes : Close(shape)
    \/ /\ subject = "events" /\ Len(candles) < MaxCandles
       /\ \E shape \in EventShapes : Close(shape)
    \/ /\ subject \in {"H4", "M15"} /\ Len(candles) < MaxCandles
       /\ \E shape \in BreakShapes : Close(shape)

Spec == Init /\ [][Next]_vars
----------------------------------------------------------------------------
(* Support zones *)

\* The positions of a zone's evidence.
Touches(z) == {i \in DOMAIN candles : candles[i].open_time \in z.evidence}

\* The candles within the windows of a position.
Around(i) == (i - PivotLeft)..(i + PivotRight)

\* Every zone is one that its record accepts, backed by candles that were closed
\* when it says it was confirmed: separate lows of their whole windows, all
\* inside its bounds, and none of them counted for another zone as well.
ZoneEvidenced ==
    subject = "zones" =>
        LET zones == DeriveSupportZones(candles)
        IN \A n \in DOMAIN zones :
             LET z == zones[n]
             IN /\ IsSupportZone(z) /\ Cardinality(Touches(z)) = z.touch_count
                /\ z.confirmed_at <= Last(candles).close_time
                /\ \A i \in Touches(z) :
                     /\ Around(i) \subseteq DOMAIN candles
                     /\ \A k \in Around(i) : /\ candles[i].low <= candles[k].low
                                             /\ candles[k].close_time <= z.confirmed_at
                     /\ z.low < candles[i].low /\ candles[i].low < z.high
                     /\ \A k \in Touches(z) \ {i} : Magnitude(i - k) >= TouchSeparation
                /\ (z.high - z.low) * 20000 <= MaxZoneWidth * (z.high + z.low)
                /\ \A m \in DOMAIN zones : m # n => z.evidence \cap zones[m].evidence = {}

\* The positions, in the whole stream, of the pivots of a batch that has lost the
\* first n candles.
SlidPivots(stream, n) ==
    {n + i : i \in ToSet(FindPivots(SubSeq(stream, n + 1, Len(stream))))}

\* Between two runs of the job a candle closes and old ones leave the batch (none
\* while it fills up, then one).  The pivots that leave it make room for others, so
\* that the choice may differ; but from the first pivot that both runs use they use
\* the same ones, except that the newest may have given way to a lower one.
PivotsResume ==
    [][subject = "zones" =>
         LET old == ToSet(FindPivots(candles))
         IN \A n \in 0..Len(candles) :
              LET new == SlidPivots(candles', n)
              IN \A p \in old \cap new :
                   /\ \A q \in old : q > p =>
                        \/ q \in new
                        \/ /\ q = Max(old)
                           /\ \E r \in new : r > q /\ candles'[r].low < candles[q].low
                   /\ \A q \in new : p < q /\ q <= Max(old) => q \in old]_vars
----------------------------------------------------------------------------
(* Structure events *)

Bars == Relevant(Zone, candles)
Below(i) == Bars[i].close < Zone.low

\* 10 bps below 2000, with a body of at least 45% of the range.
Strong(i) ==
    LET c == Bars[i]
    IN /\ c.close <= 1998
       /\ 100 * (IF c.open > c.close THEN c.open - c.close ELSE c.close - c.open)
             >= 45 * (c.high - c.low)

\* The zone grows too old at i: nothing closes below it there, after MaxZoneAge
\* candles without a break.
TooOld(i) == i > MaxZoneAge /\ ~Below(i) /\ \A k \in 1..i : ~Strong(k)

Undecided(i) == \A k \in 1..(i - 1) : ~Strong(k) /\ ~TooOld(k)

Breaks(i) == Strong(i) /\ Undecided(i)

\* Bar k takes back the break at i.
Reclaims(i, k) ==
    /\ Breaks(i) /\ k > i /\ Bars[k].close > Zone.high
    /\ \A m \in (i + 1)..(k - 1) : Bars[m].close <= Zone.high

\* What the closing prices say happened: [state, at, to], to being the bar
\* whose event is invalidated.
Happened ==
    LET N == DOMAIN Bars
        E(state, at, to) == [state |-> state, at |-> at, to |-> to]
    IN {E("PENDING_BREAK", i, 0) :
            i \in {k \in N : /\ Below(k) /\ ~Strong(k) /\ Undecided(k)
                             /\ \A m \in 1..(k - 1) : ~Below(m)}}
       \cup {E("CONFIRMED_BREAK", i, 0) : i \in {k \in N : Breaks(k)}}
       \cup {E("INVALIDATED", i, 0) : i \in {k \in N : TooOld(k) /\ Undecided(k)}}
       \cup {E(IF p[2] - p[1] <= FakeBreakMaxBars THEN "FAKE_BREAK" ELSE "RECLAIMED",
               p[2], p[1]) : p \in {q \in N \X N : Reclaims(q[1], q[2])}}

\* The events say what the closing prices say, no more and no less, in the
\* order of time: one break, fake if it is taken back within the window,
\* reclaimed for good by the first close above, too old only if it never broke.
EventsMatchPrices ==
    subject = "events" =>
        LET events == BuildStructureEvents(Zone, candles)
            bar(time) == CHOOSE i \in DOMAIN Bars : Bars[i].open_time = time
            seen(e) == [state |-> e.state, at |-> bar(e.open_time),
                        to |-> IF e.invalidates = None THEN 0 ELSE bar(e.invalidates[2])]
        IN /\ {seen(events[n]) : n \in DOMAIN events} = Happened
           /\ \A m, n \in DOMAIN events : m < n => events[m].open_time < events[n].open_time
----------------------------------------------------------------------------
(* The backtest *)

Plan(entry, boundary, objective, multiplier) ==
    [status |-> "READY", entry |-> entry, boundary |-> boundary, objective |-> objective,
     multiplier |-> multiplier]

\* Plans around the zone; two of them fit into one bar.
Plans == <<Plan(2000, 2010, 1990, 1), Plan(2000, 2012, 1999, 5), Plan(2000, 2004, 1985, 3),
           Plan(2000, 2005, 1995, 2), Plan(2000, 2011, 1980, 5)>>

Case(plan, policy, bars) == [plan |-> plan, policy |-> policy, bars |-> bars]

Results(policy, bars) == [n \in DOMAIN Plans |-> RunBacktest(Case(Plans[n], policy, bars))]

\* A case that reached a level keeps its result when more bars are known, and
\* one that reached none has seen every bar.
ResolvedStands ==
    [][subject = "events" /\ candles # <<>> =>
         \A n \in DOMAIN Plans :
             LET old == Results("CONSERVATIVE", candles)[n]
                 new == Results("CONSERVATIVE", candles')[n]
             IN IF old.outcome = "EXPIRED" THEN new.bars_processed = Len(candles')
                ELSE new = old]_vars

\* The policy matters in a bar that touches both levels and nowhere else, and
\* the optimistic result is never the worse one.
PolicyOnlyInConflicts ==
    subject = "events" /\ candles # <<>> =>
        \A n \in DOMAIN Plans :
            LET careful == Results("CONSERVATIVE", candles)[n]
                hopeful == Results("OPTIMISTIC", candles)[n]
            IN /\ IsCase(Case(Plans[n], "OPTIMISTIC", candles))
               /\ careful.conflict = hopeful.conflict
               /\ IF careful.conflict
                  THEN careful.return < 0 /\ 0 < hopeful.return
                       /\ careful.exit_at = hopeful.exit_at
                  ELSE careful = hopeful

\* The maximum drawdown is the deepest fall of the equity from any earlier
\* value of it, the starting one included, and the counts add up.
DrawdownIsDeepestFall ==
    subject = "events" /\ candles # <<>> =>
        LET m == BuildMetrics(Results("CONSERVATIVE", candles))
            equity(i) == Full + SumOf(Take(m.returns, i), Int)
            N == 0..Len(m.returns)
            d == m.max_drawdown
            falls == {p \in N \X N : p[1] <= p[2]}
        IN /\ \A p \in falls : (equity(p[1]) - equity(p[2])) * d.peak <= d.loss * equity(p[1])
           /\ \E p \in falls : (equity(p[1]) - equity(p[2])) * d.peak = d.loss * equity(p[1])
           /\ m.targets + m.stops + m.expired = m.total
           /\ m.gross_profit - m.gross_loss + Full = equity(m.total)
----------------------------------------------------------------------------
(* The verdict on a break *)

ForBreak == subject \in {"H4", "M15"}

Above(i) == candles[i].close > Zone.high

\* A reclaim succeeds with a run of closes above the zone: one on H4, two on
\* M15.
Reclaimed == IF subject = "H4" THEN \E i \in DOMAIN candles : Above(i)
             ELSE \E i \in 2..Len(candles) : Above(i - 1) /\ Above(i)

At(time) == CHOOSE i \in DOMAIN candles : candles[i].open_time = time

\* The short setup is cancelled exactly when the zone was reclaimed; nothing
\* later in the stream, and no quality, outweighs it.
CancelledIffReclaimed == ForBreak => (verdict.readiness = "CANCELLED" <=> Reclaimed)

\* A failed pullback is qualified by closed candles in order: one that tests the
\* zone, a rejection within the window, and a later close below its low.
PullbackEvidenced ==
    verdict.outcome = "FAILED_PULLBACK" =>
        LET i == At(verdict.started_at)
            j == At(verdict.rejection)
            k == At(verdict.trigger)
        IN /\ i <= j /\ j < i + MaxPullback /\ j < k
           /\ candles[i].high >= 2001
           /\ candles[j].close < Zone.low /\ candles[j].high >= Zone.low
           /\ candles[k].close < candles[j].low
           /\ verdict.observed_at = candles[k].close_time

\* Every verdict is one that its record accepts (where it raised, the job's
\* transaction would be rolled back in every cycle), a qualified one names its
\* trigger, and the candles a failed pullback names are the evidence for it.
VerdictEvidenced ==
    ForBreak => /\ IsAttempt(verdict)
                /\ verdict.readiness = "QUALIFIED" => verdict.trigger # None
                /\ PullbackEvidenced

\* A verdict that decides the attempt is not revised by later candles: a
\* cancellation never is, and a qualified or invalidated pullback stays as it
\* is, to the identifier and the quality, until a reclaim cancels it.
DecisionsStand ==
    [][ForBreak =>
         /\ verdict.outcome = "SUCCESSFUL_RECLAIM" => verdict' = verdict
         /\ verdict.outcome \in {"FAILED_PULLBACK", "INVALIDATED"}
              => verdict' = verdict \/ verdict'.outcome = "SUCCESSFUL_RECLAIM"]_vars
=============================================================================
