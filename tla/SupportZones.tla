---------------------------- MODULE SupportZones ----------------------------
(***************************************************************************)
(* The support zones of a batch of Daily or H4 candles and the analysis    *)
(* built on them: app/structure/support_zones.py and                       *)
(* app/structure/htf_engine.py.  Both are pure and see the whole batch     *)
(* again in every run of a structure job.                                  *)
(*                                                                         *)
(* The tick is fine enough for ZonePadding to be a whole number of ticks.  *)
(***************************************************************************)
EXTENDS StructureEvents

CONSTANTS
    PivotLeft, PivotRight,   \* pivot_left, pivot_right
    MinTouches,              \* minimum_touches
    TouchSeparation,         \* minimum_touch_separation
    ClusterTolerance,        \* cluster_tolerance_bps
    ZonePadding,             \* zone_padding_bps
    MaxZoneWidth,            \* maximum_zone_width_bps
    ZoneRejection,           \* minimum_rejection_bps
    MaxZones                 \* maximum_zones

\* SupportZoneRules.__post_init__
ASSUME ZoneRulesAssumption ==
    /\ PivotLeft \in Nat \ {0} /\ PivotRight \in Nat \ {0}
    /\ MinTouches \in Nat \ {0, 1} /\ TouchSeparation \in Nat \ {0}
    /\ ClusterTolerance \in Nat /\ ZonePadding \in Nat
    /\ MaxZoneWidth \in Nat /\ ZoneRejection \in Nat
    /\ MaxZones \in 1..50

\* The range of the loop of _find_pivots: both windows are in the batch.
PivotPositions(candles) == (PivotLeft + 1)..(Len(candles) - PivotRight)

\* No candle of either window is lower, and all of one window are higher.
IsPivot(candles, i) ==
    LET low == candles[i].low
        left == {candles[k].low : k \in (i - PivotLeft)..(i - 1)}
        right == {candles[k].low : k \in (i + 1)..(i + PivotRight)}
    IN /\ \A v \in left \cup right : low <= v
       /\ (\A v \in left : low < v) \/ (\A v \in right : low < v)

\* Mutant: one pivot for every block of TouchSeparation candles of the batch.
AddPivotPerBlock(candles, pivots, i) ==
    IF pivots = <<>> \/ i \div TouchSeparation # Last(pivots) \div TouchSeparation
    THEN Append(pivots, i)
    ELSE IF candles[i].low < candles[Last(pivots)].low THEN Append(Front(pivots), i)
    ELSE pivots

\* A pivot too close to the last one takes its place if it is lower.
AddPivot(candles, pivots, i) ==
    IF pivots = <<>> \/ i - Last(pivots) >= TouchSeparation THEN Append(pivots, i)
    ELSE IF candles[i].low < candles[Last(pivots)].low THEN Append(Front(pivots), i)
    ELSE pivots

\* _find_pivots: the positions of the pivot lows.
FindPivots(candles) ==
    FoldLeft(LAMBDA pivots, i : IF i \in PivotPositions(candles) /\ IsPivot(candles, i)
                                THEN AddPivot(candles, pivots, i) ELSE pivots,
             <<>>, [i \in DOMAIN candles |-> i])

\* _median_price of a cluster sorted by price, twice over.
TwiceMedian(candles, cluster) ==
    LET middle == Len(cluster) \div 2
        price(k) == candles[cluster[k]].low
    IN IF Len(cluster) % 2 = 1 THEN 2 * price(middle + 1)
       ELSE price(middle) + price(middle + 1)

\* The distance of a pivot to the median of the last cluster decides.
JoinCluster(candles, clusters, i) ==
    LET joins == /\ clusters # <<>>
                 /\ LET median == TwiceMedian(candles, Last(clusters))
                    IN AtMostBps(Magnitude(2 * candles[i].low - median), median,
                                 ClusterTolerance)
    IN IF joins THEN Append(Front(clusters), Append(Last(clusters), i))
       ELSE Append(clusters, <<i>>)

\* sorted: the elements of S, none of them after one that it comes before.
InOrder(S, Before(_, _)) ==
    CHOOSE p \in Bijection(1..Cardinality(S), S) :
        \A i, k \in 1..Cardinality(S) : i < k => ~Before(p[k], p[i])

\* _cluster_pivots: pivots by price, then by time.
ClusterPivots(candles, pivots) ==
    LET cheaper(i, k) == \/ candles[i].low < candles[k].low
                         \/ candles[i].low = candles[k].low /\ i < k
    IN FoldLeft(LAMBDA clusters, i : JoinCluster(candles, clusters, i), <<>>,
                InOrder(ToSet(pivots), cheaper))

\* part bps of a price, exactly.
Bps(price, part) == (price * part) \div 10000

\* Mutant: the zone counts from the last pivot on.
ConfirmationAtPivot(candles, last) == candles[last].close_time

\* The close of the last candle that the last pivot's window needs.
Confirmation(candles, last) == candles[last + PivotRight].close_time

\* The SupportZone that _zone_from_cluster makes of the positions of a cluster.
\* _zone_id hashes the bounds, the confirmation and the evidence; the score
\* is in 1/100.
ZoneOf(candles, cluster) ==
    LET touches == ToSet(cluster)
        last == Max(touches)
        lows == {candles[i].low : i \in touches}
        low == Min(lows) - Bps(Min(lows), ZonePadding)
        high == Max(lows) + Bps(Max(lows), ZonePadding)
        rejections == {i \in touches : AtLeastBps(candles[i].close - candles[i].low,
                                                  candles[i].low, ZoneRejection)}
        evidence == {candles[i].open_time : i \in touches}
        confirmed_at == Confirmation(candles, last)
        score == 2500 + 1200 * Len(cluster) + 600 * Cardinality(rejections)
    IN [id |-> <<low, high, confirmed_at, evidence>>,
        low |-> low, high |-> high,
        created_at |-> candles[Min(touches)].close_time,
        confirmed_at |-> confirmed_at,
        last_test_at |-> candles[last].close_time,
        touch_count |-> Len(cluster), rejection_count |-> Cardinality(rejections),
        strength |-> Min({10000, score + Quantized(1500 * last, Len(candles))}),
        evidence |-> evidence]

\* Where _zone_from_cluster does not return None.
IsZone(zone) ==
    /\ zone.touch_count >= MinTouches
    /\ 2 * (zone.high - zone.low) * 10000 <= MaxZoneWidth * (zone.low + zone.high)

\* SupportZone.__post_init__ accepts a zone.
IsSupportZone(zone) ==
    /\ 0 < zone.low /\ zone.low < zone.high
    /\ zone.created_at <= zone.confirmed_at /\ zone.created_at <= zone.last_test_at
    /\ zone.touch_count >= 2 /\ zone.rejection_count \in 0..zone.touch_count
    /\ zone.strength \in 0..10000
    /\ Cardinality(zone.evidence) = zone.touch_count

\* The sort key of derive_support_zones, descending.  No two zones share their
\* last test, so that the identifier never decides.
Stronger(z, y) ==
    \/ z.strength > y.strength
    \/ z.strength = y.strength /\ z.last_test_at > y.last_test_at

\* derive_support_zones, on candles that CandleBatch accepted: _validate_candles
\* asks for no more.
DeriveSupportZones(candles) ==
    LET clusters == ClusterPivots(candles, FindPivots(candles))
        zones == {ZoneOf(candles, clusters[i]) : i \in DOMAIN clusters}
    IN Take(InOrder({z \in zones : IsZone(z)}, Stronger), MaxZones)

\* The events of all zones, as analyze_higher_timeframe collects them.
AnalysisEvents(zones, candles) ==
    UNION {ToSet(BuildStructureEvents(zones[i], candles)) : i \in DOMAIN zones}
=============================================================================
