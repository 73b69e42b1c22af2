---------------------------- MODULE EvidenceStore ----------------------------
(***************************************************************************)
(* The strategy evidence of one symbol: the H4 and the M15 structure jobs  *)
(* write it, each run in one transaction (app/runtime/store.py and         *)
(* app/setups/atomic_runtime_store.py with the repositories they call),    *)
(* and the evidence providers of app/signals read it, in two sessions, to  *)
(* build the request of a signal.                                          *)
(*                                                                         *)
(* Time is counted in M15 candles, of which Ratio make an H4 candle, from  *)
(* the end of the history on.  The daily evidence has a zone and an event  *)
(* of its own and matches no attempt, as none comes from daily candles.    *)
(***************************************************************************)
EXTENDS SupportZones, ReclaimEngine

CONSTANTS
    Histories,    \* what may precede the stream: H4 candles, <<low, close>> each
    Prices,       \* the prices candles close at
    Ratio,        \* M15 candles in an H4 candle
    H4Limit,      \* worker_ohlcv_limit, in rows of an answer: H4
    M15Limit,     \* and M15, apart because Ratio is not 16
    CandleLookup, \* how many H4 candles the M15 job reads back
    MaxAge,       \* max_age_intervals of CandleFreshnessRules
    MaxLag,       \* bound: candles that close between a run's fetch and commit
    MaxDelay,     \* bound: candles that close between an answer and the clock reading
    MaxCandles    \* bound: the length of the stream

ASSUME HistoryAssumption ==
    \A history \in Histories :
        /\ history \in Seq(Nat \X Nat) /\ history # <<>>
        /\ \A i \in DOMAIN history :
             /\ 0 < history[i][1] /\ history[i][1] <= history[i][2]
             /\ i # 1 => history[i][1] <= history[i - 1][2]

ASSUME EvidenceAssumption ==
    /\ Prices \subseteq Nat \ {0}
    /\ Ratio \in Nat \ {0}
    /\ H4Limit \in 2..1000 /\ M15Limit \in 2..1000 /\ CandleLookup \in 1..5000
    /\ MaxAge \in Nat \ {0} /\ MaxLag \in Nat /\ MaxDelay \in Nat /\ MaxCandles \in Nat

VARIABLES
    m15, h4,    \* the closed candles of the market
    h4_fetched, \* fetched_at of the last H4 run's batch
    candles,    \* ohlcv_candles of H4
    zones,      \* support_zones
    events,     \* structure_events
    attempts,   \* reclaim_attempts
    zone_read,  \* the zone that a load under way has read, or None
    htf         \* the higher-timeframe evidence a caller holds, or None

market == <<m15, h4>>
tables == <<candles, zones, events, attempts>>
reader == <<zone_read, htf>>
vars == <<market, h4_fetched, tables, reader>>
----------------------------------------------------------------------------
(* The exchange and the kline adapter *)

\* The H4 candles of a history; each opens where the one before closed.
HistoryCandles(history) ==
    [i \in DOMAIN history |->
        LET at == (i - 1 - Len(history)) * Ratio
            close == history[i][2]
            open == IF i = 1 THEN close ELSE history[i - 1][2]
        IN [open |-> open, close |-> close, high |-> Max({open, close}), low |-> history[i][1],
            volume |-> Ratio, open_time |-> at, close_time |-> at + Ratio]]

\* Candles of one interval put together to one of a longer one.
Aggregate(part) ==
    [open |-> Head(part).open, close |-> Last(part).close,
     high |-> MaxHigh(part), low |-> Min({part[i].low : i \in DOMAIN part}),
     volume |-> FoldLeft(LAMBDA v, c : v + c.volume, 0, part),
     open_time |-> Head(part).open_time, close_time |-> Head(part).open_time + Ratio]

\* The last n rows.
LastRows(rows, n) == SubSeq(rows, Max({1, Len(rows) - n + 1}), Len(rows))

\* The H4 rows of an answer when n M15 candles had closed, oldest first: the
\* candle that is still open is one of them.
H4Rows(n) ==
    LET closed == Kept(h4, Indices(h4, LAMBDA c : c.close_time <= n))
        part == SubSeq(m15, Ratio * (n \div Ratio) + 1, n)
    IN LastRows(IF part = <<>> THEN closed ELSE Append(closed, Aggregate(part)), H4Limit)

\* The M15 rows; the open candle has not moved yet.
M15Rows(n) == LastRows(Take(m15, n), M15Limit)

\* Mutant: open candles are kept as well.
FetchAll(rows, fetched_at) == rows

\* fetch_batch: _parse_row drops the candles that are open at fetched_at, which
\* is read after the answer has arrived; the rest is sorted by open_time.
FetchBatch(rows, fetched_at) ==
    Kept(rows, Indices(rows, LAMBDA c : c.close_time <= fetched_at))

\* evaluate_candle_freshness at fetched_at; no row of FetchBatch is from the
\* future.
Freshness(batch, length, fetched_at) ==
    IF batch = <<>> THEN "EMPTY"
    ELSE IF fetched_at - Last(batch).close_time > MaxAge * length THEN "STALE" ELSE "OK"

\* load: only a fresh batch has the health OK, without which nothing is analysed.
Usable(batch, length, fetched_at) == Freshness(batch, length, fetched_at) = "OK"
----------------------------------------------------------------------------
(* The tables *)

\* upsert_batch and upsert_analysis: rows of the same key are replaced.
UpsertCandles(batch) ==
    LET keys == {batch[i].open_time : i \in DOMAIN batch}
    IN {c \in candles : c.open_time \notin keys} \cup ToSet(batch)

UpsertRows(table, rows) ==
    LET keys == {r.id : r \in rows}
    IN {r \in table : r.id \notin keys} \cup rows

\* Mutant: the oldest rows, as the query returns them without desc().
ListOldest(limit) ==
    {c \in candles : Cardinality({b \in candles : b.open_time < c.open_time}) < limit}

\* list_recent
ListRecent(limit) ==
    {c \in candles : Cardinality({b \in candles : b.open_time > c.open_time}) < limit}

\* The rows that no other row of the set precedes in the order of the query;
\* where the order leaves a choice, the identifiers make it.
Newest(rows) == {r \in rows : \A s \in rows : s.observed_at <= r.observed_at}

Confirmed(rows) == {e \in rows : e.state = "CONFIRMED_BREAK"}

\* latest_zone
LatestZones ==
    {z \in zones : \A y \in zones :
        \/ y.confirmed_at < z.confirmed_at
        \/ y.confirmed_at = z.confirmed_at /\ y.strength <= z.strength}

\* A row of reclaim_attempts.  _attempt_id is a function of the break, the
\* interval and the start.
AttemptRow(e, v) ==
    [id |-> <<e.id, v.interval, v.started_at>>, zone |-> e.zone, break |-> e.id,
     observed_at |-> v.observed_at, readiness |-> v.readiness, quality |-> v.quality,
     rejection |-> v.rejection, rejection_low |-> v.rejection_low, trigger |-> v.trigger]

\* The attempt that a batch makes of a break is upserted.
WithAttempt(table, e, zone, broken, interval, batch) ==
    LET verdict == AnalyzeReclaimAttempt(zone, e, broken, interval, batch)
    IN UpsertRows(table, {AttemptRow(e, verdict)})

\* persist_reclaim_from_structure: the attempts with the one of the newest
\* confirmed break of an analysis, if it has any.
WithStructureAttempt(table, batch, derived, found) ==
    LET breaks == Newest(Confirmed(found))
        zone(e) == CHOOSE z \in ToSet(derived) : z.id = e.zone
        broken(e) == CHOOSE c \in ToSet(batch) : c.open_time = e.open_time
    IN IF breaks = {} THEN {table}
       ELSE {WithAttempt(table, e, zone(e), broken(e), "H4", batch) : e \in breaks}
----------------------------------------------------------------------------
(* Actions *)

\* The first H4 run has stored what there is before the stream.
Init ==
    /\ m15 = <<>>
    /\ \E history \in Histories : h4 = HistoryCandles(history)
    /\ h4_fetched = 0
    /\ LET batch == FetchBatch(H4Rows(0), 0)
           derived == DeriveSupportZones(batch)
       IN /\ candles = ToSet(batch)
          /\ zones = ToSet(derived)
          /\ events = AnalysisEvents(derived, batch)
          /\ attempts \in WithStructureAttempt({}, batch, derived, events)
    /\ zone_read = None /\ htf = None

\* The market closes one more M15 candle, and with every Ratio of them an H4
\* candle.
CloseM15(price) ==
    LET open == IF m15 = <<>> THEN Last(h4).close ELSE Last(m15).close
    IN /\ Len(m15) < MaxCandles
       /\ m15' = Append(m15, [open |-> open, close |-> price,
                              high |-> Max({open, price}), low |-> Min({open, price}),
                              volume |-> 1, open_time |-> Len(m15),
                              close_time |-> Len(m15) + 1])
       /\ h4' = IF Len(m15') % Ratio # 0 THEN h4
                ELSE Append(h4, Aggregate(From(m15', Len(m15') - Ratio + 1)))
       /\ UNCHANGED <<h4_fetched, tables, reader>>

\* How many candles may have closed when a run that commits now had its answer.
Answered == {n \in 0..Len(m15) : Len(m15) - n <= MaxLag}

\* A run of the H4 job commits: candles, zones, events, and the attempt of the
\* newest confirmed break of the analysis, in one transaction.  n candles had
\* closed when the exchange answered and delay more when the adapter read the
\* clock; runs of one job do not overlap.
RunH4(n, delay) ==
    LET batch == FetchBatch(H4Rows(n), n + delay)
        derived == DeriveSupportZones(batch)
        found == AnalysisEvents(derived, batch)
    IN /\ h4_fetched <= n /\ n + delay <= Len(m15)
       /\ Usable(batch, Ratio, n + delay)
       /\ h4_fetched' = n + delay
       /\ candles' = UpsertCandles(batch)
       /\ zones' = UpsertRows(zones, ToSet(derived))
       /\ events' = UpsertRows(events, found)
       /\ attempts' \in WithStructureAttempt(attempts, batch, derived, found)
       /\ UNCHANGED <<market, reader>>

\* The stored candle of a break, if it is among the last CandleLookup.
BreakCandles(e) == {c \in ListRecent(CandleLookup) : c.open_time = e.open_time}

\* A run of the M15 job commits: the newest confirmed H4 break of the table,
\* whatever has become of it, is judged by the M15 batch.  Where the break's
\* candle is not found, persist_reclaim_from_confirmation raises and the
\* transaction is rolled back: no step.  Its queries are one step: no commit of
\* the H4 job comes between them, and the clock is read with the answer.
RunM15(n) ==
    LET batch == FetchBatch(M15Rows(n), n)
        breaks == Newest(Confirmed(events))
    IN /\ Usable(batch, 1, n)
       /\ \/ breaks = {} /\ UNCHANGED attempts
          \/ \E e \in breaks : \E broken \in BreakCandles(e) :
               LET zone == CHOOSE z \in zones : z.id = e.zone
               IN attempts' = WithAttempt(attempts, e, zone, broken, "M15", batch)
       /\ UNCHANGED <<market, h4_fetched, candles, zones, events, reader>>

\* Mutant: what takes a break back is no event of its own.
LatestBreak == Newest(Confirmed(events))

\* latest_event
LatestEvent == Newest(events)

\* DerivedHigherTimeframeEvidenceProvider.load queries the zone first, and raises
\* without one.
ReadZone ==
    /\ zone_read = None
    /\ \E z \in LatestZones : zone_read' = z.id
    /\ UNCHANGED <<market, h4_fetched, tables, htf>>

\* The event comes from a later query, which sees what has been committed in
\* between.  Evidence without damage names no event and matches no attempt: None.
LoadHtf ==
    /\ zone_read # None
    /\ \/ \E e \in Confirmed(LatestEvent) :
            htf' = [zone |-> zone_read, event |-> e.id, fetched |-> h4_fetched]
       \/ /\ LatestEvent = {} \/ Confirmed(LatestEvent) # LatestEvent
          /\ htf' = None
    /\ zone_read' = None
    /\ UNCHANGED <<market, h4_fetched, tables>>

\* The attempts that ReclaimAttemptRepository.latest may return.
LatestAttempts ==
    LET newest == Newest(attempts)
    IN {a \in newest : \A b \in newest : b.quality <= a.quality}

\* The attempt's zone and break are the pair of the evidence.
Linked(a) == a.zone = htf.zone /\ a.break = htf.event

\* What DerivedSetupEvidenceProvider.build_request makes a request of now, where
\* it does not raise: the latest attempt, qualified and linked to the evidence
\* the caller holds.  It only reads.
BuildRequest ==
    IF htf = None THEN {}
    ELSE {a \in LatestAttempts : a.readiness = "QUALIFIED" /\ Linked(a)}

Next ==
    \/ \E price \in Prices : CloseM15(price)
    \/ \E n \in Answered, delay \in 0..MaxDelay : RunH4(n, delay)
    \/ \E n \in Answered : RunM15(n)
    \/ ReadZone
    \/ LoadHtf

Spec == Init /\ [][Next]_vars
----------------------------------------------------------------------------
(* Properties *)

\* The tables hold candles, zones, events and attempts that the dataclasses
\* accept, one row per key, and what callers hold comes from them.
TypeOK ==
    /\ IsBatch(h4) /\ IsBatch(M15Rows(Len(m15)))
    /\ h4_fetched \in 0..Len(m15)
    /\ \A c, d \in candles : IsCandle(c) /\ (c.open_time = d.open_time => c = d)
    /\ \A e \in events : e.state \in EventStates /\ \E z \in zones : z.id = e.zone
    /\ \A z \in zones : IsSupportZone(z)
    /\ \A a \in attempts : a.readiness \in {Readiness(o) : o \in Outcomes}
    /\ zone_read # None => \E z \in zones : z.id = zone_read
    /\ htf # None => htf.fetched \in 0..h4_fetched

\* An H4 candle that had closed when n M15 candles had, after the break, closed
\* above the price.
ClosedAbove(n, break_open, price) ==
    \E i \in DOMAIN h4 : /\ h4[i].close_time <= n /\ h4[i].open_time > break_open
                         /\ h4[i].close > price

\* The batch of an H4 run that was answered and read the clock at n, and whether
\* it has a zone.
BatchAt(n) == FetchBatch(H4Rows(n), n)
DerivedAt(n, zone) == \E z \in ToSet(DeriveSupportZones(BatchAt(n))) : z.id = zone

\* No signal is requested on a break that an H4 close above its zone had taken
\* back when the caller loaded the structure evidence, however the jobs' runs
\* and the reads interleave, as long as the H4 job derived the zone and its adapter
\* reads the clock before another candle closes (MaxDelay = 0).
ReclaimedBreakNotRequested ==
    \A a \in BuildRequest :
        DerivedAt(htf.fetched, a.zone) => ~ClosedAbove(htf.fetched, a.break[2], a.zone[2])

\* What a request rests on happened, in order: the break, then a rejection,
\* then a candle that closed below the rejection's low (with MaxDelay = 0).
RequestEvidenced ==
    \A a \in BuildRequest :
        /\ a.break[2] < a.rejection /\ a.rejection < a.trigger
        /\ \E c \in ToSet(m15) \cup ToSet(h4) :
             c.open_time = a.trigger /\ c.close < a.rejection_low

\* The events table accumulates over runs at any times and yet holds, of every
\* zone that the last run derived, exactly what one analysis of the market's
\* candles yields: no stale event of the zone survives, as long as the adapter reads
\* the clock before another candle closes (MaxDelay = 0).
TableIsAnalysis ==
    LET batch == BatchAt(h4_fetched)
        derived == DeriveSupportZones(batch)
    IN \A i \in DOMAIN derived :
         {e \in events : e.zone = derived[i].id} = ToSet(BuildStructureEvents(derived[i], batch))

\* The M15 job finds the candle of the break it has to judge unless
\* CandleLookup newer H4 candles are stored: no recent break makes its runs
\* fail, however the H4 runs before filled the table.
RecentBreakJudged ==
    \A e \in Newest(Confirmed(events)) :
        \/ BreakCandles(e) # {}
        \/ Cardinality({c \in candles : c.open_time > e.open_time}) >= CandleLookup

\* docs/OHLCV.md:50, "closed candles only": an event of the table reports the
\* price at which the market closed its candle.
EventsFromClosedCandles ==
    \A e \in events : \E c \in ToSet(h4) : c.open_time = e.open_time /\ c.close = e.close

\* docs/RECLAIM_PULLBACK_ENGINE.md:63: "A successful reclaim cancels the short
\* setup.", by "one closed 4H candle above the zone high".  No request is built on a
\* break after such a candle, whether the zone is still derived or not.
ReclaimCancels ==
    \A a \in BuildRequest : ~ClosedAbove(htf.fetched, a.break[2], a.zone[2])

\* docs/RECLAIM_PULLBACK_ENGINE.md:109: "Successful reclaim always cancels or
\* invalidates the short setup."  No request is built on a break once a reclaim of
\* it was recorded, not even while the break is the latest structure event.
CancelledStaysCancelled ==
    \A a \in BuildRequest :
        (\E e \in LatestEvent : e.id = a.break)
            => ~\E b \in attempts : b.break = a.break /\ b.readiness = "CANCELLED"

\* docs/RECLAIM_PULLBACK_ENGINE.md:17: "The engine must reject setup evaluation
\* when Daily/4H damage is missing or invalidated."  No attempt is recorded for
\* a break that an event of the table invalidates.
InvalidatedBreakNotEvaluated ==
    [][\A a \in attempts' \ attempts :
         ~\E e \in events : e.invalidates = a.break]_vars
==============================================================================
