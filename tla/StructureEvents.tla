--------------------------- MODULE StructureEvents ---------------------------
(***************************************************************************)
(* What the candles after a support zone's confirmation say about it:      *)
(* app/structure/structure_events.py.  The functions are pure and are      *)
(* applied to the whole batch again in every run of a structure job.       *)
(***************************************************************************)
EXTENDS Candles

CONSTANTS
    MinBreakDistance,  \* minimum_break_distance_bps
    MinBreakBody,      \* minimum_break_body_fraction, in 1/10000
    FakeBreakMaxBars,  \* fake_break_max_bars
    MaxZoneAge         \* maximum_zone_age_bars

\* StructureEventRules.__post_init__
ASSUME StructureRulesAssumption ==
    /\ MinBreakDistance \in Nat
    /\ MinBreakBody \in 0..10000
    /\ FakeBreakMaxBars \in Nat \ {0}
    /\ MaxZoneAge \in Nat \ {0}

EventStates ==
    {"PENDING_BREAK", "CONFIRMED_BREAK", "FAKE_BREAK", "RECLAIMED", "INVALIDATED"}

\* _body_fraction, in 1/10000.
BodyFraction(c) ==
    IF c.high = c.low THEN 0 ELSE Quantized(Body(c) * 10000, c.high - c.low)

\* The candles that open once the zone is confirmed.
Relevant(zone, candles) ==
    Kept(candles, Indices(candles, LAMBDA c : c.open_time >= zone.confirmed_at))

ClosesBelow(zone, c) == c.close < zone.low
ClosesAbove(zone, c) == c.close > zone.high

\* A close below the zone, far enough and with enough of a body.
ConfirmsBreak(zone, c) ==
    /\ ClosesBelow(zone, c)
    /\ AtLeastBps(zone.low - c.close, zone.low, MinBreakDistance)
    /\ BodyFraction(c) >= MinBreakBody

\* _event_id: two events of one candle differ in their state.
EventId(zone, c, state) == <<zone.id, c.open_time, state>>

\* _event
Event(zone, c, state, invalidates) ==
    [id |-> EventId(zone, c, state), zone |-> zone.id, state |-> state,
     open_time |-> c.open_time, observed_at |-> c.close_time, close |-> c.close,
     invalidates |-> invalidates]

\* The local variables of build_structure_events.  confirmed: the position of
\* the confirmed break, 0 before it.
ScanStart == [index |-> 0, confirmed |-> 0, confirmed_id |-> None, pending |-> FALSE,
              ended |-> FALSE, events |-> <<>>]

\* Mutant: the last candle of the window does not count.
ReclaimStateExclusive(bars) == IF bars < FakeBreakMaxBars THEN "FAKE_BREAK" ELSE "RECLAIMED"

\* The state of a close above the zone, bars after the break.
ReclaimState(bars) == IF bars <= FakeBreakMaxBars THEN "FAKE_BREAK" ELSE "RECLAIMED"

\* One iteration of the loop of build_structure_events.
Scan(zone, s, c) ==
    LET n == [s EXCEPT !.index = s.index + 1]
        Emit(state, invalidates) == Append(s.events, Event(zone, c, state, invalidates))
    IN CASE s.ended -> s
         [] ~s.ended /\ s.confirmed = 0 /\ ConfirmsBreak(zone, c) ->
              [n EXCEPT !.confirmed = n.index,
                        !.confirmed_id = EventId(zone, c, "CONFIRMED_BREAK"),
                        !.events = Emit("CONFIRMED_BREAK", None)]
         [] ~s.ended /\ s.confirmed = 0 /\ ClosesBelow(zone, c)
              /\ ~ConfirmsBreak(zone, c) /\ ~s.pending ->
              [n EXCEPT !.pending = TRUE, !.events = Emit("PENDING_BREAK", None)]
         [] ~s.ended /\ s.confirmed = 0 /\ ~ClosesBelow(zone, c) /\ n.index > MaxZoneAge ->
              [n EXCEPT !.ended = TRUE, !.events = Emit("INVALIDATED", None)]
         [] ~s.ended /\ s.confirmed # 0 /\ ClosesAbove(zone, c) ->
              [n EXCEPT !.ended = TRUE,
                        !.events = Emit(ReclaimState(n.index - s.confirmed),
                                        s.confirmed_id)]
         [] OTHER -> n

\* build_structure_events
BuildStructureEvents(zone, candles) ==
    FoldLeft(LAMBDA s, c : Scan(zone, s, c), ScanStart, Relevant(zone, candles)).events

\* The status_map of evidence_from_events, for a zone with these events.
EvidenceStatus(events) ==
    IF events = <<>> THEN "INTACT"
    ELSE LET state == Last(events).state
         IN CASE state = "PENDING_BREAK"   -> "WATCH"
              [] state = "CONFIRMED_BREAK" -> "DAMAGED"
              [] state = "INVALIDATED"     -> "INVALIDATED"
              [] OTHER                     -> "RECLAIMED"
==============================================================================
