---------------------------- MODULE CrossExchange ----------------------------
(***************************************************************************)
(* Whether LBank can execute and whether the benchmarks confirm its price: *)
(* app/execution/lbank_validator.py, app/adapters/benchmark_health.py and  *)
(* app/execution/consensus.py, as functions of the snapshots and of now.   *)
(*                                                                         *)
(* Prices are integers in ticks and deviations are compared in hundredths  *)
(* of a percent without division; the sum of the two middle prices stands  *)
(* for twice the median.  Latency, spread and depth are kept as which side *)
(* of their threshold they are on.  PRICE_INVALID and SPREAD_INVALID cannot*)
(* occur: the snapshot's own constructor rejects such values.              *)
(***************************************************************************)
EXTENDS Integers, Sequences, FiniteSets, Functions

CONSTANTS
    NoTimestamp,          \* source_timestamp is None
    FutureTolerance,      \* the one second by which a time may be ahead of now
    MaxLBankAge,          \* LBankExecutionRules.max_age_seconds
    MaxReceiveAge,        \* BenchmarkHealthRules.max_receive_age_seconds
    MaxSourceAge,         \* BenchmarkHealthRules.max_source_age_seconds
    MinimumFreshSources,  \* the ConsensusRules, in hundredths of a percent
    WarningDeviation, DegradedDeviation, AvoidDeviation, MaxDispersion

Sources == {"MEXC", "GATE", "BYBIT", "BINANCE"}

\* The fields of a snapshot that a decision reads.
LBankSnapshot ==
    [symbol : STRING, received_at : Int, slow : BOOLEAN, wide : BOOLEAN,
     thin_bid : BOOLEAN, thin_ask : BOOLEAN, mid : Nat \ {0}]

BenchmarkSnapshot ==
    [source : Sources, symbol : STRING, received_at : Int,
     source_timestamp : Int \cup {NoTimestamp}, slow : BOOLEAN, price : Nat \ {0}]

ASSUME RulesAssumption ==
    /\ NoTimestamp \notin Int
    /\ {FutureTolerance, MinimumFreshSources} \subseteq Nat
    /\ {WarningDeviation, DegradedDeviation, AvoidDeviation} \subseteq Nat
    /\ {MaxLBankAge, MaxReceiveAge, MaxSourceAge, MaxDispersion} \subseteq Nat \ {0}
    /\ MinimumFreshSources >= 1
    /\ 0 < WarningDeviation
    /\ WarningDeviation < DegradedDeviation /\ DegradedDeviation < AvoidDeviation
----------------------------------------------------------------------------
(* Ages *)

FromFuture(at, now) == now - at < -FutureTolerance
Stale(at, now, limit) == now - at > limit
----------------------------------------------------------------------------
(* validate_lbank_execution *)

\* A snapshot that is no evidence at all outweighs one that cannot execute yet.
ValidateLBank(s, now) ==
    IF FromFuture(s.received_at, now) \/ Stale(s.received_at, now, MaxLBankAge) \/ s.slow
    THEN "DATA_DEGRADED"
    ELSE IF s.wide \/ s.thin_bid \/ s.thin_ask THEN "EXECUTION_PENDING"
    ELSE "OK"
----------------------------------------------------------------------------
(* evaluate_benchmark_health *)

BenchmarkHealth(b, now) ==
    LET stamped == b.source_timestamp # NoTimestamp
    IN IF \/ Stale(b.received_at, now, MaxReceiveAge)
          \/ stamped /\ Stale(b.source_timestamp, now, MaxSourceAge)
       THEN "STALE"
       ELSE IF \/ FromFuture(b.received_at, now)
               \/ ~stamped
               \/ stamped /\ FromFuture(b.source_timestamp, now)
               \/ b.slow
       THEN "DEGRADED"
       ELSE "OK"
----------------------------------------------------------------------------
(* build_cross_exchange_consensus: a symbol map is a record of canonical,   *)
(* lbank, benchmark (a function of the mapped sources) and reliable.        *)

\* Mutant: only a healthy snapshot takes the place of its source.
IncludedHealthy(bs, i, map, now) ==
    /\ \A k \in 1..(i - 1) :
         bs[k].source # bs[i].source \/ BenchmarkHealth(bs[k], now) # "OK"
    /\ bs[i].source \in DOMAIN map.benchmark
    /\ bs[i].symbol = map.benchmark[bs[i].source]
    /\ BenchmarkHealth(bs[i], now) = "OK"

\* The loop over the snapshots.  The first snapshot of a source takes its
\* place in seen_sources, usable or not.
Included(bs, i, map, now) ==
    /\ \A k \in 1..(i - 1) : bs[k].source # bs[i].source
    /\ bs[i].source \in DOMAIN map.benchmark
    /\ bs[i].symbol = map.benchmark[bs[i].source]
    /\ BenchmarkHealth(bs[i], now) = "OK"

\* The prices that count, sorted.
UsedPrices(bs, map, now) ==
    LET used == {i \in DOMAIN bs : Included(bs, i, map, now)}
        n == Cardinality(used)
        order == CHOOSE p \in Bijection(1..n, used) :
                   \A i, k \in 1..n : i < k => bs[p[i]].price <= bs[p[k]].price
    IN [k \in 1..n |-> bs[order[k]].price]

\* statistics.median of the sorted prices, doubled.
TwiceMedian(prices) ==
    prices[(Len(prices) + 1) \div 2] + prices[(Len(prices) + 2) \div 2]

\* _deviation_pct(value, median) >= bound, in hundredths of a percent.
Distance(a, b) == IF a > b THEN a - b ELSE b - a
DeviatesBy(value, median2, bound) == Distance(2 * value, median2) * 10000 >= bound * median2

DispersionTooHigh(prices) ==
    2 * (prices[Len(prices)] - prices[1]) * 10000 > MaxDispersion * TwiceMedian(prices)

ClassifyDeviation(mid, median2) ==
    CASE DeviatesBy(mid, median2, AvoidDeviation) -> "AVOID"
      [] ~DeviatesBy(mid, median2, AvoidDeviation)
           /\ DeviatesBy(mid, median2, DegradedDeviation) -> "DATA_DEGRADED"
      [] ~DeviatesBy(mid, median2, DegradedDeviation)
           /\ DeviatesBy(mid, median2, WarningDeviation) -> "WARNING"
      [] OTHER -> "OK"

Consensus(lbank, bs, map, now) ==
    LET prices == UsedPrices(bs, map, now)
    IN IF ~map.reliable \/ lbank.symbol # map.lbank THEN "DATA_DEGRADED"
       ELSE IF ValidateLBank(lbank, now) # "OK" THEN ValidateLBank(lbank, now)
       ELSE IF Len(prices) < MinimumFreshSources \/ DispersionTooHigh(prices)
       THEN "DATA_DEGRADED"
       ELSE ClassifyDeviation(lbank.mid, TwiceMedian(prices))

\* allows_execution_confirmation
Confirms(status) == status \in {"OK", "WARNING"}
==============================================================================
