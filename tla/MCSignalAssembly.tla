-------------------------- MODULE MCSignalAssembly --------------------------
(* A sound request and its variations.  Prices are around 10000, so that one *)
(* tick is one hundredth of a percent.                                       *)
EXTENDS SignalAssembly

MCTimes == {0, 1, 4, 5, 6}
MCTtls == {2}

Quote == [symbol |-> "X", received_at |-> 2, slow |-> FALSE, wide |-> FALSE,
          thin_bid |-> FALSE, thin_ask |-> FALSE, mid |-> 10000]

\* On the thresholds of the deviation.
Priced == {[Quote EXCEPT !.mid = m] : m \in {10000, 10020, 10050, 10100, 9981}}

\* And unhealthy in every way, and in two.
Quotes ==
    Priced
    \cup {[Quote EXCEPT !.slow = TRUE], [Quote EXCEPT !.wide = TRUE],
          [Quote EXCEPT !.thin_bid = TRUE], [Quote EXCEPT !.thin_ask = TRUE],
          [Quote EXCEPT !.wide = TRUE, !.slow = TRUE], [Quote EXCEPT !.received_at = 0]}

Bench(s, p) == [source |-> s, symbol |-> "X", received_at |-> 2, source_timestamp |-> 1,
                slow |-> FALSE, price |-> p]

Snapshots ==
    {Bench("BYBIT", 10000), Bench("MEXC", 10000), Bench("MEXC", 10040), Bench("GATE", 10101),
     [Bench("BYBIT", 10000) EXCEPT !.received_at = 0],
     [Bench("BYBIT", 9900) EXCEPT !.source_timestamp = NoTimestamp],
     [Bench("GATE", 10000) EXCEPT !.source_timestamp = 4],
     [Bench("MEXC", 9900) EXCEPT !.slow = TRUE],
     [Bench("MEXC", 9900) EXCEPT !.symbol = "Y"], Bench("BINANCE", 9900)}

SymbolMap == [canonical |-> "X", lbank |-> "X", reliable |-> TRUE,
              benchmark |-> [s \in {"BYBIT", "MEXC", "GATE"} |-> "X"]]

Sound ==
    [symbol |-> "X", discovery |-> 1, map |-> SymbolMap, lbank |-> Quote,
     bench |-> <<Bench("BYBIT", 10000), Bench("MEXC", 10000)>>,
     htf |-> [symbol |-> "X", market_symbol |-> "X", observed_at |-> 2,
              daily |-> TRUE, four_hour |-> TRUE],
     structure |-> [symbol |-> "X", current |-> 5, low |-> 6, high |-> 10],
     plan |-> [symbol |-> "X", entry |-> 10000, boundary |-> 10100, ratio |-> 2,
               multiplier |-> 1]]

\* Everything but the snapshots.
Variations ==
    {[Sound EXCEPT !.discovery = d] : d \in {0, 3}}
    \cup {[Sound EXCEPT !.plan.symbol = "Y"], [Sound EXCEPT !.htf.symbol = "Y"],
          [Sound EXCEPT !.structure.symbol = "Y"], [Sound EXCEPT !.map.canonical = "Y"],
          [Sound EXCEPT !.map.lbank = "Y"], [Sound EXCEPT !.map.reliable = FALSE],
          [Sound EXCEPT !.htf.daily = FALSE], [Sound EXCEPT !.htf.four_hour = FALSE],
          [Sound EXCEPT !.htf.observed_at = 1], [Sound EXCEPT !.htf.observed_at = 6]}
    \cup {[Sound EXCEPT !.structure.current = c] : c \in {6, 7, 8, 11}}
    \cup {[Sound EXCEPT !.plan.entry = e] : e \in {-1, 0, 9950, 9949, 10050, 10051}}
    \cup {[Sound EXCEPT !.plan.boundary = b] : b \in {9999, 10000, 15000}}
    \cup {[Sound EXCEPT !.plan.ratio = 0], [Sound EXCEPT !.plan.ratio = 100],
          [Sound EXCEPT !.plan.multiplier = 0], [Sound EXCEPT !.plan.multiplier = 6]}

\* Every sequence of up to three snapshots, every price beside up to two, and
\* every quote beside every variation.
MCRequests ==
    {[Sound EXCEPT !.bench = bs] : bs \in BoundedSeq(Snapshots, 3)}
    \cup {[Sound EXCEPT !.lbank = q, !.bench = bs] :
            q \in Priced, bs \in BoundedSeq(Snapshots, 2)}
    \cup {[v EXCEPT !.lbank = q] : v \in Variations \cup {Sound}, q \in Quotes}
==============================================================================
