------------------------------- MODULE Candles -------------------------------
(***************************************************************************)
(* Closed OHLCV candles (OhlcvCandle of app/candles/models.py) and the     *)
(* arithmetic the analyses share.  Prices are integers of one tick; a      *)
(* distance in basis points is compared by cross-multiplication, which is  *)
(* what the Decimal quotients of the code decide.                          *)
(***************************************************************************)
EXTENDS Integers, Sequences, SequencesExt

CONSTANT None   \* Python's None

ASSUME NoneAssumption == None \notin Int

\* OhlcvCandle.__post_init__: the range holds the open and the close.
IsCandle(c) ==
    /\ c.open_time < c.close_time
    /\ 0 < c.low /\ c.low <= c.open /\ c.low <= c.close
    /\ c.open <= c.high /\ c.close <= c.high
    /\ c.volume >= 0

\* CandleBatch.__post_init__: strictly chronological.
IsBatch(candles) ==
    /\ \A i \in DOMAIN candles : IsCandle(candles[i])
    /\ \A i \in 1..(Len(candles) - 1) : candles[i].open_time < candles[i + 1].open_time

Magnitude(n) == IF n < 0 THEN -n ELSE n

Body(c) == Magnitude(c.close - c.open)

\* part / whole is at least (at most) bps basis points.
AtLeastBps(part, whole, bps) == part * 10000 >= bps * whole
AtMostBps(part, whole, bps) == part * 10000 <= bps * whole

\* Decimal.quantize: n / d to the nearest integer, a tie to the even one.
Quantized(n, d) ==
    LET q == n \div d
        r == 2 * (n % d)
    IN IF r > d \/ (r = d /\ q % 2 = 1) THEN q + 1 ELSE q

Indices(candles, Test(_)) == {i \in DOMAIN candles : Test(candles[i])}

\* What a comprehension leaves of a list: the elements at these positions.
Kept(list, positions) ==
    FoldLeft(LAMBDA kept, i : IF i \in positions THEN Append(kept, list[i]) ELSE kept,
             <<>>, [i \in DOMAIN list |-> i])

\* candles[:n]
Take(candles, n) == SubSeq(candles, 1, IF Len(candles) < n THEN Len(candles) ELSE n)

\* candles[n - 1:]
From(candles, n) == SubSeq(candles, n, Len(candles))
==============================================================================
