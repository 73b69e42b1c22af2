------------------------ MODULE EvidenceStore_proofs ------------------------
(***************************************************************************)
(* Proofs about EvidenceStore for every history, every limit and every     *)
(* order of the jobs' runs and of the market's candles.                    *)
(***************************************************************************)
EXTENDS EvidenceStore, Engines_proofs

----------------------------------------------------------------------------
(* Counting M15 candles in H4 candles.                                       *)

\* What of n is not in whole multiples of r.
LEMMA Remainder ==
    ASSUME NEW n \in Nat, NEW r \in Nat \ {0}
    PROVE  /\ n \div r \in Nat /\ n % r \in 0..(r - 1)
           /\ r * (n \div r) = n - (n % r)
<1>1. n \div r \in Int /\ n % r \in 0..(r - 1) /\ n = r * (n \div r) + (n % r)
  OBVIOUS
<1> DEFINE q == n \div r
           p == r * q
<1>2. q >= 0
  <2>1. SUFFICES ASSUME q <= -1 PROVE FALSE
    BY <1>1
  <2>2. r * q <= -r
    BY <1>1, <2>1
  <2> QED
    BY <1>1, <2>2
<1> QED
  BY <1>1, <1>2

\* One more leaves one more, or nothing where the multiple is full.
LEMMA NextRemainder ==
    ASSUME NEW n \in Nat, NEW r \in Nat \ {0}
    PROVE  (n + 1) % r = IF n % r = r - 1 THEN 0 ELSE (n % r) + 1
<1> DEFINE m == n + 1
           q == n \div r
           s == m \div r
           a == n % r
           b == m % r
<1>m. m \in Nat /\ m = n + 1
  OBVIOUS
<1> HIDE DEF m
<1>s. s \in Nat /\ b \in 0..(r - 1) /\ r * s = m - b
  BY <1>m, Remainder
<1>q. q \in Nat /\ a \in 0..(r - 1) /\ r * q = n - a
  BY Remainder
<1> HIDE DEF q, s, a, b
<1>1. /\ q \in Nat /\ a \in 0..(r - 1) /\ r * q = n - a
      /\ s \in Nat /\ b \in 0..(r - 1) /\ r * s = n + 1 - b
  BY <1>m, <1>s, <1>q
<1>2. r * s - r * q = r * (s - q)
  BY <1>1
<1>3. r * (s - q) = 1 + a - b
  BY <1>1, <1>2
<1>4. s - q \in {0, 1}
  <2>1. s - q >= 2 => r * (s - q) >= r + r
    BY <1>1
  <2>2. s - q <= -1 => r * (s - q) <= -r
    BY <1>1
  <2> QED
    BY <1>1, <1>3, <2>1, <2>2
<1>5. CASE s - q = 0
  BY <1>1, <1>3, <1>5 DEF a, b, m
<1>6. CASE s - q = 1
  <2>1. b = 1 + a - r
    BY <1>1, <1>3, <1>6
  <2> QED
    BY <1>1, <2>1 DEF a, b, m
<1> QED
  BY <1>4, <1>5, <1>6
----------------------------------------------------------------------------
(* Chronicles: what the adapter's operations on rows leave of one.           *)

\* The candles at some positions of a chronicle are one.
LEMMA KeptChronicle ==
    ASSUME NEW cs, Chronicle(cs), NEW positions
    PROVE  LET kept == Kept(cs, positions)
           IN /\ Chronicle(kept)
              /\ \A m \in 1..Len(kept) :
                   \E i \in 1..Len(cs) : i \in positions /\ kept[m] = cs[i]
<1> DEFINE kept == Kept(cs, positions)
<1>1. cs \in Seq(Ohlcv)
  BY DEF Chronicle
<1>2. kept \in Seq(Ohlcv)
  BY <1>1, KeptElements
<1>3. PICK pos \in [1..Len(kept) -> 1..Len(cs)] :
        /\ \A m \in 1..Len(kept) : pos[m] \in positions /\ kept[m] = cs[pos[m]]
        /\ \A l, m \in 1..Len(kept) : l < m => pos[l] < pos[m]
  BY <1>1, KeptElements
<1> HIDE DEF kept
<1>4. \A m \in 1..Len(kept) : IsCandle(kept[m])
  BY <1>3 DEF Chronicle
<1>5. \A l, m \in 1..Len(kept) : l < m => kept[l].open_time < kept[m].open_time
  BY <1>3 DEF Chronicle
<1>6. Chronicle(kept)
  BY <1>2, <1>4, <1>5 DEF Chronicle
<1>7. \A m \in 1..Len(kept) : \E i \in 1..Len(cs) : i \in positions /\ kept[m] = cs[i]
  BY <1>3
<1> QED
  BY <1>6, <1>7 DEF kept

\* So are its last rows.
LEMMA LastRowsChronicle ==
    ASSUME NEW cs, Chronicle(cs), NEW n \in Nat \ {0}
    PROVE  LET rows == LastRows(cs, n)
           IN /\ Chronicle(rows)
              /\ \A m \in 1..Len(rows) : \E i \in 1..Len(cs) : rows[m] = cs[i]
<1>1. cs \in Seq(Ohlcv) /\ Len(cs) \in Nat
  BY DEF Chronicle
<1> DEFINE first == Max({1, Len(cs) - n + 1})
           rows == LastRows(cs, n)
<1>2. first \in {1, Len(cs) - n + 1} /\ 1 <= first
  <2> DEFINE other == Len(cs) - n + 1
  <2>1. other \in Int /\ 1 \in Int
    BY <1>1
  <2> HIDE DEF other
  <2>2. Max({1, other}) \in {1, other} /\ 1 <= Max({1, other})
    BY <2>1, MaxOfTwo
  <2> QED
    BY <2>2 DEF other
<1>3. rows = From(cs, first)
  BY DEF LastRows, From
<1> HIDE DEF first, rows
<1>4. CASE cs = <<>>
  <2>1. first = 1
    BY <1>1, <1>2, <1>4
  <2>2. rows = <<>>
    BY <1>3, <1>4, <2>1 DEF From
  <2> QED
    BY <1>4, <2>2 DEF rows
<1>5. CASE cs # <<>>
  <2>1. first \in 1..Len(cs)
    BY <1>1, <1>2, <1>5
  <2>2. Chronicle(rows)
    BY <1>3, <2>1, SlicesAreChronicles
  <2>3. /\ Len(rows) = Len(cs) - first + 1
        /\ \A i \in 1..Len(rows) : rows[i] = cs[first + i - 1]
    BY <1>1, <1>3, <2>1, Slices
  <2>4. \A m \in 1..Len(rows) : first + m - 1 \in 1..Len(cs)
    BY <1>1, <2>1, <2>3
  <2>5. \A m \in 1..Len(rows) : \E i \in 1..Len(cs) : rows[m] = cs[i]
    BY <2>3, <2>4
  <2> QED
    BY <2>2, <2>5 DEF rows
<1> QED
  BY <1>4, <1>5

\* A candle that opens later than all others continues one.
LEMMA AppendChronicle ==
    ASSUME NEW cs, Chronicle(cs), NEW c \in Ohlcv, IsCandle(c),
           \A i \in 1..Len(cs) : cs[i].open_time < c.open_time
    PROVE  Chronicle(Append(cs, c))
<1> DEFINE new == Append(cs, c)
<1>1. cs \in Seq(Ohlcv) /\ Len(cs) \in Nat
  BY DEF Chronicle
<1>2. /\ new \in Seq(Ohlcv) /\ Len(new) = Len(cs) + 1 /\ new[Len(cs) + 1] = c
      /\ \A i \in 1..Len(cs) : new[i] = cs[i]
  BY <1>1
<1> HIDE DEF new
<1>3. \A i \in 1..Len(new) : i \in 1..Len(cs) \/ i = Len(cs) + 1
  BY <1>1, <1>2
<1>4. \A i \in 1..Len(new) : IsCandle(new[i])
  BY <1>2, <1>3 DEF Chronicle
<1>5. ASSUME NEW i \in 1..Len(new), NEW k \in 1..Len(new), i < k
      PROVE  new[i].open_time < new[k].open_time
  <2>1. i \in 1..Len(cs)
    BY <1>1, <1>2, <1>5
  <2> QED
    BY <1>2, <1>3, <1>5, <2>1 DEF Chronicle
<1> QED
  BY <1>2, <1>4, <1>5 DEF Chronicle, new

\* FetchBatch of a chronicle: in order, and nothing that is open.
LEMMA FetchedChronicle ==
    ASSUME NEW rows, Chronicle(rows), NEW fetched_at
    PROVE  LET batch == FetchBatch(rows, fetched_at)
           IN /\ Chronicle(batch)
              /\ \A m \in 1..Len(batch) :
                   \E i \in 1..Len(rows) : /\ batch[m] = rows[i]
                                           /\ rows[i].close_time <= fetched_at
<1> DEFINE closed == Indices(rows, LAMBDA c : c.close_time <= fetched_at)
<1>1. FetchBatch(rows, fetched_at) = Kept(rows, closed)
  BY DEF FetchBatch
<1>2. closed = {i \in DOMAIN rows : rows[i].close_time <= fetched_at}
  BY DEF Indices
<1> HIDE DEF closed
<1>3. LET kept == Kept(rows, closed)
      IN /\ Chronicle(kept)
         /\ \A m \in 1..Len(kept) :
              \E i \in 1..Len(rows) : i \in closed /\ kept[m] = rows[i]
  BY KeptChronicle
<1> QED
  BY <1>1, <1>2, <1>3

\* AfterBreak of a chronicle.
LEMMA AfterBreakChronicle ==
    ASSUME NEW break, NEW batch, Chronicle(batch)
    PROVE  LET cs == AfterBreak(break, batch)
           IN /\ Chronicle(cs)
              /\ \A m \in 1..Len(cs) :
                   \E i \in 1..Len(batch) : /\ cs[m] = batch[i]
                                            /\ batch[i].close_time > break.observed_at
<1> DEFINE late == Indices(batch, LAMBDA c : c.close_time > break.observed_at)
<1>1. AfterBreak(break, batch) = Kept(batch, late)
  BY DEF AfterBreak
<1>2. late = {i \in DOMAIN batch : batch[i].close_time > break.observed_at}
  BY DEF Indices
<1> HIDE DEF late
<1>3. LET kept == Kept(batch, late)
      IN /\ Chronicle(kept)
         /\ \A m \in 1..Len(kept) :
              \E i \in 1..Len(batch) : i \in late /\ kept[m] = batch[i]
  BY KeptChronicle
<1> QED
  BY <1>1, <1>2, <1>3

\* Candles of a chronicle put together are a candle.
LEMMA AggregateIsCandle ==
    ASSUME NEW part, Chronicle(part), part # <<>>
    PROVE  /\ Aggregate(part) \in Ohlcv /\ IsCandle(Aggregate(part))
           /\ Aggregate(part).open_time = part[1].open_time
           /\ Aggregate(part).close_time = part[1].open_time + Ratio
<1> DEFINE lows == {part[i].low : i \in DOMAIN part}
           low == Min(lows)
           high == MaxHigh(part)
           volume == FoldLeft(LAMBDA v, c : v + c.volume, 0, part)
           n == Len(part)
<1>1. /\ part \in Seq(Ohlcv) /\ n \in Nat \ {0} /\ DOMAIN part = 1..n
      /\ Head(part) = part[1] /\ Last(part) = part[n] /\ 1 \in 1..n /\ n \in 1..n
  BY DEF Chronicle, Last
<1>2. \A i \in 1..n : /\ part[i].low \in Nat \ {0} /\ part[i].low \in lows
                      /\ part[i].open \in Int /\ part[i].close \in Int
                      /\ part[i].open_time \in Int
                      /\ part[i].low <= part[i].open /\ part[i].low <= part[i].close
                      /\ part[i].open <= part[i].high /\ part[i].close <= part[i].high
                      /\ part[i].high \in Int
  <2> TAKE i \in 1..n
  <2>1. part[i].low \in lows
    BY <1>1
  <2>2. /\ part[i].open \in Int /\ part[i].high \in Int /\ part[i].low \in Int
        /\ part[i].close \in Int /\ part[i].open_time \in Int
        /\ 0 < part[i].low /\ part[i].low <= part[i].open /\ part[i].low <= part[i].close
        /\ part[i].open <= part[i].high /\ part[i].close <= part[i].high
    BY CandleFields
  <2> HIDE DEF lows, n
  <2> QED
    BY <2>1, <2>2
<1>3. lows \subseteq Nat /\ lows # {} /\ 0 \notin lows
  BY <1>1, <1>2
<1> HIDE DEF lows
<1>4. low \in lows /\ \A y \in lows : low <= y
  BY <1>3, MinOfNaturals
<1>5. high \in Int /\ \A i \in 1..n : part[i].high <= high
  BY MaxHighIsGreatest
<1>6. volume \in Nat
  BY VolumesAddUp
<1>7. Aggregate(part) = [open |-> part[1].open, close |-> part[n].close,
                         high |-> high, low |-> low, volume |-> volume,
                         open_time |-> part[1].open_time,
                         close_time |-> part[1].open_time + Ratio]
  BY <1>1 DEF Aggregate, lows
<1> HIDE DEF low, high, volume, n
<1>8. low \in Nat \ {0} /\ \A i \in 1..n : low <= part[i].low
  BY <1>2, <1>3, <1>4
<1>9. low <= part[1].open /\ low <= part[n].close
  BY <1>1, <1>2, <1>8
<1>10. part[1].open <= high /\ part[n].close <= high
  BY <1>1, <1>2, <1>5
<1>11. Ratio \in Nat \ {0}
  BY EvidenceAssumption
<1> DEFINE whole == Aggregate(part)
<1>12. /\ whole.open = part[1].open /\ whole.close = part[n].close
       /\ whole.high = high /\ whole.low = low /\ whole.volume = volume
       /\ whole.open_time = part[1].open_time
       /\ whole.close_time = part[1].open_time + Ratio
  BY <1>7
<1>13. /\ part[1].open \in Int /\ part[n].close \in Int /\ part[1].open_time \in Int
       /\ part[1].open_time + Ratio \in Int /\ low \in Int /\ volume \in Int
  BY <1>1, <1>2, <1>6, <1>8, <1>11
<1>14. whole \in Ohlcv
  BY <1>5, <1>7, <1>13 DEF Ohlcv
<1> HIDE DEF whole
<1>15. IsCandle(whole)
  BY <1>6, <1>8, <1>9, <1>10, <1>11, <1>12, <1>13 DEF IsCandle
<1> QED
  BY <1>12, <1>14, <1>15 DEF whole
----------------------------------------------------------------------------
(* The market.                                                               *)

\* The candles of both intervals have closed one after the other, and the last
\* H4 candle where the last whole multiple of Ratio has.
MarketInv ==
    /\ m15 \in Seq(Ohlcv)
    /\ \A i \in 1..Len(m15) : /\ IsCandle(m15[i])
                              /\ m15[i].open_time = i - 1 /\ m15[i].close_time = i
    /\ Chronicle(h4) /\ h4 # <<>>
    /\ \A i \in 1..Len(h4) : h4[i].close_time = h4[i].open_time + Ratio
    /\ h4[Len(h4)].close_time = Len(m15) - (Len(m15) % Ratio)

\* The M15 candles are a chronicle.
LEMMA M15Chronicle ==
    ASSUME MarketInv
    PROVE  Chronicle(m15)
BY DEF MarketInv, Chronicle

\* A history is a chronicle that ends where the stream begins.
LEMMA HistoryChronicle ==
    ASSUME NEW history \in Histories
    PROVE  LET hs == HistoryCandles(history)
           IN /\ Chronicle(hs) /\ hs # <<>>
              /\ \A i \in 1..Len(hs) : hs[i].close_time = hs[i].open_time + Ratio
              /\ hs[Len(hs)].close_time = 0
<1> DEFINE hs == HistoryCandles(history)
           n == Len(history)
           at == [i \in 1..n |-> (i - 1 - n) * Ratio]
           close == [i \in 1..n |-> history[i][2]]
           low == [i \in 1..n |-> history[i][1]]
           open == [i \in 1..n |-> IF i = 1 THEN close[i] ELSE close[i - 1]]
           high == [i \in 1..n |-> Max({open[i], close[i]})]
<1>1. /\ history \in Seq(Nat \X Nat) /\ n \in Nat \ {0} /\ DOMAIN history = 1..n
      /\ Ratio \in Nat \ {0}
  BY HistoryAssumption, EvidenceAssumption
<1>2. \A i \in 1..n : /\ close[i] \in Nat /\ low[i] \in Nat
                      /\ 0 < low[i] /\ low[i] <= close[i]
                      /\ i # 1 => low[i] <= close[i - 1]
  <2> TAKE i \in 1..n
  <2>1. history[i] \in Nat \X Nat
    BY <1>1
  <2>2. history[i][1] \in Nat /\ history[i][2] \in Nat
    BY <2>1
  <2>3. /\ 0 < history[i][1] /\ history[i][1] <= history[i][2]
        /\ i # 1 => history[i][1] <= history[i - 1][2]
    <3>1. i \in DOMAIN history
      BY <1>1
    <3> QED
      BY <3>1, HistoryAssumption, Zenon
  <2>4. i # 1 => i - 1 \in 1..n
    BY <1>1
  <2> HIDE DEF n
  <2> QED
    BY <2>2, <2>3, <2>4
<1>3. \A i \in 1..n : hs[i] = [open |-> open[i], close |-> close[i], high |-> high[i],
                               low |-> low[i], volume |-> Ratio,
                               open_time |-> at[i], close_time |-> at[i] + Ratio]
  <2> TAKE i \in 1..n
  <2>1. i # 1 => i - 1 \in 1..n
    BY <1>1
  <2>2. /\ at[i] = (i - 1 - n) * Ratio /\ close[i] = history[i][2] /\ low[i] = history[i][1]
        /\ open[i] = IF i = 1 THEN history[i][2] ELSE history[i - 1][2]
    BY <2>1
  <2>3. high[i] = Max({open[i], close[i]})
    OBVIOUS
  <2> HIDE DEF at, open, close, low, high
  <2>4. hs[i] = LET x == (i - 1 - Len(history)) * Ratio
                    c == history[i][2]
                    o == IF i = 1 THEN c ELSE history[i - 1][2]
                IN [open |-> o, close |-> c, high |-> Max({o, c}), low |-> history[i][1],
                    volume |-> Ratio, open_time |-> x, close_time |-> x + Ratio]
    BY <1>1, Zenon DEF HistoryCandles
  <2> QED
    BY <2>2, <2>3, <2>4
<1>4. DOMAIN hs = 1..n
  BY <1>1 DEF HistoryCandles
<1>5. \A i \in 1..n : open[i] \in Nat /\ low[i] <= open[i]
  <2> TAKE i \in 1..n
  <2>1. open[i] = IF i = 1 THEN close[i] ELSE close[i - 1]
    OBVIOUS
  <2>2. i # 1 => i - 1 \in 1..n
    BY <1>1
  <2> HIDE DEF open, close, low, n
  <2> QED
    BY <1>2, <2>1, <2>2
<1>6. \A i \in 1..n : high[i] \in Int /\ open[i] <= high[i] /\ close[i] <= high[i]
  <2> TAKE i \in 1..n
  <2>1. open[i] \in Int /\ close[i] \in Int
    BY <1>2, <1>5
  <2>2. high[i] = Max({open[i], close[i]})
    OBVIOUS
  <2> HIDE DEF open, close, high
  <2> QED
    BY <2>1, <2>2, MaxOfTwo
<1>7. \A i \in 1..n : at[i] \in Int
  BY <1>1
<1>8. \A i, k \in 1..n : i < k => at[i] < at[k]
  <2> SUFFICES ASSUME NEW i \in 1..n, NEW k \in 1..n, i < k PROVE at[i] < at[k]
    OBVIOUS
  <2>1. at[k] = (k - 1 - n) * Ratio /\ at[i] = (i - 1 - n) * Ratio
    OBVIOUS
  <2>2. at[k] - at[i] = (k - i) * Ratio
    BY <1>1, <2>1
  <2>3. (k - i) * Ratio > 0
    BY <1>1
  <2> HIDE DEF at, n
  <2> QED
    BY <1>7, <2>2, <2>3
<1>9. at[n] = -Ratio
  BY <1>1
<1> HIDE DEF hs, n, at, close, low, open, high
<1>10. \A i \in 1..n : /\ hs[i].open = open[i] /\ hs[i].close = close[i]
                       /\ hs[i].high = high[i] /\ hs[i].low = low[i]
                       /\ hs[i].volume = Ratio /\ hs[i].open_time = at[i]
                       /\ hs[i].close_time = at[i] + Ratio
  <2> TAKE i \in 1..n
  <2>1. hs[i] = [open |-> open[i], close |-> close[i], high |-> high[i],
                 low |-> low[i], volume |-> Ratio,
                 open_time |-> at[i], close_time |-> at[i] + Ratio]
    BY <1>3
  <2> QED
    BY <2>1
<1>11. \A i \in 1..n : hs[i] \in Ohlcv
  <2> TAKE i \in 1..n
  <2>1. hs[i] = [open |-> open[i], close |-> close[i], high |-> high[i],
                 low |-> low[i], volume |-> Ratio,
                 open_time |-> at[i], close_time |-> at[i] + Ratio]
    BY <1>3
  <2>2. /\ open[i] \in Int /\ close[i] \in Int /\ high[i] \in Int /\ low[i] \in Int
        /\ Ratio \in Int /\ at[i] \in Int /\ at[i] + Ratio \in Int
    BY <1>1, <1>2, <1>5, <1>6, <1>7
  <2> QED
    BY <2>1, <2>2 DEF Ohlcv
<1>12. \A i \in 1..n : IsCandle(hs[i])
  <2> TAKE i \in 1..n
  <2>1. /\ at[i] < at[i] + Ratio /\ 0 < low[i] /\ low[i] <= open[i] /\ low[i] <= close[i]
        /\ open[i] <= high[i] /\ close[i] <= high[i] /\ Ratio >= 0
    BY <1>1, <1>2, <1>5, <1>6, <1>7
  <2> QED
    BY <1>10, <2>1 DEF IsCandle
<1>13. hs \in Seq(Ohlcv) /\ Len(hs) = n
  <2>1. hs = [i \in 1..n |-> hs[i]]
    BY <1>1 DEF hs, HistoryCandles, n
  <2>2. hs \in [1..n -> Ohlcv]
    BY <1>11, <2>1
  <2> QED
    BY <1>1, <2>2
<1>14. \A i, k \in 1..n : i < k => hs[i].open_time < hs[k].open_time
  BY <1>8, <1>10
<1>15. Chronicle(hs)
  BY <1>12, <1>13, <1>14 DEF Chronicle
<1>16. hs # <<>>
  BY <1>1, <1>13
<1>17. \A i \in 1..n : hs[i].close_time = hs[i].open_time + Ratio
  BY <1>10
<1>18. hs[n].close_time = 0
  BY <1>1, <1>9, <1>10
<1> QED
  BY <1>13, <1>15, <1>16, <1>17, <1>18 DEF hs

\* The market before the stream.
LEMMA MarketBegins ==
    ASSUME Init
    PROVE  MarketInv
<1>1. PICK history \in Histories : h4 = HistoryCandles(history)
  BY DEF Init
<1>2. m15 = <<>> /\ m15 \in Seq(Ohlcv) /\ Len(m15) = 0
  BY DEF Init
<1>3. 0 % Ratio = 0
  <2>1. Ratio \in Nat \ {0}
    BY EvidenceAssumption
  <2>2. 0 \in Nat
    OBVIOUS
  <2> DEFINE q == 0 \div Ratio
             p == Ratio * q
  <2>3. 0 % Ratio \in 0..(Ratio - 1) /\ q \in Nat /\ Ratio * q = 0 - (0 % Ratio)
    BY <2>1, <2>2, Remainder
  <2>4. Ratio * q >= 0
    BY <2>1, <2>3
  <2> HIDE DEF q
  <2> QED
    BY <2>1, <2>3, <2>4
<1>4. LET hs == HistoryCandles(history)
      IN /\ Chronicle(hs) /\ hs # <<>>
         /\ \A i \in 1..Len(hs) : hs[i].close_time = hs[i].open_time + Ratio
         /\ hs[Len(hs)].close_time = 0
  BY HistoryChronicle
<1> QED
  BY <1>1, <1>2, <1>3, <1>4 DEF MarketInv

\* Every H4 candle has closed with the last one or before.
LEMMA ClosedBefore ==
    ASSUME MarketInv, NEW i \in 1..Len(h4)
    PROVE  /\ h4[i].open_time \in Int /\ h4[i].close_time = h4[i].open_time + Ratio
           /\ h4[i].close_time <= Len(m15) - (Len(m15) % Ratio)
<1> DEFINE l == Len(h4)
<1>1. l \in Nat /\ l \in 1..l /\ Ratio \in Nat \ {0}
  BY EvidenceAssumption DEF MarketInv, Chronicle
<1>2. \A k \in 1..l : h4[k].open_time \in Int
  BY CandleFields DEF MarketInv
<1>3. \A k \in 1..l : h4[k].close_time = h4[k].open_time + Ratio
  BY DEF MarketInv
<1>4. i < l => h4[i].open_time < h4[l].open_time
  BY <1>1 DEF MarketInv, Chronicle
<1>5. h4[l].close_time = Len(m15) - (Len(m15) % Ratio)
  BY DEF MarketInv
<1> DEFINE end == Len(m15) - (Len(m15) % Ratio)
<1> HIDE DEF end, l
<1>6. h4[i].close_time <= h4[l].close_time
  BY <1>1, <1>2, <1>3, <1>4 DEF l
<1> QED
  BY <1>2, <1>3, <1>5, <1>6 DEF end, l

\* The candle that CloseM15 appends.
NextM15(price) ==
    LET open == IF m15 = <<>> THEN Last(h4).close ELSE Last(m15).close
    IN [open |-> open, close |-> price,
        high |-> Max({open, price}), low |-> Min({open, price}),
        volume |-> 1, open_time |-> Len(m15), close_time |-> Len(m15) + 1]

\* It is a candle, and of the next interval.
LEMMA NextM15Candle ==
    ASSUME MarketInv, NEW price \in Prices
    PROVE  LET c == NextM15(price)
           IN /\ c \in Ohlcv /\ IsCandle(c)
              /\ c.open_time = Len(m15) /\ c.close_time = Len(m15) + 1
<1> DEFINE open == IF m15 = <<>> THEN Last(h4).close ELSE Last(m15).close
           n == Len(m15)
           high == Max({open, price})
           low == Min({open, price})
<1>1. n \in Nat
  BY DEF MarketInv
<1>2. open \in Nat \ {0}
  <2>1. Last(h4) = h4[Len(h4)] /\ Len(h4) \in 1..Len(h4)
    BY DEF MarketInv, Chronicle, Last
  <2>2. h4[Len(h4)].close \in Nat \ {0}
    BY <2>1, CandleFields DEF MarketInv
  <2>3. m15 # <<>> => Last(m15) = m15[Len(m15)] /\ Len(m15) \in 1..Len(m15)
    BY DEF MarketInv, Last
  <2>4. m15 # <<>> => m15[Len(m15)].close \in Nat \ {0}
    BY <2>3, M15Chronicle, CandleFields
  <2> QED
    BY <2>1, <2>2, <2>3, <2>4
<1>3. price \in Nat \ {0}
  BY EvidenceAssumption
<1> HIDE DEF open, n
<1>4. high \in Int /\ open <= high /\ price <= high
  BY <1>2, <1>3, MaxOfTwo
<1>5. low \in {open, price} /\ low <= open /\ low <= price
  <2>1. {open, price} \subseteq Nat /\ {open, price} # {}
    BY <1>2, <1>3
  <2> QED
    BY <2>1, MinOfNaturals
<1> DEFINE c == [open |-> open, close |-> price, high |-> high, low |-> low,
                 volume |-> 1, open_time |-> n, close_time |-> n + 1]
<1>6. NextM15(price) = c
  BY DEF NextM15, open, n
<1> HIDE DEF high, low
<1>7. c \in Ohlcv
  BY <1>1, <1>2, <1>3, <1>4, <1>5 DEF Ohlcv
<1>8. /\ c.open = open /\ c.close = price /\ c.high = high /\ c.low = low
      /\ c.volume = 1 /\ c.open_time = n /\ c.close_time = n + 1
  OBVIOUS
<1> HIDE DEF c
<1>9. IsCandle(c)
  BY <1>1, <1>2, <1>3, <1>4, <1>5, <1>8 DEF IsCandle
<1> QED
  BY <1>6, <1>7, <1>8, <1>9 DEF n

\* A candle more.
LEMMA MarketStep ==
    ASSUME MarketInv, NEW price \in Prices, CloseM15(price)
    PROVE  MarketInv'
<1> DEFINE n == Len(m15)
           c == NextM15(price)
           new == Append(m15, c)
           part == From(new, n + 2 - Ratio)
           whole == Aggregate(part)
<1>1. n \in Nat /\ m15 \in Seq(Ohlcv) /\ Ratio \in Nat \ {0}
  BY EvidenceAssumption DEF MarketInv
<1>2. c \in Ohlcv /\ IsCandle(c) /\ c.open_time = n /\ c.close_time = n + 1
  BY NextM15Candle
<1>3. m15' = new
  BY DEF CloseM15, NextM15
<1> HIDE DEF c
<1>4. /\ new \in Seq(Ohlcv) /\ Len(new) = n + 1 /\ new[n + 1] = c
      /\ \A i \in 1..n : new[i] = m15[i]
  BY <1>1, <1>2
<1> HIDE DEF new
<1>5. \A i \in 1..Len(new) : /\ IsCandle(new[i])
                             /\ new[i].open_time = i - 1 /\ new[i].close_time = i
  <2> TAKE i \in 1..Len(new)
  <2>1. CASE i \in 1..n
    BY <1>4, <2>1 DEF MarketInv
  <2>2. CASE i = n + 1
    BY <1>1, <1>2, <1>4, <2>2
  <2> QED
    BY <1>1, <1>4, <2>1, <2>2
<1>6. Chronicle(new)
  BY <1>4, <1>5 DEF Chronicle
<1>7. /\ n % Ratio \in 0..(Ratio - 1)
      /\ (n + 1) % Ratio = IF n % Ratio = Ratio - 1 THEN 0 ELSE (n % Ratio) + 1
      /\ n % Ratio <= n
  <2>1. /\ n % Ratio \in 0..(Ratio - 1) /\ n \div Ratio \in Nat
        /\ Ratio * (n \div Ratio) = n - (n % Ratio)
    BY <1>1, Remainder
  <2>2. Ratio * (n \div Ratio) >= 0
    BY <1>1, <2>1
  <2>3. (n + 1) % Ratio = IF n % Ratio = Ratio - 1 THEN 0 ELSE (n % Ratio) + 1
    BY <1>1, NextRemainder
  <2> DEFINE p == Ratio * (n \div Ratio)
             a == n % Ratio
  <2>4. a \in 0..(Ratio - 1) /\ p = n - a /\ p >= 0
    BY <2>1, <2>2
  <2> HIDE DEF p, a
  <2>5. a <= n
    BY <1>1, <2>4
  <2> QED
    BY <2>1, <2>3, <2>5 DEF a
<1>8. h4' = IF (n + 1) % Ratio # 0 THEN h4 ELSE Append(h4, whole)
  <2>1. h4' = IF Len(m15') % Ratio # 0 THEN h4
              ELSE Append(h4, Aggregate(From(m15', Len(m15') - Ratio + 1)))
    BY DEF CloseM15
  <2>2. Len(new) = n + 1 /\ Len(new) - Ratio + 1 = n + 2 - Ratio
    BY <1>1, <1>4
  <2> QED
    BY <1>3, <2>1, <2>2
<1>9. h4[Len(h4)].close_time = n - (n % Ratio)
  BY DEF MarketInv
<1> DEFINE a == n % Ratio
           b == (n + 1) % Ratio
<1>10. CASE b # 0
  <2>1. h4' = h4
    BY <1>8, <1>10
  <2>2. n - a = (n + 1) - b
    BY <1>1, <1>7, <1>10
  <2>3. h4[Len(h4)].close_time = Len(new) - (Len(new) % Ratio)
    BY <1>4, <1>9, <2>2
  <2>4. /\ Chronicle(h4) /\ h4 # <<>>
        /\ \A i \in 1..Len(h4) : h4[i].close_time = h4[i].open_time + Ratio
    BY DEF MarketInv
  <2> QED
    BY <1>3, <1>4, <1>5, <2>1, <2>3, <2>4 DEF MarketInv
<1>11. CASE b = 0
  <2>1. a = Ratio - 1 /\ Ratio <= n + 1
    BY <1>1, <1>7, <1>11
  <2> DEFINE from == n + 2 - Ratio
  <2>2. from \in 1..Len(new) /\ from = n + 2 - Ratio
    BY <1>1, <1>4, <2>1
  <2> HIDE DEF from
  <2>3. part = From(new, from)
    BY <2>2
  <2> HIDE DEF part
  <2>4. Chronicle(part)
    BY <1>6, <2>2, <2>3, SlicesAreChronicles
  <2>5. /\ Len(part) = Len(new) - from + 1
        /\ \A i \in 1..Len(part) : part[i] = new[from + i - 1]
    BY <1>4, <2>2, <2>3, Slices
  <2>6. Len(part) = Ratio
    BY <1>1, <1>4, <2>2, <2>5
  <2>7. part # <<>> /\ part[1] = new[from]
    BY <1>1, <2>2, <2>5, <2>6
  <2>8. part[1].open_time = n + 1 - Ratio
    BY <1>1, <1>5, <2>2, <2>7
  <2>9. /\ whole \in Ohlcv /\ IsCandle(whole)
        /\ whole.open_time = n + 1 - Ratio /\ whole.close_time = n + 1
    <3>1. /\ whole \in Ohlcv /\ IsCandle(whole)
          /\ whole.open_time = part[1].open_time
          /\ whole.close_time = part[1].open_time + Ratio
      BY <2>4, <2>7, AggregateIsCandle
    <3> HIDE DEF whole
    <3>2. n + 1 - Ratio + Ratio = n + 1
      BY <1>1
    <3> QED
      BY <2>8, <3>1, <3>2
  <2> HIDE DEF whole
  <2>10. \A i \in 1..Len(h4) : h4[i].open_time < whole.open_time
    <3> TAKE i \in 1..Len(h4)
    <3>1. /\ h4[i].open_time \in Int /\ h4[i].close_time = h4[i].open_time + Ratio
          /\ h4[i].close_time <= n - a
      BY ClosedBefore
    <3> QED
      BY <1>1, <2>1, <2>9, <3>1
  <2> DEFINE more == Append(h4, whole)
  <2>11. Chronicle(h4) /\ h4 \in Seq(Ohlcv) /\ Len(h4) \in Nat
    BY DEF MarketInv, Chronicle
  <2>12. Chronicle(more)
    BY <2>9, <2>10, <2>11, AppendChronicle
  <2>13. /\ Len(more) = Len(h4) + 1 /\ more[Len(more)] = whole /\ more # <<>>
         /\ \A i \in 1..Len(h4) : more[i] = h4[i]
    BY <2>9, <2>11
  <2>14. h4' = more
    BY <1>8, <1>11
  <2> HIDE DEF more
  <2>15. \A i \in 1..Len(more) : more[i].close_time = more[i].open_time + Ratio
    <3> TAKE i \in 1..Len(more)
    <3>1. CASE i \in 1..Len(h4)
      BY <2>13, <3>1 DEF MarketInv
    <3>2. CASE i = Len(more)
      BY <1>1, <2>9, <2>13, <3>2
    <3> QED
      BY <2>11, <2>13, <3>1, <3>2
  <2>16. more[Len(more)].close_time = Len(new) - (Len(new) % Ratio)
    BY <1>1, <1>4, <1>11, <2>9, <2>13
  <2> QED
    BY <1>3, <1>4, <1>5, <2>12, <2>13, <2>14, <2>15, <2>16 DEF MarketInv
<1> QED
  BY <1>10, <1>11
----------------------------------------------------------------------------
(* The batches of the two jobs.                                              *)

\* The H4 rows of an answer are a chronicle.  All but the open candle, which
\* closes after the answer, are candles of the market.
LEMMA H4RowsChronicle ==
    ASSUME MarketInv, NEW n \in 0..Len(m15)
    PROVE  LET rows == H4Rows(n)
           IN /\ Chronicle(rows)
              /\ \A m \in 1..Len(rows) :
                   /\ rows[m].close_time = rows[m].open_time + Ratio
                   /\ rows[m].close_time <= n => rows[m] \in ToSet(h4)
<1> DEFINE late == Indices(h4, LAMBDA c : c.close_time <= n)
           closed == Kept(h4, late)
           q == n \div Ratio
           a == n % Ratio
           p == Ratio * q
           part == SubSeq(m15, p + 1, n)
           whole == Aggregate(part)
           all == IF part = <<>> THEN closed ELSE Append(closed, whole)
           good(c) == /\ c.close_time = c.open_time + Ratio
                      /\ c.close_time <= n => c \in ToSet(h4)
<1>1. /\ Len(m15) \in Nat /\ m15 \in Seq(Ohlcv) /\ Ratio \in Nat \ {0} /\ n \in Nat
      /\ n <= Len(m15) /\ H4Limit \in Nat \ {0}
  BY EvidenceAssumption DEF MarketInv
<1>2. Chronicle(h4) /\ h4 \in Seq(Ohlcv) /\ ToSet(h4) = {h4[i] : i \in 1..Len(h4)}
  BY DEF MarketInv, Chronicle, ToSet
<1>3. q \in Nat /\ a \in 0..(Ratio - 1) /\ p = n - a
  BY <1>1, Remainder
<1>4. p \in Nat
  BY <1>1, <1>3
<1>5. H4Rows(n) = LastRows(all, H4Limit)
  BY DEF H4Rows
<1>6. late = {i \in 1..Len(h4) : h4[i].close_time <= n}
  BY <1>2 DEF Indices
<1> HIDE DEF late, q, a, p
<1>7. /\ Chronicle(closed)
      /\ \A m \in 1..Len(closed) :
           \E i \in 1..Len(h4) : i \in late /\ closed[m] = h4[i]
  BY <1>2, KeptChronicle
<1> HIDE DEF closed
<1>8. \A m \in 1..Len(closed) : /\ closed[m] \in ToSet(h4)
                                /\ closed[m].open_time \in Int
                                /\ closed[m].close_time = closed[m].open_time + Ratio
                                /\ closed[m].close_time <= n
  <2> TAKE m \in 1..Len(closed)
  <2>1. PICK i \in 1..Len(h4) : i \in late /\ closed[m] = h4[i]
    BY <1>7
  <2>2. h4[i].open_time \in Int /\ h4[i].close_time = h4[i].open_time + Ratio
    BY ClosedBefore
  <2> QED
    BY <1>2, <1>6, <2>1, <2>2
<1>9. CASE part = <<>>
  <2>1. all = closed
    BY <1>9
  <2> HIDE DEF all
  <2>2. LET rows == LastRows(closed, H4Limit)
        IN /\ Chronicle(rows)
           /\ \A m \in 1..Len(rows) : \E i \in 1..Len(closed) : rows[m] = closed[i]
    BY <1>1, <1>7, LastRowsChronicle
  <2> QED
    BY <1>5, <1>8, <2>1, <2>2
<1>10. CASE part # <<>>
  <2>1. all = Append(closed, whole)
    BY <1>10
  <2> HIDE DEF all
  <2>2. p + 1 <= n /\ p + 1 \in 1..Len(m15)
    BY <1>1, <1>4, <1>10
  <2>3. /\ part \in Seq(Ohlcv) /\ Len(part) = n - p
        /\ \A i \in 1..Len(part) : part[i] = m15[p + i]
    BY <1>1, <1>4, <2>2
  <2> HIDE DEF part
  <2>4. \A i \in 1..Len(part) : p + i \in 1..Len(m15)
    BY <1>1, <1>4, <2>2, <2>3
  <2>5. \A i \in 1..Len(part) : IsCandle(part[i]) /\ part[i].open_time = p + i - 1
    <3> TAKE i \in 1..Len(part)
    <3> DEFINE k == p + i
    <3>1. k \in 1..Len(m15) /\ part[i] = m15[k]
      BY <2>3, <2>4
    <3> HIDE DEF k
    <3>2. IsCandle(m15[k]) /\ m15[k].open_time = k - 1
      BY <3>1 DEF MarketInv
    <3> QED
      BY <1>4, <3>1, <3>2 DEF k
  <2>6. Chronicle(part)
    <3>1. ASSUME NEW i \in 1..Len(part), NEW k \in 1..Len(part), i < k
          PROVE  part[i].open_time < part[k].open_time
      <4>1. part[i].open_time = p + i - 1 /\ part[k].open_time = p + k - 1
        BY <2>5
      <4>2. p \in Int /\ i \in Int /\ k \in Int
        BY <1>4
      <4> HIDE DEF p
      <4> QED
        BY <3>1, <4>1, <4>2
    <3> QED
      BY <2>3, <2>5, <3>1 DEF Chronicle
  <2>7. part[1].open_time = p
    BY <1>1, <1>4, <2>2, <2>3, <2>5
  <2>8. /\ whole \in Ohlcv /\ IsCandle(whole)
        /\ whole.open_time = p /\ whole.close_time = p + Ratio
    BY <1>10, <2>6, <2>7, AggregateIsCandle
  <2> HIDE DEF whole
  <2>9. \A i \in 1..Len(closed) : closed[i].open_time < whole.open_time
    BY <1>1, <1>3, <1>4, <1>8, <2>8
  <2>10. Chronicle(all)
    BY <1>7, <2>1, <2>8, <2>9, AppendChronicle
  <2>11. closed \in Seq(Ohlcv) /\ Len(closed) \in Nat
    BY <1>7 DEF Chronicle
  <2>12. \A i \in 1..Len(all) : good(all[i])
    <3> TAKE i \in 1..Len(all)
    <3>1. (i \in 1..Len(closed) /\ all[i] = closed[i]) \/ all[i] = whole
      BY <2>1, <2>11
    <3>2. good(whole)
      <4>1. ~(whole.close_time <= n)
        BY <1>1, <1>3, <1>4, <2>8
      <4> QED
        BY <2>8, <4>1
    <3> QED
      BY <1>8, <3>1, <3>2
  <2>13. LET rows == LastRows(all, H4Limit)
         IN /\ Chronicle(rows)
            /\ \A m \in 1..Len(rows) : \E i \in 1..Len(all) : rows[m] = all[i]
    BY <1>1, <2>10, LastRowsChronicle
  <2> QED
    BY <1>5, <2>12, <2>13
<1> QED
  BY <1>9, <1>10

\* The batch of an H4 run: in order, and of candles of the market unless the
\* clock is read after the answer.
LEMMA H4Batch ==
    ASSUME MarketInv, NEW n \in 0..Len(m15), NEW fetched_at \in Int
    PROVE  LET batch == FetchBatch(H4Rows(n), fetched_at)
           IN /\ Chronicle(batch)
              /\ \A m \in 1..Len(batch) :
                   /\ batch[m].close_time = batch[m].open_time + Ratio
                   /\ fetched_at = n => batch[m] \in ToSet(h4)
<1> DEFINE rows == H4Rows(n)
<1>1. /\ Chronicle(rows)
      /\ \A m \in 1..Len(rows) :
           /\ rows[m].close_time = rows[m].open_time + Ratio
           /\ rows[m].close_time <= n => rows[m] \in ToSet(h4)
  BY H4RowsChronicle
<1> HIDE DEF rows
<1>2. LET batch == FetchBatch(rows, fetched_at)
      IN /\ Chronicle(batch)
         /\ \A m \in 1..Len(batch) :
              \E i \in 1..Len(rows) : /\ batch[m] = rows[i]
                                      /\ rows[i].close_time <= fetched_at
  BY <1>1, FetchedChronicle
<1> QED
  BY <1>1, <1>2 DEF rows

\* The batch of an M15 run is of candles of the market, in order.
LEMMA M15Batch ==
    ASSUME MarketInv, NEW n \in 0..Len(m15)
    PROVE  LET batch == FetchBatch(M15Rows(n), n)
           IN /\ Chronicle(batch)
              /\ \A m \in 1..Len(batch) :
                   /\ batch[m].close_time <= batch[m].open_time + Ratio
                   /\ batch[m] \in ToSet(m15)
<1> DEFINE taken == Take(m15, n)
           rows == M15Rows(n)
<1>1. /\ Len(m15) \in Nat /\ m15 \in Seq(Ohlcv) /\ Ratio \in Nat \ {0} /\ n \in Nat
      /\ M15Limit \in Nat \ {0}
  <2>1. Len(m15) \in Nat /\ m15 \in Seq(Ohlcv) /\ n \in Nat
    BY DEF MarketInv
  <2>2. Ratio \in Nat \ {0} /\ M15Limit \in Nat \ {0}
    BY EvidenceAssumption
  <2> QED
    BY <2>1, <2>2
<1>2. Chronicle(taken)
  BY <1>1, M15Chronicle, SlicesAreChronicles
<1>3. /\ Len(taken) = IF Len(m15) < n THEN Len(m15) ELSE n
      /\ \A i \in 1..Len(taken) : taken[i] = m15[i]
  BY <1>1, Slices
<1>4. rows = LastRows(taken, M15Limit)
  BY DEF M15Rows
<1> HIDE DEF taken, rows
<1>5. \A i \in 1..Len(taken) : /\ taken[i] \in ToSet(m15)
                               /\ taken[i].close_time <= taken[i].open_time + Ratio
  <2> TAKE i \in 1..Len(taken)
  <2>1. i \in 1..Len(m15) /\ taken[i] = m15[i]
    BY <1>1, <1>3
  <2>2. m15[i].open_time = i - 1 /\ m15[i].close_time = i
    BY <2>1 DEF MarketInv
  <2>3. m15[i] \in ToSet(m15)
    BY <1>1, <2>1 DEF ToSet
  <2> QED
    BY <1>1, <2>1, <2>2, <2>3
<1>6. /\ Chronicle(rows)
      /\ \A m \in 1..Len(rows) : \E i \in 1..Len(taken) : rows[m] = taken[i]
  BY <1>1, <1>2, <1>4, LastRowsChronicle
<1>7. LET batch == FetchBatch(rows, n)
      IN /\ Chronicle(batch)
         /\ \A m \in 1..Len(batch) : \E i \in 1..Len(rows) : batch[m] = rows[i]
  BY <1>6, FetchedChronicle
<1> QED
  BY <1>5, <1>6, <1>7 DEF rows
----------------------------------------------------------------------------
(* The tables.                                                               *)

\* e is an event of the candle c.
EventOf(e, c) ==
    /\ e.open_time = c.open_time /\ e.id[2] = c.open_time
    /\ e.observed_at = c.close_time /\ e.close = c.close

\* What an analysis finds are events of the candles of its batch.
LEMMA AnalysisOfBatch ==
    ASSUME NEW derived, NEW batch, Chronicle(batch), NEW e \in AnalysisEvents(derived, batch)
    PROVE  \E i \in 1..Len(batch) : EventOf(e, batch[i])
<1>1. PICK z \in DOMAIN derived : e \in ToSet(BuildStructureEvents(derived[z], batch))
  BY DEF AnalysisEvents
<1> DEFINE zone == derived[z]
<1>2. e \in ToSet(BuildStructureEvents(zone, batch)) /\ batch \in Seq(Ohlcv)
  BY <1>1 DEF Chronicle
<1> HIDE DEF zone
<1>3. PICK i \in 1..Len(batch), state \in EventStates : \E id :
        e = Event(zone, batch[i], state, id)
  BY <1>2, EventsOfCandles
<1>4. PICK id : e = Event(zone, batch[i], state, id)
  BY <1>3
<1>5. EventOf(e, batch[i])
  BY <1>4 DEF Event, EventId, EventOf
<1> QED
  BY <1>5

\* ohlcv_candles has one row per key, all of H4 candles, and keeps the candle of
\* every event.
TablesAgree(stored, found) ==
    /\ stored \subseteq Ohlcv /\ IsFiniteSet(stored)
    /\ \A c \in stored : c.close_time = c.open_time + Ratio
    /\ \A c, d \in stored : c.open_time = d.open_time => c = d
    /\ \A e \in found : /\ e.id[2] = e.open_time
                        /\ e.observed_at = e.open_time + Ratio
                        /\ \E c \in stored : c.open_time = e.open_time

TableInv == MarketInv /\ TablesAgree(candles, events)

\* What an H4 run may make of its batch.
H4Candles(batch) ==
    /\ Chronicle(batch)
    /\ \A m \in 1..Len(batch) : batch[m].close_time = batch[m].open_time + Ratio

\* A batch and its analysis agree.
LEMMA BatchAgrees ==
    ASSUME NEW batch, H4Candles(batch), NEW derived
    PROVE  TablesAgree(ToSet(batch), AnalysisEvents(derived, batch))
<1>1. batch \in Seq(Ohlcv) /\ Chronicle(batch) /\ Len(batch) \in Nat
  BY DEF H4Candles, Chronicle
<1>2. ToSet(batch) = {batch[i] : i \in 1..Len(batch)}
  BY <1>1 DEF ToSet
<1>3. ToSet(batch) \subseteq Ohlcv
  BY <1>1, <1>2
<1>4. IsFiniteSet(ToSet(batch))
  <2>1. IsFiniteSet(1..Len(batch))
    BY <1>1, FS_Interval
  <2>2. batch \in Surjection(1..Len(batch), ToSet(batch))
    BY <1>1, <1>2 DEF Surjection
  <2> QED
    BY <2>1, <2>2, FS_Surjection
<1>5. \A c \in ToSet(batch) : c.close_time = c.open_time + Ratio
  BY <1>2 DEF H4Candles
<1>6. \A c, d \in ToSet(batch) : c.open_time = d.open_time => c = d
  <2> SUFFICES ASSUME NEW i \in 1..Len(batch), NEW k \in 1..Len(batch),
                      batch[i].open_time = batch[k].open_time
               PROVE  i = k
    BY <1>2
  <2>1. batch[i].open_time \in Int /\ batch[k].open_time \in Int
    BY <1>1, CandleFields
  <2>2. ~(i < k) /\ ~(k < i)
    BY <1>1, <2>1 DEF Chronicle
  <2> QED
    BY <2>2
<1>7. ASSUME NEW e \in AnalysisEvents(derived, batch)
      PROVE  /\ e.id[2] = e.open_time
             /\ e.observed_at = e.open_time + Ratio
             /\ \E c \in ToSet(batch) : c.open_time = e.open_time
  <2>1. PICK i \in 1..Len(batch) : EventOf(e, batch[i])
    BY <1>1, <1>7, AnalysisOfBatch
  <2>2. batch[i] \in ToSet(batch) /\ batch[i].close_time = batch[i].open_time + Ratio
    BY <1>2, <1>5
  <2> QED
    BY <2>1, <2>2 DEF EventOf
<1> QED
  BY <1>3, <1>4, <1>5, <1>6, <1>7 DEF TablesAgree

\* Upserting a batch and its analysis keeps the tables in agreement: a candle
\* that is replaced has a successor of the same key.
LEMMA UpsertAgrees ==
    ASSUME TablesAgree(candles, events), NEW batch, H4Candles(batch), NEW derived
    PROVE  TablesAgree(UpsertCandles(batch),
                       UpsertRows(events, AnalysisEvents(derived, batch)))
<1> DEFINE found == AnalysisEvents(derived, batch)
           rows == ToSet(batch)
           keys == {batch[i].open_time : i \in DOMAIN batch}
           old == {c \in candles : c.open_time \notin keys}
           ids == {r.id : r \in found}
           past == {r \in events : r.id \notin ids}
<1>1. TablesAgree(rows, found)
  BY BatchAgrees
<1>2. UpsertCandles(batch) = old \cup rows
  BY DEF UpsertCandles
<1>3. UpsertRows(events, found) = past \cup found
  BY DEF UpsertRows
<1>4. keys = {c.open_time : c \in rows}
  BY DEF ToSet
<1> HIDE DEF found, rows, keys
<1>5. old \subseteq candles /\ \A c \in old, d \in rows : c.open_time # d.open_time
  BY <1>4
<1>6. \A c \in candles : c \in old \/ \E d \in rows : d.open_time = c.open_time
  BY <1>4
<1> HIDE DEF old
<1>7. past \subseteq events
  OBVIOUS
<1> HIDE DEF past
<1> DEFINE new == old \cup rows
<1>8. new \subseteq Ohlcv
  BY <1>1, <1>5 DEF TablesAgree
<1>9. IsFiniteSet(new)
  <2>1. IsFiniteSet(candles) /\ IsFiniteSet(rows)
    BY <1>1 DEF TablesAgree
  <2>2. IsFiniteSet(old)
    BY <1>5, <2>1, FS_Subset
  <2> QED
    BY <2>1, <2>2, FS_Union
<1>10. \A c \in new : c.close_time = c.open_time + Ratio
  BY <1>1, <1>5 DEF TablesAgree
<1>11. \A c, d \in new : c.open_time = d.open_time => c = d
  BY <1>1, <1>5 DEF TablesAgree
<1>12. ASSUME NEW e \in past \cup found
       PROVE  /\ e.id[2] = e.open_time
              /\ e.observed_at = e.open_time + Ratio
              /\ \E c \in new : c.open_time = e.open_time
  <2>1. CASE e \in found
    BY <1>1, <2>1 DEF TablesAgree
  <2>2. CASE e \in past
    <3>1. /\ e.id[2] = e.open_time /\ e.observed_at = e.open_time + Ratio
          /\ \E c \in candles : c.open_time = e.open_time
      BY <1>7, <2>2 DEF TablesAgree
    <3> QED
      BY <1>6, <3>1
  <2> QED
    BY <1>12, <2>1, <2>2
<1>13. TablesAgree(new, past \cup found)
  BY <1>8, <1>9, <1>10, <1>11, <1>12 DEF TablesAgree
<1> QED
  BY <1>2, <1>3, <1>13 DEF found

\* The batch of a run of the H4 job, at whatever time its clock is read.
LEMMA H4RunBatch ==
    ASSUME MarketInv, NEW n \in 0..Len(m15), NEW fetched_at \in Int
    PROVE  H4Candles(FetchBatch(H4Rows(n), fetched_at))
BY H4Batch DEF H4Candles

\* The first run of the H4 job.
LEMMA TableBegins ==
    ASSUME Init
    PROVE  TableInv
<1>1. MarketInv
  BY MarketBegins
<1> DEFINE batch == FetchBatch(H4Rows(0), 0)
           derived == DeriveSupportZones(batch)
<1>2. 0 \in 0..Len(m15) /\ 0 \in Int
  BY DEF Init
<1>3. H4Candles(batch)
  BY <1>1, <1>2, H4RunBatch
<1>4. candles = ToSet(batch) /\ events = AnalysisEvents(derived, batch)
  BY DEF Init
<1> HIDE DEF batch, derived
<1> QED
  BY <1>1, <1>3, <1>4, BatchAgrees DEF TableInv

\* TableInv, for every delay of the clock.
THEOREM TableCorrect == Spec => []TableInv
<1>1. Init => TableInv
  BY TableBegins
<1>2. TableInv /\ [Next]_vars => TableInv'
  <2> SUFFICES ASSUME TableInv, [Next]_vars PROVE TableInv'
    OBVIOUS
  <2>1. ASSUME NEW price \in Prices, CloseM15(price) PROVE TableInv'
    <3>1. MarketInv'
      BY <2>1, MarketStep DEF TableInv
    <3>2. candles' = candles /\ events' = events
      BY <2>1 DEF CloseM15, tables
    <3> QED
      BY <3>1, <3>2 DEF TableInv
  <2>2. ASSUME NEW n \in Answered, NEW delay \in 0..MaxDelay, RunH4(n, delay)
        PROVE  TableInv'
    <3> DEFINE batch == FetchBatch(H4Rows(n), n + delay)
               derived == DeriveSupportZones(batch)
    <3>1. n \in 0..Len(m15) /\ n + delay \in Int
      BY EvidenceAssumption DEF Answered
    <3>2. H4Candles(batch)
      BY <3>1, H4RunBatch DEF TableInv
    <3>3. /\ candles' = UpsertCandles(batch)
          /\ events' = UpsertRows(events, AnalysisEvents(derived, batch))
          /\ UNCHANGED market
      BY <2>2 DEF RunH4
    <3> HIDE DEF batch, derived
    <3>4. TablesAgree(candles', events')
      BY <3>2, <3>3, UpsertAgrees DEF TableInv
    <3>5. MarketInv'
      BY <3>3 DEF market, MarketInv, TableInv
    <3> QED
      BY <3>4, <3>5 DEF TableInv
  <2>3. ASSUME UNCHANGED market, UNCHANGED <<candles, events>> PROVE TableInv'
    BY <2>3 DEF market, MarketInv, TableInv
  <2>4. ASSUME NEW n \in Answered, RunM15(n) PROVE TableInv'
    BY <2>3, <2>4 DEF RunM15
  <2>5. CASE LoadHtf \/ ReadZone
    BY <2>3, <2>5 DEF LoadHtf, ReadZone, tables
  <2>6. CASE UNCHANGED vars
    BY <2>3, <2>6 DEF vars, tables
  <2> QED
    BY <2>1, <2>2, <2>4, <2>5, <2>6 DEF Next
<1> QED
  BY <1>1, <1>2, PTL DEF Spec

\* RecentBreakJudged: persist_reclaim_from_confirmation finds the candle of the
\* newest break in ohlcv_candles unless list_recent cuts it off, for every order
\* of runs, lag and delay.
THEOREM RecentBreakCorrect == Spec => []RecentBreakJudged
<1>1. TableInv => RecentBreakJudged
  <2> SUFFICES ASSUME TableInv, NEW e \in Newest(Confirmed(events)), BreakCandles(e) = {}
               PROVE  Cardinality({c \in candles : c.open_time > e.open_time}) >= CandleLookup
    BY DEF RecentBreakJudged
  <2>1. e \in events
    BY DEF Newest, Confirmed
  <2>2. PICK c \in candles : c.open_time = e.open_time
    BY <2>1 DEF TableInv, TablesAgree
  <2> DEFINE newer == {b \in candles : b.open_time > c.open_time}
  <2>3. IsFiniteSet(newer)
    <3>1. IsFiniteSet(candles)
      BY DEF TableInv, TablesAgree
    <3> QED
      BY <3>1, FS_Subset
  <2>4. Cardinality(newer) \in Nat
    BY <2>3, FS_CardinalityType
  <2>5. c \notin ListRecent(CandleLookup)
    BY <2>2 DEF BreakCandles
  <2>6. ~(Cardinality(newer) < CandleLookup)
    BY <2>5 DEF ListRecent
  <2>7. CandleLookup \in Nat
    BY EvidenceAssumption
  <2>8. newer = {b \in candles : b.open_time > e.open_time}
    BY <2>2
  <2> HIDE DEF newer
  <2> QED
    BY <2>4, <2>6, <2>7, <2>8
<1> QED
  BY <1>1, TableCorrect, PTL
----------------------------------------------------------------------------
(* The evidence of a request.                                                *)

\* The rejection follows the break, and the trigger, a candle of the market
\* that closed below the rejection's low, the rejection.
Grounded(a, market_candles) ==
    /\ a.break[2] < a.rejection /\ a.rejection < a.trigger
    /\ \E c \in market_candles : c.open_time = a.trigger /\ c.close < a.rejection_low

\* A qualified attempt rests on candles of its batch that came after the break.
LEMMA AttemptGrounded ==
    ASSUME NEW zone, NEW broken, broken.low \in Int, NEW interval, NEW batch, Chronicle(batch),
           NEW S, \A m \in 1..Len(batch) : /\ batch[m].close_time <= batch[m].open_time + Ratio
                                           /\ batch[m] \in S,
           NEW e, e.open_time \in Int, e.id[2] = e.open_time,
           e.observed_at = e.open_time + Ratio,
           NEW a, a = AttemptRow(e, AnalyzeReclaimAttempt(zone, e, broken, interval, batch)),
           a.readiness = "QUALIFIED"
    PROVE  Grounded(a, S)
<1> DEFINE cs == AfterBreak(e, batch)
           v == JudgeBreak(zone, e, broken, interval, cs)
<1>1. a = AttemptRow(e, v)
  BY DEF AnalyzeReclaimAttempt
<1>2. /\ Chronicle(cs)
      /\ \A m \in 1..Len(cs) :
           \E i \in 1..Len(batch) : cs[m] = batch[i] /\ batch[i].close_time > e.observed_at
  BY AfterBreakChronicle
<1> HIDE DEF cs
<1>3. v.readiness = "QUALIFIED" => Evidenced(v, cs)
  BY <1>2, QualifiedEvidenced
<1> HIDE DEF v
<1>4. /\ a.break = e.id /\ a.readiness = v.readiness /\ a.rejection = v.rejection
      /\ a.rejection_low = v.rejection_low /\ a.trigger = v.trigger
  BY <1>1 DEF AttemptRow
<1>5. PICK j, k \in 1..Len(cs) :
        /\ j < k /\ v.rejection = cs[j].open_time /\ v.trigger = cs[k].open_time
        /\ cs[k].close < v.rejection_low
  BY <1>3, <1>4 DEF Evidenced
<1>6. cs[j].open_time < cs[k].open_time
  BY <1>2, <1>5 DEF Chronicle
<1>7. PICK i \in 1..Len(batch) : cs[j] = batch[i] /\ batch[i].close_time > e.observed_at
  BY <1>2
<1>8. batch[i].open_time \in Int /\ batch[i].close_time \in Int
  BY CandleFields
<1>9. Ratio \in Int
  BY EvidenceAssumption
<1>10. e.open_time < cs[j].open_time
  BY <1>7, <1>8, <1>9
<1>11. cs[k] \in S
  BY <1>2
<1>12. a.break[2] < a.rejection
  BY <1>4, <1>5, <1>10
<1>13. a.rejection < a.trigger
  BY <1>4, <1>5, <1>6
<1>14. cs[k].open_time = a.trigger /\ cs[k].close < a.rejection_low
  BY <1>4, <1>5
<1> QED
  BY <1>11, <1>12, <1>13, <1>14 DEF Grounded

MarketCandles == ToSet(m15) \cup ToSet(h4)

\* Every event was one of a candle that the market closed, and every qualified
\* attempt is grounded.
EvidenceInv ==
    /\ TableInv
    /\ EventsFromClosedCandles
    /\ \A a \in attempts : a.readiness = "QUALIFIED" => Grounded(a, MarketCandles)

\* The market only adds candles.
LEMMA MarketGrows ==
    ASSUME TableInv, NEW price \in Prices, CloseM15(price)
    PROVE  ToSet(m15) \subseteq ToSet(m15') /\ ToSet(h4) \subseteq ToSet(h4')
<1>1. m15 \in Seq(Ohlcv) /\ h4 \in Seq(Ohlcv)
  BY DEF TableInv, MarketInv, Chronicle
<1>2. ASSUME NEW s \in Seq(Ohlcv), NEW c PROVE ToSet(s) \subseteq ToSet(Append(s, c))
  <2>1. /\ DOMAIN s = 1..Len(s) /\ Len(s) \in Nat /\ DOMAIN Append(s, c) = 1..(Len(s) + 1)
        /\ \A i \in 1..Len(s) : Append(s, c)[i] = s[i]
    BY <1>2
  <2> QED
    BY <2>1 DEF ToSet
<1>3. \E c : m15' = Append(m15, c)
  BY DEF CloseM15
<1>4. h4' = h4 \/ \E c : h4' = Append(h4, c)
  BY DEF CloseM15
<1> QED
  BY <1>1, <1>2, <1>3, <1>4

\* The attempts after the upsert of one that is grounded if it is qualified.
LEMMA RecordedGrounded ==
    ASSUME NEW S, NEW table, \A a \in table : a.readiness = "QUALIFIED" => Grounded(a, S),
           NEW zone, NEW broken, broken.low \in Int, NEW interval, NEW batch, Chronicle(batch),
           \A m \in 1..Len(batch) : /\ batch[m].close_time <= batch[m].open_time + Ratio
                                    /\ batch[m] \in S,
           NEW e, e.open_time \in Int, e.id[2] = e.open_time,
           e.observed_at = e.open_time + Ratio,
           NEW new, new = WithAttempt(table, e, zone, broken, interval, batch)
    PROVE  \A a \in new : a.readiness = "QUALIFIED" => Grounded(a, S)
<1> DEFINE row == AttemptRow(e, AnalyzeReclaimAttempt(zone, e, broken, interval, batch))
<1>1. new = UpsertRows(table, {row})
  BY DEF WithAttempt
<1>2. row.readiness = "QUALIFIED" => Grounded(row, S)
  BY AttemptGrounded
<1> HIDE DEF row
<1>3. new \subseteq table \cup {row}
  BY <1>1 DEF UpsertRows
<1> QED
  BY <1>2, <1>3

\* The attempt of an H4 run's own break, made of closed candles.
LEMMA StructureGrounded ==
    ASSUME NEW S, NEW table, \A a \in table : a.readiness = "QUALIFIED" => Grounded(a, S),
           NEW batch, Chronicle(batch),
           \A m \in 1..Len(batch) : /\ batch[m].close_time = batch[m].open_time + Ratio
                                    /\ batch[m] \in S,
           NEW new,
           new \in WithStructureAttempt(table, batch, DeriveSupportZones(batch),
                                        AnalysisEvents(DeriveSupportZones(batch), batch))
    PROVE  \A a \in new : a.readiness = "QUALIFIED" => Grounded(a, S)
<1> DEFINE derived == DeriveSupportZones(batch)
           found == AnalysisEvents(derived, batch)
           breaks == Newest(Confirmed(found))
<1>1. ASSUME NEW e \in found
      PROVE  \E m \in 1..Len(batch) : EventOf(e, batch[m])
  BY <1>1, AnalysisOfBatch
<1>2. breaks \subseteq found
  BY DEF Newest, Confirmed
<1>3. \/ new = table
      \/ \E e \in breaks :
           new = WithAttempt(table, e, CHOOSE z \in ToSet(derived) : z.id = e.zone,
                             CHOOSE c \in ToSet(batch) : c.open_time = e.open_time, "H4", batch)
  <2> HIDE DEF derived, found
  <2>1. new \in WithStructureAttempt(table, batch, derived, found)
    BY DEF derived, found
  <2> QED
    BY <2>1 DEF WithStructureAttempt
<1> HIDE DEF derived, found, breaks
<1>4. CASE new = table
  BY <1>4
<1>5. ASSUME NEW e \in breaks,
             new = WithAttempt(table, e, CHOOSE z \in ToSet(derived) : z.id = e.zone,
                               CHOOSE c \in ToSet(batch) : c.open_time = e.open_time, "H4", batch)
      PROVE  \A a \in new : a.readiness = "QUALIFIED" => Grounded(a, S)
  <2> DEFINE zone == CHOOSE z \in ToSet(derived) : z.id = e.zone
             broken == CHOOSE c \in ToSet(batch) : c.open_time = e.open_time
  <2>1. new = WithAttempt(table, e, zone, broken, "H4", batch)
    BY <1>5
  <2>2. PICK m \in 1..Len(batch) : EventOf(e, batch[m])
    BY <1>1, <1>2
  <2>3. batch \in Seq(Ohlcv) /\ ToSet(batch) = {batch[i] : i \in 1..Len(batch)}
    BY DEF Chronicle, ToSet
  <2>4. broken \in ToSet(batch)
    <3>1. batch[m] \in ToSet(batch) /\ batch[m].open_time = e.open_time
      BY <2>2, <2>3 DEF EventOf
    <3> QED
      BY <3>1
  <2> HIDE DEF zone, broken
  <2>5. broken.low \in Int
    BY <2>3, <2>4, CandleFields
  <2>6. batch[m].open_time \in Int /\ batch[m].close_time = batch[m].open_time + Ratio
    BY CandleFields
  <2>7. e.open_time \in Int /\ e.id[2] = e.open_time /\ e.observed_at = e.open_time + Ratio
    BY <2>2, <2>6 DEF EventOf
  <2>8. \A i \in 1..Len(batch) : /\ batch[i].close_time <= batch[i].open_time + Ratio
                                 /\ batch[i] \in S
    <3> TAKE i \in 1..Len(batch)
    <3>1. batch[i].open_time \in Int /\ batch[i].close_time \in Int
      BY CandleFields
    <3> QED
      BY <3>1
  <2> QED
    BY <2>1, <2>5, <2>7, <2>8, RecordedGrounded
<1> QED
  BY <1>3, <1>4, <1>5

\* A run of the H4 job whose clock is read with the answer.
LEMMA H4RunEvidence ==
    ASSUME EvidenceInv, NEW n \in 0..Len(m15), RunH4(n, 0)
    PROVE  /\ \A e \in events' : \E c \in ToSet(h4) :
                c.open_time = e.open_time /\ c.close = e.close
           /\ \A a \in attempts' : a.readiness = "QUALIFIED" => Grounded(a, MarketCandles)
<1> DEFINE batch == FetchBatch(H4Rows(n), n + 0)
           derived == DeriveSupportZones(batch)
           found == AnalysisEvents(derived, batch)
<1>1. n \in Int /\ n + 0 \in Int /\ n + 0 = n
  BY DEF EvidenceInv, TableInv, MarketInv
<1>2. MarketInv
  BY DEF EvidenceInv, TableInv
<1>3. /\ Chronicle(batch)
      /\ \A m \in 1..Len(batch) :
           /\ batch[m].close_time = batch[m].open_time + Ratio
           /\ batch[m] \in ToSet(h4)
  BY <1>1, <1>2, H4Batch
<1>4. /\ events' = UpsertRows(events, found)
      /\ attempts' \in WithStructureAttempt(attempts, batch, derived, found)
  BY DEF RunH4
<1> HIDE DEF batch
<1>5. ASSUME NEW e \in found
      PROVE  \E m \in 1..Len(batch) : EventOf(e, batch[m])
  BY <1>3, <1>5, AnalysisOfBatch
<1>6. ASSUME NEW e \in events'
      PROVE  \E c \in ToSet(h4) : c.open_time = e.open_time /\ c.close = e.close
  <2> HIDE DEF found
  <2>1. e \in events \/ e \in found
    BY <1>4, <1>6 DEF UpsertRows
  <2>2. CASE e \in events
    BY <2>2 DEF EvidenceInv, EventsFromClosedCandles
  <2>3. CASE e \in found
    <3>1. PICK m \in 1..Len(batch) : EventOf(e, batch[m])
      BY <1>5, <2>3
    <3> QED
      BY <1>3, <3>1 DEF EventOf
  <2> QED
    BY <2>1, <2>2, <2>3
<1>7. \A a \in attempts : a.readiness = "QUALIFIED" => Grounded(a, MarketCandles)
  BY DEF EvidenceInv
<1>8. \A m \in 1..Len(batch) : /\ batch[m].close_time = batch[m].open_time + Ratio
                               /\ batch[m] \in MarketCandles
  BY <1>3 DEF MarketCandles
<1>9. \A a \in attempts' : a.readiness = "QUALIFIED" => Grounded(a, MarketCandles)
  BY <1>3, <1>4, <1>7, <1>8, StructureGrounded
<1> QED
  BY <1>6, <1>9

\* A run of the M15 job.
LEMMA M15RunEvidence ==
    ASSUME EvidenceInv, NEW n \in 0..Len(m15), RunM15(n)
    PROVE  \A a \in attempts' : a.readiness = "QUALIFIED" => Grounded(a, MarketCandles)
<1> DEFINE batch == FetchBatch(M15Rows(n), n)
<1>1. MarketInv
  BY DEF EvidenceInv, TableInv
<1>2. /\ Chronicle(batch)
      /\ \A m \in 1..Len(batch) : /\ batch[m].close_time <= batch[m].open_time + Ratio
                                  /\ batch[m] \in ToSet(m15)
  BY <1>1, M15Batch
<1>3. \A a \in attempts : a.readiness = "QUALIFIED" => Grounded(a, MarketCandles)
  BY DEF EvidenceInv
<1>4. \/ UNCHANGED attempts
      \/ \E e \in Newest(Confirmed(events)) : \E broken \in BreakCandles(e) :
           LET zone == CHOOSE z \in zones : z.id = e.zone
           IN attempts' = WithAttempt(attempts, e, zone, broken, "M15", batch)
  BY DEF RunM15
<1> HIDE DEF batch
<1>5. CASE UNCHANGED attempts
  BY <1>3, <1>5
<1>6. CASE ~UNCHANGED attempts
  <2>0. PICK e \in Newest(Confirmed(events)) : \E broken \in BreakCandles(e) :
          LET zone == CHOOSE z \in zones : z.id = e.zone
          IN attempts' = WithAttempt(attempts, e, zone, broken, "M15", batch)
    BY <1>4, <1>6
  <2>1. PICK broken \in BreakCandles(e) :
          LET zone == CHOOSE z \in zones : z.id = e.zone
          IN attempts' = WithAttempt(attempts, e, zone, broken, "M15", batch)
    BY <2>0
  <2> DEFINE zone == CHOOSE z \in zones : z.id = e.zone
  <2>2. attempts' = WithAttempt(attempts, e, zone, broken, "M15", batch)
    BY <2>1
  <2> HIDE DEF zone
  <2>3. e \in events /\ broken \in candles /\ broken.open_time = e.open_time
    BY DEF Newest, Confirmed, BreakCandles, ListRecent
  <2>4. broken.low \in Int /\ broken.open_time \in Int
    BY <2>3 DEF EvidenceInv, TableInv, TablesAgree, Ohlcv
  <2>5. e.open_time \in Int /\ e.id[2] = e.open_time /\ e.observed_at = e.open_time + Ratio
    BY <2>3, <2>4 DEF EvidenceInv, TableInv, TablesAgree
  <2>6. \A m \in 1..Len(batch) : /\ batch[m].close_time <= batch[m].open_time + Ratio
                                 /\ batch[m] \in MarketCandles
    BY <1>2 DEF MarketCandles
  <2> QED
    BY <1>2, <1>3, <2>2, <2>4, <2>5, <2>6, RecordedGrounded
<1> QED
  BY <1>5, <1>6

\* EvidenceInv, where the adapter reads the clock before another candle closes.
THEOREM EvidenceCorrect ==
    ASSUME MaxDelay = 0
    PROVE  Spec => []EvidenceInv
<1>1. Init => EvidenceInv
  <2> SUFFICES ASSUME Init, TableInv PROVE EvidenceInv
    BY TableBegins
  <2> DEFINE batch == FetchBatch(H4Rows(0), 0)
             derived == DeriveSupportZones(batch)
  <2>1. 0 \in 0..Len(m15) /\ 0 \in Int /\ MarketInv
    BY DEF Init, TableInv
  <2>2. /\ Chronicle(batch)
        /\ \A m \in 1..Len(batch) : /\ batch[m].close_time = batch[m].open_time + Ratio
                                     /\ batch[m] \in ToSet(h4)
    BY <2>1, H4Batch
  <2>3. /\ events = AnalysisEvents(derived, batch)
        /\ attempts \in WithStructureAttempt({}, batch, derived, events)
    BY DEF Init
  <2> HIDE DEF batch, derived
  <2>4. EventsFromClosedCandles
    <3> SUFFICES ASSUME NEW e \in events
                 PROVE  \E c \in ToSet(h4) : c.open_time = e.open_time /\ c.close = e.close
      BY DEF EventsFromClosedCandles
    <3>1. PICK i \in 1..Len(batch) : EventOf(e, batch[i])
      BY <2>2, <2>3, AnalysisOfBatch
    <3> QED
      BY <2>2, <3>1 DEF EventOf
  <2>5. \A a \in attempts : a.readiness = "QUALIFIED" => Grounded(a, MarketCandles)
    <3>1. \A m \in 1..Len(batch) : /\ batch[m].close_time = batch[m].open_time + Ratio
                                   /\ batch[m] \in MarketCandles
      BY <2>2 DEF MarketCandles
    <3>2. \A a \in {} : a.readiness = "QUALIFIED" => Grounded(a, MarketCandles)
      OBVIOUS
    <3>3. attempts \in WithStructureAttempt({}, batch, DeriveSupportZones(batch),
                                            AnalysisEvents(DeriveSupportZones(batch), batch))
      BY <2>3 DEF derived
    <3> QED
      BY <2>2, <3>1, <3>2, <3>3, StructureGrounded
  <2> QED
    BY <2>4, <2>5 DEF EvidenceInv
<1>2. EvidenceInv /\ TableInv' /\ [Next]_vars => EvidenceInv'
  <2> SUFFICES ASSUME EvidenceInv, TableInv', [Next]_vars PROVE EvidenceInv'
    OBVIOUS
  <2>1. ASSUME NEW price \in Prices, CloseM15(price) PROVE EvidenceInv'
    <3>1. ToSet(m15) \subseteq ToSet(m15') /\ ToSet(h4) \subseteq ToSet(h4')
      BY <2>1, MarketGrows DEF EvidenceInv
    <3>2. events' = events /\ attempts' = attempts
      BY <2>1 DEF CloseM15, tables
    <3>3. MarketCandles \subseteq MarketCandles'
      BY <3>1 DEF MarketCandles
    <3>4. EventsFromClosedCandles'
      BY <3>1, <3>2 DEF EvidenceInv, EventsFromClosedCandles
    <3>5. \A a \in attempts' : a.readiness = "QUALIFIED" => Grounded(a, MarketCandles')
      BY <3>2, <3>3 DEF EvidenceInv, Grounded
    <3> QED
      BY <3>4, <3>5 DEF EvidenceInv
  <2>2. ASSUME NEW n \in Answered, NEW delay \in 0..MaxDelay, RunH4(n, delay)
        PROVE  EvidenceInv'
    <3>1. n \in 0..Len(m15) /\ delay = 0
      BY DEF Answered
    <3>2. UNCHANGED market
      BY <2>2 DEF RunH4
    <3>3. /\ \A e \in events' : \E c \in ToSet(h4) :
               c.open_time = e.open_time /\ c.close = e.close
          /\ \A a \in attempts' : a.readiness = "QUALIFIED" => Grounded(a, MarketCandles)
      BY <2>2, <3>1, H4RunEvidence
    <3>4. h4' = h4 /\ MarketCandles' = MarketCandles
      BY <3>2 DEF market, MarketCandles
    <3> QED
      BY <3>3, <3>4 DEF EvidenceInv, EventsFromClosedCandles
  <2>3. ASSUME NEW n \in Answered, RunM15(n) PROVE EvidenceInv'
    <3>1. n \in 0..Len(m15)
      BY DEF Answered
    <3>2. UNCHANGED market /\ events' = events
      BY <2>3 DEF RunM15
    <3>3. \A a \in attempts' : a.readiness = "QUALIFIED" => Grounded(a, MarketCandles)
      BY <2>3, <3>1, M15RunEvidence
    <3>4. h4' = h4 /\ MarketCandles' = MarketCandles
      BY <3>2 DEF market, MarketCandles
    <3> QED
      BY <3>2, <3>3, <3>4 DEF EvidenceInv, EventsFromClosedCandles
  <2>4. ASSUME UNCHANGED market, UNCHANGED <<events, attempts>> PROVE EvidenceInv'
    BY <2>4 DEF market, MarketCandles, EvidenceInv, EventsFromClosedCandles
  <2>5. CASE LoadHtf \/ ReadZone
    BY <2>4, <2>5 DEF LoadHtf, ReadZone, tables
  <2>6. CASE UNCHANGED vars
    BY <2>4, <2>6 DEF vars, tables
  <2> QED
    BY <2>1, <2>2, <2>3, <2>5, <2>6 DEF Next
<1> QED
  BY <1>1, <1>2, TableCorrect, PTL DEF Spec

\* RequestEvidenced: what a signal is requested on happened in the market, in
\* order, where no candle closes between an answer and the clock reading.
THEOREM RequestCorrect ==
    ASSUME MaxDelay = 0
    PROVE  Spec => []RequestEvidenced
<1>1. EvidenceInv => RequestEvidenced
  <2> SUFFICES ASSUME EvidenceInv, NEW a \in BuildRequest
               PROVE  Grounded(a, MarketCandles)
    BY DEF RequestEvidenced, Grounded, MarketCandles
  <2>1. a \in attempts /\ a.readiness = "QUALIFIED"
    BY DEF BuildRequest, LatestAttempts, Newest
  <2> QED
    BY <2>1 DEF EvidenceInv
<1> QED
  BY <1>1, EvidenceCorrect, PTL

\* EventsFromClosedCandles, which a delayed reading of the clock breaks, holds
\* where there is none.
THEOREM ClosedCorrect ==
    ASSUME MaxDelay = 0
    PROVE  Spec => []EventsFromClosedCandles
<1>1. EvidenceInv => EventsFromClosedCandles
  BY DEF EvidenceInv
<1> QED
  BY <1>1, EvidenceCorrect, PTL
----------------------------------------------------------------------------
(* structure_events as the story of the closed candles.                      *)

\* The H4 candles that had closed when n M15 candles had.
ClosedOf(cs, n) == Kept(cs, Indices(cs, LAMBDA c : c.close_time <= n))
Closed(n) == ClosedOf(h4, n)

\* They are the first hi of them.
ClosedUpTo(n, hi) ==
    hi \in 0..Len(h4) /\ \A i \in 1..Len(h4) : h4[i].close_time <= n <=> i <= hi

\* The closed candles are in order and the first of the market's.
LEMMA ClosedRun ==
    ASSUME MarketInv, NEW n \in Int
    PROVE  /\ Chronicle(Closed(n))
           /\ \E hi : ClosedUpTo(n, hi) /\ IsRun(Closed(n), h4, 1, hi)
<1> DEFINE early == Indices(h4, LAMBDA c : c.close_time <= n)
           l == Len(h4)
           t == n - Ratio + 1
<1>1. Chronicle(h4) /\ h4 \in Seq(Ohlcv) /\ l \in Nat /\ DOMAIN h4 = 1..l
  BY DEF MarketInv, Chronicle
<1>2. Ratio \in Nat
  BY EvidenceAssumption
<1>3. t \in Int
  BY <1>2
<1>4. early = {i \in 1..l : h4[i].close_time <= n}
  BY <1>1 DEF Indices
<1>5. Closed(n) = Kept(h4, early)
  BY DEF Closed, ClosedOf
<1> HIDE DEF early
<1>6. Chronicle(Kept(h4, early))
  BY <1>1, KeptChronicle
<1>7. PICK lo : BeginsAt(h4, t, lo)
  <2> HIDE DEF t
  <2> QED
    BY <1>1, <1>3, Beginning
<1>8. lo \in 1..(l + 1) /\ \A i \in 1..l : h4[i].open_time >= t <=> lo <= i
  BY <1>7 DEF BeginsAt
<1> HIDE DEF l
<1>9. ASSUME NEW i \in 1..l PROVE h4[i].close_time <= n <=> i <= lo - 1
  <2>1. h4[i].open_time \in Int /\ h4[i].close_time = h4[i].open_time + Ratio
    BY ClosedBefore DEF l
  <2>2. h4[i].close_time <= n <=> ~(h4[i].open_time >= t)
    BY <1>2, <2>1
  <2>3. i <= lo - 1 <=> ~(lo <= i)
    BY <1>1, <1>8
  <2> QED
    BY <1>8, <2>2, <2>3
<1>10. lo - 1 \in 0..l
  BY <1>1, <1>8
<1>11. ClosedUpTo(n, lo - 1)
  BY <1>9, <1>10 DEF ClosedUpTo, l
<1>12. \A i \in 1..l : i \in early <=> 1 <= i /\ i <= lo - 1
  BY <1>1, <1>4, <1>9
<1>13. IsRun(Kept(h4, early), h4, 1, lo - 1)
  <2>1. 1 \in 1..((lo - 1) + 1)
    BY <1>1, <1>8
  <2> DEFINE hi == lo - 1
  <2> HIDE DEF hi
  <2>2. hi \in 0..Len(h4) /\ 1 \in 1..(hi + 1) /\ \A i \in 1..Len(h4) : i \in early <=> 1 <= i /\ i <= hi
    BY <1>10, <1>12, <2>1 DEF hi, l
  <2>3. IsRun(Kept(h4, early), h4, 1, hi)
    BY <1>1, <2>2, KeptRun
  <2> QED
    BY <2>3 DEF hi
<1> QED
  BY <1>5, <1>6, <1>11, <1>13

\* The batch of a run that reads the clock with the answer ends with the last
\* closed candle.
LEMMA BatchRun ==
    ASSUME MarketInv, NEW n \in 0..Len(m15)
    PROVE  /\ Chronicle(BatchAt(n)) /\ ClosesInOrder(BatchAt(n))
           /\ \E d \in 0..Len(Closed(n)) :
                IsRun(BatchAt(n), Closed(n), d + 1, Len(Closed(n)))
<1> DEFINE closed == Closed(n)
           q == n \div Ratio
           p == Ratio * q
           part == SubSeq(m15, p + 1, n)
           whole == Aggregate(part)
           all == IF part = <<>> THEN closed ELSE Append(closed, whole)
           first == Max({1, Len(all) - H4Limit + 1})
           rows == LastRows(all, H4Limit)
           l == Len(closed)
<1>1. /\ Len(m15) \in Nat /\ m15 \in Seq(Ohlcv) /\ Ratio \in Nat \ {0} /\ n \in Nat
      /\ n <= Len(m15) /\ H4Limit \in Nat /\ 2 <= H4Limit
  BY EvidenceAssumption DEF MarketInv
<1>2. n % Ratio \in 0..(Ratio - 1) /\ p = n - (n % Ratio) /\ q \in Nat
  BY <1>1, Remainder
<1>3. p \in Nat
  BY <1>1, <1>2
<1>4. rows = H4Rows(n)
  BY DEF H4Rows, Closed, ClosedOf
<1>5. Chronicle(BatchAt(n)) /\ ClosesInOrder(BatchAt(n))
  <2> DEFINE batch == BatchAt(n)
  <2>0. H4Candles(FetchBatch(H4Rows(n), n))
    BY <1>1, H4RunBatch
  <2>1. Chronicle(batch) /\ \A m \in 1..Len(batch) : batch[m].close_time = batch[m].open_time + Ratio
    BY <2>0 DEF BatchAt, H4Candles
  <2> HIDE DEF batch
  <2>2. \A i \in 1..Len(batch) : batch[i].open_time \in Int
    BY <2>1, CandleFields
  <2>3. \A i, k \in 1..Len(batch) : i < k => batch[i].open_time < batch[k].open_time
    BY <2>1 DEF Chronicle
  <2> QED
    BY <1>1, <2>1, <2>2, <2>3 DEF ClosesInOrder, batch
<1>6. Chronicle(closed)
  BY <1>1, ClosedRun
<1>7. closed \in Seq(Ohlcv) /\ l \in Nat
  BY <1>6 DEF Chronicle
<1>8. ASSUME NEW i \in 1..l PROVE closed[i].close_time <= n
  <2>1. PICK hi : ClosedUpTo(n, hi) /\ IsRun(closed, h4, 1, hi)
    BY <1>1, ClosedRun
  <2>2. hi \in 0..Len(h4) /\ l = hi /\ closed[i] = h4[i] /\ Len(h4) \in Nat
    BY <1>7, <2>1 DEF IsRun, ClosedUpTo, MarketInv, Chronicle
  <2>3. i \in 1..Len(h4) /\ i <= hi
    BY <2>2
  <2> QED
    BY <2>1, <2>2, <2>3 DEF ClosedUpTo
<1>9. part # <<>> => whole.close_time \in Int /\ whole.close_time > n
  <2> SUFFICES ASSUME part # <<>> PROVE whole.close_time \in Int /\ whole.close_time > n
    OBVIOUS
  <2>1. p + 1 <= n /\ p + 1 \in 1..Len(m15)
    <3> HIDE DEF p
    <3> QED
      BY <1>1, <1>3
  <2>2. Head(part) = m15[p + 1]
    <3> HIDE DEF p
    <3> QED
      BY <1>1, <1>3, <2>1
  <2>3. m15[p + 1].open_time = p
    BY <1>3, <2>1 DEF MarketInv
  <2>4. whole.close_time = p + Ratio
    BY <2>2, <2>3 DEF Aggregate
  <2> HIDE DEF p, whole
  <2> QED
    BY <1>1, <1>2, <1>3, <2>4
<1>10. BatchAt(n) = Kept(rows, {i \in DOMAIN rows : rows[i].close_time <= n})
  BY <1>4 DEF BatchAt, FetchBatch, Indices
<1> HIDE DEF closed, part, whole, p, q
<1>11. /\ Len(all) \in Nat /\ Len(all) \in {l, l + 1} /\ (part = <<>> => all = closed)
       /\ \A i \in 1..l : i \in 1..Len(all) /\ all[i] = closed[i]
       /\ \A i \in 1..Len(all) : all[i].close_time <= n <=> i <= l
       /\ \E S : all \in Seq(S)
  <2>1. CASE part = <<>>
    BY <1>7, <1>8, <2>1
  <2>2. CASE part # <<>>
    <3> DEFINE U == Ohlcv \cup {whole}
    <3>1. closed \in Seq(U) /\ whole \in U
      BY <1>7
    <3>2. all = Append(closed, whole)
      BY <2>2
    <3> HIDE DEF U, all
    <3>3. /\ all \in Seq(U) /\ Len(all) = l + 1 /\ all[l + 1] = whole
          /\ \A i \in 1..l : all[i] = closed[i]
      BY <1>7, <3>1, <3>2
    <3>4. ASSUME NEW i \in 1..Len(all) PROVE all[i].close_time <= n <=> i <= l
      <4>1. CASE i \in 1..l
        BY <1>8, <3>3, <4>1
      <4>2. CASE i = l + 1
        <5>1. ~(whole.close_time <= n)
          <6>1. whole.close_time \in Int /\ whole.close_time > n
            BY <1>9, <2>2
          <6> QED
            BY <1>1, <6>1
        <5> QED
          BY <1>7, <3>3, <4>2, <5>1
      <4> QED
        BY <1>7, <3>3, <4>1, <4>2
    <3> QED
      BY <1>7, <2>2, <3>3, <3>4
  <2> QED
    BY <2>1, <2>2
<1> HIDE DEF all
<1>12. /\ first \in Nat /\ 1 <= first /\ first <= l + 1 /\ first <= Len(all) + 1
       /\ (first = 1 \/ first = Len(all) - H4Limit + 1)
  <2> DEFINE other == Len(all) - H4Limit + 1
  <2>1. other \in Int /\ 1 \in Int
    BY <1>1, <1>11
  <2> HIDE DEF other
  <2>2. Max({1, other}) \in {1, other} /\ 1 <= Max({1, other})
    BY <2>1, MaxOfTwo
  <2>3. first = Max({1, other})
    BY DEF other
  <2> HIDE DEF first
  <2> QED
    BY <1>1, <1>7, <1>11, <2>1, <2>2, <2>3 DEF other
<1>13. PICK S : all \in Seq(S)
  BY <1>11
<1>14. rows = SubSeq(all, first, Len(all))
  BY DEF LastRows
<1> HIDE DEF rows, first
<1>15. /\ rows \in Seq(S) /\ Len(rows) = Len(all) - first + 1
       /\ \A i \in 1..Len(rows) : rows[i] = all[first + i - 1]
  BY <1>11, <1>12, <1>13, <1>14
<1> DEFINE hi == l - first + 1
           kept == {i \in DOMAIN rows : rows[i].close_time <= n}
<1>16. hi \in 0..Len(rows) /\ 1 \in 1..(hi + 1)
  BY <1>7, <1>11, <1>12, <1>15
<1>17. ASSUME NEW i \in 1..Len(rows) PROVE i \in kept <=> 1 <= i /\ i <= hi
  <2>1. first + i - 1 \in 1..Len(all)
    BY <1>11, <1>12, <1>15
  <2>2. rows[i].close_time <= n <=> first + i - 1 <= l
    BY <1>11, <1>15, <2>1
  <2>3. first + i - 1 <= l <=> i <= hi
    BY <1>7, <1>11, <1>12, <1>15
  <2>4. DOMAIN rows = 1..Len(rows)
    BY <1>15
  <2> QED
    BY <1>15, <2>2, <2>3, <2>4
<1>18. IsRun(Kept(rows, kept), rows, 1, hi)
  <2> HIDE DEF hi, kept
  <2> QED
    BY <1>15, <1>16, <1>17, KeptRun
<1> DEFINE d == first - 1
<1>19. d \in 0..l
  BY <1>7, <1>12
<1>20. IsRun(BatchAt(n), closed, d + 1, l)
  <2> DEFINE b == BatchAt(n)
  <2>1. Len(b) = hi /\ \A k \in 1..Len(b) : b[k] = rows[k]
    BY <1>7, <1>10, <1>12, <1>18 DEF IsRun
  <2> HIDE DEF b
  <2>2. Len(b) = l - (d + 1) + 1
    BY <1>7, <1>12, <2>1
  <2>3. ASSUME NEW k \in 1..Len(b) PROVE b[k] = closed[(d + 1) + k - 1]
    <3>1. k \in 1..Len(rows) /\ first + k - 1 \in 1..l /\ (d + 1) + k - 1 = first + k - 1
      BY <1>7, <1>12, <1>16, <2>1
    <3>2. b[k] = all[first + k - 1]
      BY <1>15, <2>1, <3>1
    <3> QED
      BY <1>11, <3>1, <3>2
  <2> QED
    BY <2>2, <2>3 DEF IsRun, b
<1> QED
  BY <1>5, <1>19, <1>20 DEF closed, l

\* The batch of a run at n, as it follows from the candles of the market.
BatchOf(cs, ms, n) ==
    LET part == SubSeq(ms, Ratio * (n \div Ratio) + 1, n)
    IN FetchBatch(LastRows(IF part = <<>> THEN ClosedOf(cs, n)
                           ELSE Append(ClosedOf(cs, n), Aggregate(part)), H4Limit), n)

\* So does what DerivedAt and ClosedAbove ask.
DerivedOf(cs, ms, n, zone) ==
    \E z \in ToSet(DeriveSupportZones(BatchOf(cs, ms, n))) : z.id = zone
AboveOf(cs, n, break_open, price) ==
    \E i \in 1..Len(cs) : /\ cs[i].close_time <= n /\ cs[i].open_time > break_open
                          /\ cs[i].close > price

\* A candle that closes now changes nothing for a run at an earlier time.
LEMMA EarlierView ==
    ASSUME MarketInv, NEW price \in Prices, CloseM15(price), NEW n \in 0..Len(m15)
    PROVE  /\ ClosedOf(h4', n) = ClosedOf(h4, n)
           /\ BatchOf(h4', m15', n) = BatchOf(h4, m15, n)
           /\ \A b, p : AboveOf(h4', n, b, p) => AboveOf(h4, n, b, p)
<1>0. MarketInv'
  BY MarketStep
<1> DEFINE l == Len(h4)
<1>1. /\ h4 \in Seq(Ohlcv) /\ l \in Nat /\ m15 \in Seq(Ohlcv) /\ Len(m15) \in Nat
      /\ Ratio \in Nat \ {0} /\ n \in Nat /\ n <= Len(m15)
  BY EvidenceAssumption DEF MarketInv, Chronicle
<1>2. PICK m : m15' = Append(m15, m)
  BY DEF CloseM15
<1>3. /\ Len(m15') = Len(m15) + 1
      /\ \A i \in 1..Len(m15) : m15'[i] = m15[i]
  BY <1>1, <1>2
<1>4. h4' = h4 \/ \E c : h4' = Append(h4, c) /\ c.close_time \in Int /\ ~(c.close_time <= n)
  <2> SUFFICES ASSUME h4' # h4
               PROVE  \E c : h4' = Append(h4, c) /\ c.close_time \in Int /\ ~(c.close_time <= n)
    OBVIOUS
  <2>1. Len(m15') % Ratio = 0 /\ \E c : h4' = Append(h4, c)
    BY DEF CloseM15
  <2>2. PICK c : h4' = Append(h4, c)
    BY <2>1
  <2>3. h4'[Len(h4')] = c
    BY <1>1, <2>2
  <2>4. h4'[Len(h4')].close_time = Len(m15') - (Len(m15') % Ratio)
    BY <1>0 DEF MarketInv
  <2>5. c.close_time = Len(m15) + 1
    BY <1>1, <1>3, <2>1, <2>3, <2>4
  <2> QED
    BY <1>1, <2>2, <2>5
<1>5. ASSUME NEW c, ~(c.close_time <= n)
      PROVE  ClosedOf(Append(h4, c), n) = ClosedOf(h4, n)
  <2> DEFINE more == Append(h4, c)
             early == Indices(more, LAMBDA x : x.close_time <= n)
             S == Ohlcv \cup {c}
             short == ClosedOf(h4, n)
             long == ClosedOf(more, n)
  <2>1. PICK hi : ClosedUpTo(n, hi) /\ IsRun(short, h4, 1, hi)
    BY <1>1, ClosedRun DEF Closed
  <2>2. hi \in 0..l /\ \A i \in 1..l : h4[i].close_time <= n <=> i <= hi
    BY <2>1 DEF ClosedUpTo
  <2>3. h4 \in Seq(S) /\ c \in S
    BY <1>1
  <2>4. early = {i \in DOMAIN more : more[i].close_time <= n}
    BY DEF Indices
  <2>5. long = Kept(more, early)
    BY DEF ClosedOf
  <2> HIDE DEF S, early
  <2>6. /\ more \in Seq(S) /\ Len(more) = l + 1 /\ DOMAIN more = 1..(l + 1)
        /\ more[l + 1] = c /\ \A i \in 1..l : more[i] = h4[i]
    BY <1>1, <2>3
  <2> HIDE DEF more
  <2>7. ASSUME NEW i \in 1..Len(more) PROVE i \in early <=> 1 <= i /\ i <= hi
    <3>1. CASE i \in 1..l
      BY <1>1, <2>2, <2>4, <2>6, <3>1
    <3>2. CASE i = l + 1
      BY <1>1, <1>5, <2>2, <2>4, <2>6, <3>2
    <3> QED
      BY <1>1, <2>6, <3>1, <3>2
  <2>8. hi \in 0..Len(more) /\ 1 \in 1..(hi + 1)
    BY <1>1, <2>2, <2>6
  <2>9. IsRun(long, more, 1, hi)
    BY <2>5, <2>6, <2>7, <2>8, KeptRun
  <2>10. long \in Seq(S)
    BY <2>5, <2>6, KeptElements
  <2>11. short \in Seq(Ohlcv)
    BY <1>1, ClosedRun DEF Closed, Chronicle
  <2> HIDE DEF long, short
  <2>12. /\ Len(long) = hi /\ Len(short) = hi
         /\ \A k \in 1..hi : long[k] = more[k] /\ short[k] = h4[k]
    BY <2>1, <2>2, <2>9, <1>1 DEF IsRun
  <2>13. \A k \in 1..hi : long[k] = short[k]
    BY <1>1, <2>2, <2>6, <2>12
  <2> QED
    BY <2>10, <2>11, <2>12, <2>13 DEF long, short, more
<1>6. ClosedOf(h4', n) = ClosedOf(h4, n)
  <2>1. CASE h4' = h4
    BY <2>1
  <2>2. CASE h4' # h4
    <3>1. PICK c : h4' = Append(h4, c) /\ ~(c.close_time <= n)
      BY <1>4, <2>2
    <3>2. ClosedOf(Append(h4, c), n) = ClosedOf(h4, n)
      BY <1>5, <3>1
    <3> QED
      BY <3>1, <3>2
  <2> QED
    BY <2>1, <2>2
<1>7. BatchOf(h4', m15', n) = BatchOf(h4, m15, n)
  <2> DEFINE p == Ratio * (n \div Ratio)
  <2>1. p \in Nat
    <3>1. n % Ratio \in 0..(Ratio - 1) /\ p = n - (n % Ratio) /\ n \div Ratio \in Nat
      BY <1>1, Remainder
    <3> QED
      BY <1>1, <3>1
  <2> HIDE DEF p
  <2>2. SubSeq(m15', p + 1, n) = SubSeq(m15, p + 1, n)
    <3> DEFINE s == SubSeq(m15', p + 1, n)
               t == SubSeq(m15, p + 1, n)
               U == Ohlcv \cup {m}
    <3>1. m15 \in Seq(U) /\ m15' \in Seq(U)
      BY <1>1, <1>2
    <3> HIDE DEF U
    <3>2. s \in Seq(U) /\ t \in Seq(U) /\ Len(s) = Len(t)
      BY <1>1, <1>3, <2>1, <3>1
    <3>3. \A i \in 1..Len(s) : s[i] = t[i]
      BY <1>1, <1>3, <2>1, <3>1
    <3> HIDE DEF s, t
    <3>4. s = t
      BY <3>2, <3>3
    <3> QED
      BY <3>4 DEF s, t
  <2> QED
    BY <1>6, <2>2 DEF BatchOf, p
<1>8. ASSUME NEW b, NEW p, AboveOf(h4', n, b, p) PROVE AboveOf(h4, n, b, p)
  <2>1. PICK i \in 1..Len(h4') : /\ h4'[i].close_time <= n /\ h4'[i].open_time > b
                                 /\ h4'[i].close > p
    BY <1>8 DEF AboveOf
  <2>2. i \in 1..l /\ h4'[i] = h4[i]
    <3>1. CASE h4' = h4
      BY <3>1
    <3>2. CASE h4' # h4
      <4>1. PICK c : h4' = Append(h4, c) /\ ~(c.close_time <= n)
        BY <1>4, <3>2
      <4>2. i \in 1..(l + 1) /\ (i = l + 1 => h4'[i] = c) /\ (i # l + 1 => h4'[i] = h4[i])
        BY <1>1, <4>1
      <4> QED
        BY <1>1, <2>1, <4>1, <4>2
    <3> QED
      BY <3>1, <3>2
  <2> QED
    BY <2>1, <2>2 DEF AboveOf
<1> QED
  BY <1>6, <1>7, <1>8

\* A batch and the closed candles that it is the last of.
View(part, cs) ==
    /\ Chronicle(cs) /\ ClosesInOrder(cs) /\ Chronicle(part) /\ ClosesInOrder(part)
    /\ \E d \in 0..Len(cs) : IsRun(part, cs, d + 1, Len(cs))

\* Rows say what candles say of their zones.
Told(rows, cs) ==
    \A e \in rows : e.zone[3] \in Int /\ e.id[1] = e.zone /\ e \in Tale(e.zone, cs)

\* Of the zones of a batch they say all of it.
Complete(rows, part, cs) ==
    \A z \in ToSet(DeriveSupportZones(part)) : Tale(z.id, cs) \subseteq rows

\* What an analysis finds.
LEMMA FoundTold ==
    ASSUME NEW cs, NEW part, View(part, cs)
    PROVE  LET found == AnalysisEvents(DeriveSupportZones(part), part)
           IN Told(found, cs) /\ Complete(found, part, cs)
<1> DEFINE derived == DeriveSupportZones(part)
           found == AnalysisEvents(derived, part)
<1>1. Chronicle(cs) /\ Chronicle(part) /\ ClosesInOrder(part)
  BY DEF View
<1>2. PICK d \in 0..Len(cs) : IsRun(part, cs, d + 1, Len(cs))
  BY DEF View
<1>3. ASSUME NEW z \in ToSet(derived)
      PROVE  z.id[3] \in Int /\ ToSet(BuildStructureEvents(z, part)) = Tale(z.id, cs)
  BY <1>1, <1>2, TaleOfDerived
<1> HIDE DEF derived
<1>4. ASSUME NEW e \in found
      PROVE  e.zone[3] \in Int /\ e.id[1] = e.zone /\ e \in Tale(e.zone, cs)
  <2>1. PICK i \in DOMAIN derived : e \in ToSet(BuildStructureEvents(derived[i], part))
    BY DEF AnalysisEvents
  <2> DEFINE z == derived[i]
  <2>2. z \in ToSet(derived)
    BY DEF ToSet
  <2>3. z.id[3] \in Int /\ e \in Tale(z.id, cs)
    BY <1>3, <2>1, <2>2
  <2> HIDE DEF z
  <2>4. e.zone = z.id /\ e.id[1] = z.id
    BY <2>3, TaleOfZone
  <2> QED
    BY <2>3, <2>4
<1>5. ASSUME NEW z \in ToSet(derived) PROVE Tale(z.id, cs) \subseteq found
  <2>1. PICK i \in DOMAIN derived : z = derived[i]
    BY DEF ToSet
  <2>2. ToSet(BuildStructureEvents(derived[i], part)) \subseteq found
    BY DEF AnalysisEvents
  <2> QED
    BY <1>3, <2>1, <2>2
<1> QED
  BY <1>4, <1>5 DEF Told, Complete, derived

\* Upserting it to rows that earlier candles told.
LEMMA UpsertTold ==
    ASSUME NEW cs, NEW part, View(part, cs), NEW earlier, Chronicle(earlier),
           Continues(cs, earlier), NEW rows, Told(rows, earlier)
    PROVE  LET found == AnalysisEvents(DeriveSupportZones(part), part)
           IN /\ Told(found, cs)
              /\ Told(UpsertRows(rows, found), cs)
              /\ Complete(UpsertRows(rows, found), part, cs)
<1> DEFINE found == AnalysisEvents(DeriveSupportZones(part), part)
           all == UpsertRows(rows, found)
<1>1. Told(found, cs) /\ Complete(found, part, cs)
  BY FoundTold
<1> HIDE DEF found
<1>2. found \subseteq all /\ all \subseteq rows \cup found
  BY DEF UpsertRows
<1> HIDE DEF all
<1>3. ASSUME NEW e \in rows
      PROVE  e.zone[3] \in Int /\ e.id[1] = e.zone /\ e \in Tale(e.zone, cs)
  <2> DEFINE id == e.zone
  <2>1. id[3] \in Int /\ e.id[1] = id /\ e \in Tale(id, earlier)
    BY DEF Told
  <2> HIDE DEF id
  <2>2. Chronicle(cs)
    BY DEF View
  <2>3. Tale(id, earlier) \subseteq Tale(id, cs)
    BY <2>1, <2>2, TaleGrows
  <2> QED
    BY <2>1, <2>3 DEF id
<1>4. Told(all, cs)
  BY <1>1, <1>2, <1>3 DEF Told
<1>5. Complete(all, part, cs)
  BY <1>1, <1>2 DEF Complete
<1> QED
  BY <1>1, <1>4, <1>5 DEF all, found

\* No candle has closed above the zone of the newest row after the break that it
\* reports.
LEMMA NewestStands ==
    ASSUME NEW cs, NEW part, View(part, cs), NEW rows, Told(rows, cs), Complete(rows, part, cs),
           NEW e \in Newest(rows), e.state = "CONFIRMED_BREAK",
           NEW z \in ToSet(DeriveSupportZones(part)), e.id[1] = z.id,
           NEW j \in 1..Len(cs), cs[j].open_time > e.id[2]
    PROVE  ~(cs[j].close > z.id[2])
<1> DEFINE id == z.id
<1>1. e \in rows /\ \A s \in rows : s.observed_at <= e.observed_at
  BY DEF Newest
<1>2. id[3] \in Int /\ e \in Tale(id, cs) /\ Tale(id, cs) \subseteq rows
  BY <1>1, Zenon DEF Told, Complete
<1>3. Chronicle(cs) /\ ClosesInOrder(cs)
  BY DEF View
<1> HIDE DEF id
<1>4. ASSUME cs[j].close > id[2] PROVE FALSE
  <2>1. e.observed_at \in Int /\ \E g \in Tale(id, cs) :
          g.observed_at \in Int /\ g.observed_at > e.observed_at
    BY <1>2, <1>3, <1>4, TakenBackTold
  <2>2. PICK g \in Tale(id, cs) : g.observed_at \in Int /\ g.observed_at > e.observed_at
    BY <2>1
  <2> QED
    BY <1>1, <1>2, <2>1, <2>2
<1> QED
  BY <1>4 DEF id

\* What a run at n sees.
LEMMA ViewAt ==
    ASSUME MarketInv, NEW n \in 0..Len(m15)
    PROVE  /\ View(BatchOf(h4, m15, n), ClosedOf(h4, n))
           /\ BatchAt(n) = BatchOf(h4, m15, n)
           /\ FetchBatch(H4Rows(n), n) = BatchOf(h4, m15, n)
<1>1. FetchBatch(H4Rows(n), n) = BatchOf(h4, m15, n)
  BY DEF H4Rows, BatchOf, ClosedOf
<1>2. BatchAt(n) = BatchOf(h4, m15, n)
  BY <1>1 DEF BatchAt
<1> DEFINE cs == Closed(n)
<1>3. n \in Int /\ Ratio \in Nat
  BY EvidenceAssumption DEF MarketInv
<1>4. /\ Chronicle(BatchAt(n)) /\ ClosesInOrder(BatchAt(n))
      /\ \E d \in 0..Len(cs) : IsRun(BatchAt(n), cs, d + 1, Len(cs))
  BY BatchRun
<1>5. Chronicle(cs)
  BY <1>3, ClosedRun
<1>6. ClosesInOrder(cs)
  <2>1. PICK hi : ClosedUpTo(n, hi) /\ IsRun(cs, h4, 1, hi)
    BY <1>3, ClosedRun
  <2> HIDE DEF cs
  <2>2. Len(cs) \in Nat /\ Len(h4) \in Nat
    BY <1>5 DEF MarketInv, Chronicle
  <2>3. hi \in 0..Len(h4) /\ Len(cs) = hi /\ \A k \in 1..hi : cs[k] = h4[k]
    BY <2>1, <2>2 DEF ClosedUpTo, IsRun
  <2>4. \A k \in 1..Len(cs) : /\ cs[k].open_time \in Int
                              /\ cs[k].close_time = cs[k].open_time + Ratio
    BY <2>2, <2>3, ClosedBefore
  <2>5. \A i, k \in 1..Len(cs) : i < k => cs[i].open_time < cs[k].open_time
    BY <1>5 DEF Chronicle
  <2> QED
    BY <1>3, <2>4, <2>5 DEF ClosesInOrder
<1> QED
  BY <1>1, <1>2, <1>4, <1>5, <1>6 DEF View, Closed

\* A later run sees the closed candles of an earlier one and maybe more.
LEMMA LaterView ==
    ASSUME MarketInv, NEW n \in 0..Len(m15), NEW f \in 0..Len(m15), f <= n
    PROVE  Continues(ClosedOf(h4, n), ClosedOf(h4, f))
<1>1. n \in Int /\ f \in Int /\ Len(h4) \in Nat
  BY DEF MarketInv, Chronicle
<1> DEFINE long == Closed(n)
           short == Closed(f)
<1>2. PICK hi : ClosedUpTo(n, hi) /\ IsRun(long, h4, 1, hi)
  BY <1>1, ClosedRun
<1>3. PICK lo : ClosedUpTo(f, lo) /\ IsRun(short, h4, 1, lo)
  BY <1>1, ClosedRun
<1>4. /\ hi \in 0..Len(h4) /\ lo \in 0..Len(h4)
      /\ \A i \in 1..Len(h4) : h4[i].close_time <= n <=> i <= hi
      /\ \A i \in 1..Len(h4) : h4[i].close_time <= f <=> i <= lo
  BY <1>2, <1>3 DEF ClosedUpTo
<1>5. lo <= hi
  <2>1. SUFFICES ASSUME lo # 0 PROVE lo <= hi
    BY <1>1, <1>4
  <2>2. lo \in 1..Len(h4) /\ h4[lo].close_time <= f
    BY <1>1, <1>4, <2>1
  <2>3. h4[lo].close_time \in Int
    BY <2>2, CandleFields DEF MarketInv
  <2>4. h4[lo].close_time <= n
    BY <1>1, <2>2, <2>3
  <2> QED
    BY <1>4, <2>2, <2>4
<1> HIDE DEF long, short
<1>6. /\ Len(long) = hi /\ Len(short) = lo
      /\ \A k \in 1..hi : long[k] = h4[k]
      /\ \A k \in 1..lo : short[k] = h4[k]
  BY <1>1, <1>2, <1>3, <1>4 DEF IsRun
<1>7. Continues(long, short)
  BY <1>1, <1>4, <1>5, <1>6 DEF Continues
<1> QED
  BY <1>7 DEF long, short, Closed

\* The evidence h that a caller holds was not taken back when it was loaded.
StillBroken(cs, ms, h) ==
    /\ h.fetched \in 0..Len(ms)
    /\ (DerivedOf(cs, ms, h.fetched, h.zone) /\ h.event[1] = h.zone)
         => ~AboveOf(cs, h.fetched, h.event[2], h.zone[2])

\* The rows of structure_events that a run at f leaves.
StoredAt(f, cs, ms, rows) ==
    /\ f \in 0..Len(ms)
    /\ Told(rows, ClosedOf(cs, f))
    /\ Complete(rows, BatchOf(cs, ms, f), ClosedOf(cs, f))

\* structure_events tells what the closed candles of the last run do, every
\* attempt names the zone of its break, and the evidence that a caller holds was
\* not taken back.
StoryInv ==
    /\ MarketInv
    /\ StoredAt(h4_fetched, h4, m15, events)
    /\ \A a \in attempts : a.zone = a.break[1]
    /\ htf # None => StillBroken(h4, m15, htf)

\* An upsert keeps the zones and the breaks of the attempts together.
LEMMA AttemptsNamed ==
    ASSUME NEW table, \A a \in table : a.zone = a.break[1], NEW e, e.id[1] = e.zone,
           NEW zone, NEW broken, NEW interval, NEW batch,
           NEW new, new = WithAttempt(table, e, zone, broken, interval, batch)
    PROVE  \A a \in new : a.zone = a.break[1]
<1> DEFINE row == AttemptRow(e, AnalyzeReclaimAttempt(zone, e, broken, interval, batch))
<1>1. new = UpsertRows(table, {row})
  BY DEF WithAttempt
<1>2. row.zone = row.break[1]
  BY DEF AttemptRow
<1> HIDE DEF row
<1>3. new \subseteq table \cup {row}
  BY <1>1 DEF UpsertRows
<1> QED
  BY <1>2, <1>3

\* So does the attempt of an H4 run.
LEMMA StructureNamed ==
    ASSUME NEW table, \A a \in table : a.zone = a.break[1],
           NEW batch, NEW derived, NEW found, \A e \in found : e.id[1] = e.zone,
           NEW new, new \in WithStructureAttempt(table, batch, derived, found)
    PROVE  \A a \in new : a.zone = a.break[1]
<1>1. \/ new = table
      \/ \E e \in Newest(Confirmed(found)) : \E zone, broken :
           new = WithAttempt(table, e, zone, broken, "H4", batch)
  BY DEF WithStructureAttempt
<1>2. CASE new = table
  BY <1>2
<1>3. ASSUME NEW e \in Newest(Confirmed(found)), NEW zone, NEW broken,
             new = WithAttempt(table, e, zone, broken, "H4", batch)
      PROVE  \A a \in new : a.zone = a.break[1]
  <2>1. e.id[1] = e.zone
    BY DEF Newest, Confirmed
  <2> QED
    BY <1>3, <2>1, AttemptsNamed
<1> QED
  BY <1>1, <1>2, <1>3

\* The story begins with the first run.
LEMMA StoryBegins ==
    ASSUME Init
    PROVE  StoryInv
<1>1. MarketInv
  BY MarketBegins
<1> DEFINE part == BatchOf(h4, m15, 0)
           cs == ClosedOf(h4, 0)
<1>2. 0 \in 0..Len(m15)
  BY DEF Init
<1>3. View(part, cs) /\ FetchBatch(H4Rows(0), 0) = part
  BY <1>1, <1>2, ViewAt
<1>4. events = AnalysisEvents(DeriveSupportZones(FetchBatch(H4Rows(0), 0)), FetchBatch(H4Rows(0), 0))
  BY DEF Init
<1> HIDE DEF part, cs
<1>5. Told(events, cs) /\ Complete(events, part, cs)
  BY <1>3, <1>4, FoundTold
<1>6. h4_fetched = 0 /\ htf = None
  BY DEF Init
<1>7. \A a \in attempts : a.zone = a.break[1]
  <2>1. \E batch, derived : attempts \in WithStructureAttempt({}, batch, derived, events)
    BY DEF Init
  <2>2. \A e \in events : e.id[1] = e.zone
    BY <1>5 DEF Told
  <2>3. \A a \in {} : a.zone = a.break[1]
    OBVIOUS
  <2> QED
    BY <2>1, <2>2, <2>3, StructureNamed
<1> QED
  BY <1>1, <1>2, <1>5, <1>6, <1>7 DEF StoryInv, StoredAt, part, cs

\* A candle more does not touch it.
LEMMA StoryMarket ==
    ASSUME StoryInv, NEW price \in Prices, CloseM15(price)
    PROVE  StoryInv'
<1>1. MarketInv /\ MarketInv'
  BY MarketStep DEF StoryInv
<1>2. PICK f : f = h4_fetched
  OBVIOUS
<1>3. PICK h : h = htf
  OBVIOUS
<1>4. PICK rows : rows = events
  OBVIOUS
<1>5. h4_fetched' = f /\ htf' = h /\ events' = rows /\ attempts' = attempts
  BY <1>2, <1>3, <1>4 DEF CloseM15, tables, reader
<1>6. Len(m15) \in Nat /\ Len(m15') = Len(m15) + 1
  BY <1>1 DEF CloseM15, MarketInv
<1>7. StoredAt(f, h4', m15', rows)
  <2>1. StoredAt(f, h4, m15, rows)
    BY <1>2, <1>4 DEF StoryInv
  <2>2. f \in 0..Len(m15) /\ f \in 0..Len(m15')
    BY <1>6, <2>1 DEF StoredAt
  <2>3. /\ ClosedOf(h4', f) = ClosedOf(h4, f)
        /\ BatchOf(h4', m15', f) = BatchOf(h4, m15, f)
    BY <1>1, <2>2, EarlierView
  <2> QED
    BY <2>1, <2>2, <2>3 DEF StoredAt
<1>8. h # None => StillBroken(h4', m15', h)
  <2> SUFFICES ASSUME h # None PROVE StillBroken(h4', m15', h)
    OBVIOUS
  <2>1. StillBroken(h4, m15, h)
    BY <1>3 DEF StoryInv
  <2> DEFINE n == h.fetched
  <2>2. n \in 0..Len(m15) /\ n \in 0..Len(m15')
    BY <1>6, <2>1 DEF StillBroken
  <2> HIDE DEF n
  <2>3. /\ BatchOf(h4', m15', n) = BatchOf(h4, m15, n)
        /\ \A b, p : AboveOf(h4', n, b, p) => AboveOf(h4, n, b, p)
    BY <1>1, <2>2, EarlierView
  <2>4. DerivedOf(h4', m15', n, h.zone) => DerivedOf(h4, m15, n, h.zone)
    BY <2>3 DEF DerivedOf
  <2> QED
    BY <2>1, <2>2, <2>3, <2>4 DEF StillBroken, n
<1> QED
  BY <1>1, <1>5, <1>7, <1>8 DEF StoryInv

\* A run of the H4 job whose clock is read with the answer tells more of it.
LEMMA StoryRun ==
    ASSUME StoryInv, NEW n \in 0..Len(m15), RunH4(n, 0)
    PROVE  /\ StoredAt(h4_fetched', h4, m15, events')
           /\ \A a \in attempts' : a.zone = a.break[1]
<1> DEFINE part == BatchOf(h4, m15, n)
           cs == ClosedOf(h4, n)
           derived == DeriveSupportZones(part)
           found == AnalysisEvents(derived, part)
<1>1. MarketInv /\ n \in Int /\ n + 0 = n
  BY DEF StoryInv, MarketInv
<1>2. View(part, cs) /\ FetchBatch(H4Rows(n), n) = part
  BY <1>1, ViewAt
<1>3. FetchBatch(H4Rows(n), n + 0) = part
  BY <1>1, <1>2
<1> DEFINE batch == FetchBatch(H4Rows(n), n + 0)
<1>4. LET ds == DeriveSupportZones(batch)
          fs == AnalysisEvents(ds, batch)
      IN /\ h4_fetched <= n /\ h4_fetched' = n + 0
         /\ events' = UpsertRows(events, fs)
         /\ attempts' \in WithStructureAttempt(attempts, batch, ds, fs)
  BY DEF RunH4
<1> HIDE DEF batch
<1>5. batch = part
  BY <1>3 DEF batch
<1>6. /\ h4_fetched <= n /\ h4_fetched' = n
      /\ events' = UpsertRows(events, found)
      /\ attempts' \in WithStructureAttempt(attempts, part, derived, found)
  BY <1>1, <1>4, <1>5
<1>7. PICK f : f = h4_fetched
  OBVIOUS
<1>8. f \in 0..Len(m15) /\ f <= n /\ Told(events, ClosedOf(h4, f))
  BY <1>6, <1>7 DEF StoryInv, StoredAt
<1>9. Continues(cs, ClosedOf(h4, f))
  BY <1>1, <1>8, LaterView
<1>10. Chronicle(ClosedOf(h4, f))
  BY <1>1, <1>8, ViewAt DEF View
<1> HIDE DEF part, cs
<1>11. /\ Told(found, cs)
       /\ Told(UpsertRows(events, found), cs)
       /\ Complete(UpsertRows(events, found), part, cs)
  BY <1>2, <1>8, <1>9, <1>10, UpsertTold
<1> HIDE DEF found
<1>12. StoredAt(n, h4, m15, events')
  BY <1>6, <1>11 DEF StoredAt, part, cs
<1>13. \A a \in attempts' : a.zone = a.break[1]
  <2>1. \A e \in found : e.id[1] = e.zone
    BY <1>11 DEF Told
  <2>2. \A a \in attempts : a.zone = a.break[1]
    BY DEF StoryInv
  <2> HIDE DEF derived
  <2> QED
    BY <1>6, <2>1, <2>2, StructureNamed
<1> QED
  BY <1>6, <1>12, <1>13

\* A run of the M15 job judges a break of the table.
LEMMA StoryJudged ==
    ASSUME StoryInv, NEW n, RunM15(n)
    PROVE  \A a \in attempts' : a.zone = a.break[1]
<1> DEFINE batch == FetchBatch(M15Rows(n), n)
           breaks == Newest(Confirmed(events))
<1>1. \/ UNCHANGED attempts
      \/ \E e \in breaks : \E zone, broken :
           attempts' = WithAttempt(attempts, e, zone, broken, "M15", batch)
  BY DEF RunM15
<1> HIDE DEF batch
<1>2. CASE UNCHANGED attempts
  BY <1>2 DEF StoryInv
<1>3. ASSUME NEW e \in breaks, NEW zone, NEW broken,
             attempts' = WithAttempt(attempts, e, zone, broken, "M15", batch)
      PROVE  \A a \in attempts' : a.zone = a.break[1]
  <2>1. e.id[1] = e.zone
    BY DEF Newest, Confirmed, StoryInv, StoredAt, Told
  <2> QED
    BY <1>3, <2>1, AttemptsNamed DEF StoryInv
<1> QED
  BY <1>1, <1>2, <1>3

\* What a caller loads was not taken back.
LEMMA StoryLoaded ==
    ASSUME StoryInv, LoadHtf
    PROVE  htf' # None => StillBroken(h4, m15, htf')
<1> SUFFICES ASSUME htf' # None PROVE StillBroken(h4, m15, htf')
  OBVIOUS
<1>0. PICK y : y = zone_read
  OBVIOUS
<1>1. PICK e \in Confirmed(LatestEvent) :
        htf' = [zone |-> y, event |-> e.id, fetched |-> h4_fetched]
  BY <1>0 DEF LoadHtf
<1>2. PICK h : h = htf'
  OBVIOUS
<1>3. PICK f : f = h4_fetched
  OBVIOUS
<1>4. h.zone = y /\ h.event = e.id /\ h.fetched = f
  BY <1>1, <1>2, <1>3
<1> DEFINE part == BatchOf(h4, m15, f)
           cs == ClosedOf(h4, f)
<1>5. MarketInv /\ f \in 0..Len(m15) /\ Told(events, cs) /\ Complete(events, part, cs)
  BY <1>3 DEF StoryInv, StoredAt
<1>6. View(part, cs)
  BY <1>5, ViewAt
<1>7. e \in Newest(events) /\ e.state = "CONFIRMED_BREAK"
  BY DEF Confirmed, LatestEvent
<1>8. f \in Int /\ Len(h4) \in Nat
  BY <1>5 DEF MarketInv, Chronicle
<1>9. PICK hi : ClosedUpTo(f, hi) /\ IsRun(cs, h4, 1, hi)
  BY <1>5, <1>8, ClosedRun DEF Closed
<1> HIDE DEF cs
<1>10. /\ hi \in 0..Len(h4) /\ Len(cs) = hi /\ \A k \in 1..hi : cs[k] = h4[k]
       /\ \A i \in 1..Len(h4) : h4[i].close_time <= f <=> i <= hi
  BY <1>8, <1>9 DEF ClosedUpTo, IsRun
<1>11. ASSUME NEW z \in ToSet(DeriveSupportZones(part)), e.id[1] = z.id,
              AboveOf(h4, f, e.id[2], z.id[2])
       PROVE  FALSE
  <2>1. PICK i \in 1..Len(h4) : /\ h4[i].close_time <= f /\ h4[i].open_time > e.id[2]
                                /\ h4[i].close > z.id[2]
    BY <1>11 DEF AboveOf
  <2>2. i \in 1..Len(cs) /\ cs[i] = h4[i]
    BY <1>8, <1>10, <2>1
  <2>3. cs[i].open_time > e.id[2] /\ cs[i].close > z.id[2]
    BY <2>1, <2>2
  <2> HIDE DEF part
  <2>4. ~(cs[i].close > z.id[2])
    BY <1>5, <1>6, <1>7, <1>11, <2>2, <2>3, NewestStands
  <2> QED
    BY <2>3, <2>4
<1>12. StillBroken(h4, m15, h)
  <2> SUFFICES ASSUME DerivedOf(h4, m15, f, y), e.id[1] = y,
                      AboveOf(h4, f, e.id[2], y[2])
               PROVE  FALSE
    BY <1>4, <1>5, Zenon DEF StillBroken
  <2>1. PICK z \in ToSet(DeriveSupportZones(part)) : z.id = y
    BY DEF DerivedOf
  <2> QED
    BY <1>11, <2>1
<1> QED
  BY <1>2, <1>12

\* StoryInv, where the adapter reads the clock before another candle closes.
THEOREM StoryCorrect ==
    ASSUME MaxDelay = 0
    PROVE  Spec => []StoryInv
<1>1. Init => StoryInv
  BY StoryBegins
<1>2. StoryInv /\ [Next]_vars => StoryInv'
  <2> SUFFICES ASSUME StoryInv, [Next]_vars PROVE StoryInv'
    OBVIOUS
  <2>0. ASSUME UNCHANGED market PROVE h4' = h4 /\ m15' = m15 /\ MarketInv'
    BY <2>0 DEF market, MarketInv, StoryInv
  <2>1. ASSUME NEW price \in Prices, CloseM15(price) PROVE StoryInv'
    BY <2>1, StoryMarket
  <2>2. ASSUME NEW n \in Answered, NEW delay \in 0..MaxDelay, RunH4(n, delay)
        PROVE  StoryInv'
    <3>1. n \in 0..Len(m15) /\ delay = 0
      BY DEF Answered
    <3>2. /\ StoredAt(h4_fetched', h4, m15, events')
          /\ \A a \in attempts' : a.zone = a.break[1]
      BY <2>2, <3>1, StoryRun
    <3>3. UNCHANGED market /\ htf' = htf
      BY <2>2 DEF RunH4, reader
    <3> QED
      BY <2>0, <3>2, <3>3 DEF StoryInv
  <2>3. ASSUME NEW n \in Answered, RunM15(n) PROVE StoryInv'
    <3>1. \A a \in attempts' : a.zone = a.break[1]
      BY <2>3, StoryJudged
    <3>2. UNCHANGED market /\ h4_fetched' = h4_fetched /\ events' = events /\ htf' = htf
      BY <2>3 DEF RunM15, reader
    <3> QED
      BY <2>0, <3>1, <3>2 DEF StoryInv
  <2>4. CASE LoadHtf
    <3>1. htf' # None => StillBroken(h4, m15, htf')
      BY <2>4, StoryLoaded
    <3>2. UNCHANGED market /\ h4_fetched' = h4_fetched /\ events' = events
          /\ attempts' = attempts
      BY <2>4 DEF LoadHtf, tables
    <3> QED
      BY <2>0, <3>1, <3>2 DEF StoryInv
  <2>5. CASE ReadZone \/ UNCHANGED vars
    <3>1. UNCHANGED market /\ h4_fetched' = h4_fetched /\ events' = events
          /\ attempts' = attempts /\ htf' = htf
      BY <2>5 DEF ReadZone, vars, tables, reader
    <3> QED
      BY <2>0, <3>1 DEF StoryInv
  <2> QED
    BY <2>1, <2>2, <2>3, <2>4, <2>5 DEF Next
<1> QED
  BY <1>1, <1>2, PTL DEF Spec

\* TableIsAnalysis, where no candle closes between an answer and the reading of
\* the clock (bybit_kline.py:130 does not rule it out, and a row of the open candle
\* is then kept: EventsFromClosedCandles fails).  Under that condition, however many
\* runs upserted events and whenever they fetched, structure_events holds of every
\* zone of the last analysis what that analysis yields and nothing else.
THEOREM AnalysisCorrect ==
    ASSUME MaxDelay = 0
    PROVE  Spec => []TableIsAnalysis
<1>1. StoryInv => TableIsAnalysis
  <2> SUFFICES ASSUME StoryInv PROVE TableIsAnalysis
    OBVIOUS
  <2>1. PICK f : f = h4_fetched
    OBVIOUS
  <2> DEFINE part == BatchOf(h4, m15, f)
             cs == ClosedOf(h4, f)
             derived == DeriveSupportZones(part)
  <2>2. MarketInv /\ f \in 0..Len(m15) /\ Told(events, cs) /\ Complete(events, part, cs)
    BY <2>1 DEF StoryInv, StoredAt
  <2>3. View(part, cs) /\ BatchAt(f) = part
    BY <2>2, ViewAt
  <2> HIDE DEF part, cs
  <2>4. ASSUME NEW i \in DOMAIN derived
        PROVE  {e \in events : e.zone = derived[i].id}
                 = ToSet(BuildStructureEvents(derived[i], part))
    <3> DEFINE z == derived[i]
    <3>1. z \in ToSet(derived)
      BY DEF ToSet
    <3>2. Chronicle(cs) /\ Chronicle(part) /\ ClosesInOrder(part)
      BY <2>3 DEF View
    <3>3. PICK d \in 0..Len(cs) : IsRun(part, cs, d + 1, Len(cs))
      BY <2>3 DEF View
    <3> HIDE DEF z
    <3>4. ToSet(BuildStructureEvents(z, part)) = Tale(z.id, cs)
      BY <3>1, <3>2, <3>3, TaleOfDerived
    <3>5. Tale(z.id, cs) \subseteq events
      BY <2>2, <3>1 DEF Complete
    <3>6. \A e \in Tale(z.id, cs) : e.zone = z.id
      BY TaleOfZone
    <3>7. \A e \in events : e.zone = z.id => e \in Tale(z.id, cs)
      BY <2>2, Zenon DEF Told
    <3>8. {e \in events : e.zone = z.id} = Tale(z.id, cs)
      BY <3>5, <3>6, <3>7
    <3> QED
      BY <3>4, <3>8 DEF z
  <2> HIDE DEF derived
  <2>5. DeriveSupportZones(BatchAt(h4_fetched)) = derived /\ BatchAt(h4_fetched) = part
    BY <2>1, <2>3 DEF derived
  <2> QED
    BY <2>4, <2>5 DEF TableIsAnalysis
<1> QED
  BY <1>1, StoryCorrect, PTL

\* ReclaimedBreakNotRequested, where no candle closes between an answer and the
\* reading of the clock (bybit_kline.py:130 does not rule it out; the close that
\* takes a break back may then be stored with the price the candle had while open,
\* and the break is still requested).  Under that condition, for every order of the
\* H4 job's runs, the M15 job's runs and the reads of the providers, no request is
\* built on a break that an H4 close above its derived zone had taken back when the
\* evidence was loaded.
THEOREM ReclaimedCorrect ==
    ASSUME MaxDelay = 0
    PROVE  Spec => []ReclaimedBreakNotRequested
<1>1. StoryInv => ReclaimedBreakNotRequested
  <2> SUFFICES ASSUME StoryInv, NEW a \in BuildRequest,
                      DerivedAt(htf.fetched, a.zone),
                      ClosedAbove(htf.fetched, a.break[2], a.zone[2])
               PROVE  FALSE
    BY DEF ReclaimedBreakNotRequested
  <2>1. htf # None /\ a \in attempts /\ a.zone = htf.zone /\ a.break = htf.event
    BY DEF BuildRequest, LatestAttempts, Newest, Linked
  <2>2. htf.event[1] = htf.zone
    BY <2>1 DEF StoryInv
  <2>3. PICK n : n = htf.fetched
    OBVIOUS
  <2>4. MarketInv /\ n \in 0..Len(m15) /\ StillBroken(h4, m15, htf)
    BY <2>1, <2>3 DEF StoryInv, StillBroken
  <2>5. BatchAt(n) = BatchOf(h4, m15, n)
    BY <2>4, ViewAt
  <2>6. DerivedOf(h4, m15, n, htf.zone)
    BY <2>1, <2>3, <2>5 DEF DerivedAt, DerivedOf
  <2>7. DOMAIN h4 = 1..Len(h4)
    BY <2>4 DEF MarketInv, Chronicle
  <2>8. AboveOf(h4, n, htf.event[2], htf.zone[2])
    BY <2>1, <2>3, <2>7 DEF ClosedAbove, AboveOf
  <2> QED
    BY <2>2, <2>3, <2>4, <2>6, <2>8 DEF StillBroken
<1> QED
  BY <1>1, StoryCorrect, PTL
=============================================================================
