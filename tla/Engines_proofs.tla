--------------------------- MODULE Engines_proofs ---------------------------
(***************************************************************************)
(* The verdict on a break, the structure events, the pivots and the        *)
(* support zones, for every sequence of candles and every setting of the   *)
(* rules.                                                                  *)
(***************************************************************************)
EXTENDS SupportZones, ReclaimEngine, Data_proofs, FiniteSetTheorems, SequenceTheorems, TLAPS

\* The first index with some property, 0 without one.
FirstOf(I) == IF I # {} THEN Min(I) ELSE 0

\* What a search for the first index finds.
LEMMA FirstIndex ==
    ASSUME NEW n \in Nat, NEW I, I \subseteq 1..n
    PROVE  /\ FirstOf(I) \in 0..n
           /\ FirstOf(I) = 0 => I = {}
           /\ FirstOf(I) # 0 => FirstOf(I) \in I /\ \A y \in I : FirstOf(I) <= y
<1>1. CASE I = {}
  BY <1>1 DEF FirstOf
<1>2. CASE I # {}
  <2>1. I \subseteq Nat
    OBVIOUS
  <2>2. Min(I) \in I /\ \A y \in I : Min(I) <= y
    BY <1>2, <2>1, MinOfNaturals
  <2>3. FirstOf(I) = Min(I)
    BY <1>2 DEF FirstOf
  <2>4. Min(I) \in 1..n
    BY <2>2
  <2> QED
    BY <2>2, <2>3, <2>4
<1> QED
  BY <1>1, <1>2

\* More indices, all of them later, do not change where a search ended.
LEMMA FirstIndexStands ==
    ASSUME NEW n \in Nat, NEW I, NEW J, I \subseteq 1..n, J \subseteq 1..(n + 1),
           \A i \in 1..n : i \in I <=> i \in J
    PROVE  /\ FirstOf(I) # 0 => FirstOf(J) = FirstOf(I)
           /\ FirstOf(I) = 0 => FirstOf(J) \in {0, n + 1}
<1>1. /\ FirstOf(I) \in 0..n
      /\ FirstOf(I) = 0 => I = {}
      /\ FirstOf(I) # 0 => FirstOf(I) \in I /\ \A y \in I : FirstOf(I) <= y
  BY FirstIndex
<1>2. /\ FirstOf(J) \in 0..(n + 1)
      /\ FirstOf(J) = 0 => J = {}
      /\ FirstOf(J) # 0 => FirstOf(J) \in J /\ \A y \in J : FirstOf(J) <= y
  <2>1. n + 1 \in Nat
    OBVIOUS
  <2> QED
    BY <2>1, FirstIndex
<1> QED
  BY <1>1, <1>2
----------------------------------------------------------------------------
(* Comprehensions *)

\* f is what is left of list up to every position.
Keeps(f, list, positions) ==
    /\ f[0] = <<>>
    /\ \A i \in 1..Len(list) :
         f[i] = IF i \in positions THEN Append(f[i - 1], list[i]) ELSE f[i - 1]

\* A comprehension goes through its list one position after the other.
LEMMA KeptSteps ==
    ASSUME NEW S, NEW list \in Seq(S), NEW positions
    PROVE  \E f \in [0..Len(list) -> Seq(S)] :
             Keeps(f, list, positions) /\ Kept(list, positions) = f[Len(list)]
<1> DEFINE n == Len(list)
           idx == [i \in DOMAIN list |-> i]
           Step(kept, i) == IF i \in positions THEN Append(kept, list[i]) ELSE kept
           op == [kept \in Seq(S) |-> [i \in 1..n |-> Step(kept, i)]]
           Folds(g) == g = [s \in SUBSET DOMAIN idx |->
                              IF s = {} THEN <<>> ELSE Step(g[s \ {Max(s)}], idx[Max(s)])]
<1>1. n \in Nat /\ DOMAIN list = 1..n /\ DOMAIN idx = 1..n
  OBVIOUS
<1>2. idx \in Seq(1..n) /\ \A i \in 1..n : idx[i] = i
  BY <1>1
<1> HIDE DEF idx
<1>3. \A kept \in Seq(S), i \in 1..n : Step(kept, i) \in Seq(S)
  BY <1>1
<1> HIDE DEF Step
<1>4. op \in [Seq(S) -> [1..n -> Seq(S)]] /\ <<>> \in Seq(S)
  BY <1>3
<1>5. PICK it \in [SUBSET DOMAIN idx -> Seq(S)] : IsFold(it, <<>>, idx, op)
  <2> HIDE DEF op, n
  <2> QED
    BY <1>2, <1>4, FoldExists
<1>6. Folds(it)
  <2>1. ASSUME NEW s \in SUBSET DOMAIN idx, s # {}
        PROVE  op[it[s \ {Max(s)}]][idx[Max(s)]] = Step(it[s \ {Max(s)}], idx[Max(s)])
    <3>1. s \subseteq 0..n
      BY <1>1
    <3>2. Max(s) \in 1..n
      <4> HIDE DEF n
      <4> QED
        BY <1>1, <2>1, <3>1, MaxOfBounded
    <3>3. idx[Max(s)] \in 1..n /\ s \ {Max(s)} \in SUBSET DOMAIN idx
      BY <1>2, <3>2
    <3>4. it[s \ {Max(s)}] \in Seq(S)
      BY <3>3
    <3> QED
      BY <3>3, <3>4
  <2> HIDE DEF op
  <2> QED
    BY <1>5, <2>1 DEF IsFold
<1> DEFINE g == CHOOSE g : Folds(g)
<1>7. Kept(list, positions) = g[DOMAIN idx]
  BY DEF Kept, FoldLeft, MapThenFoldSet, idx, Step
<1>8. Folds(g)
  <2> HIDE DEF Folds
  <2> QED
    BY <1>6
<1> HIDE DEF g, op
<1> DEFINE f == [i \in 0..n |-> g[1..i]]
<1>9. f[0] = <<>>
  <2>1. g[{}] = <<>>
    BY <1>8
  <2>2. 1..0 = {} /\ 0 \in 0..n
    BY <1>1
  <2> QED
    BY <2>1, <2>2
<1>10. ASSUME NEW i \in 1..n PROVE f[i] = Step(f[i - 1], i)
  <2>1. /\ Max(1..i) = i /\ (1..i) \ {i} = 1..(i - 1) /\ i \in 1..i
        /\ 1..i \in SUBSET (1..n)
    <3> HIDE DEF n
    <3> QED
      BY <1>1, PrefixSets
  <2>2. g[1..i] = Step(g[(1..i) \ {Max(1..i)}], idx[Max(1..i)])
    BY <1>1, <1>8, <2>1
  <2>3. g[1..i] = Step(g[1..(i - 1)], i)
    BY <1>2, <2>1, <2>2
  <2>4. i \in 0..n /\ i - 1 \in 0..n
    BY <1>1
  <2>5. f[i] = g[1..i] /\ f[i - 1] = g[1..(i - 1)]
    BY <2>4
  <2> QED
    BY <2>3, <2>5
<1>11. f[n] = g[DOMAIN idx]
  BY <1>1
<1> DEFINE Lists == {i \in 0..n : f[i] \in Seq(S)}
<1> HIDE DEF f
<1>12. 0..n \subseteq Lists
  <2>1. f[0] \in Seq(S)
    BY <1>4, <1>9, Zenon
  <2>2. 0 \in Lists
    BY <1>1, <2>1
  <2>3. ASSUME NEW i \in 1..n, i - 1 \in Lists PROVE i \in Lists
    BY <1>3, <1>10, <2>3
  <2> HIDE DEF Lists, n
  <2> QED
    BY <1>1, <2>2, <2>3, SetInduction
<1>13. f \in [0..n -> Seq(S)]
  <2>1. \A i \in 0..n : f[i] \in Seq(S)
    BY <1>12
  <2> QED
    BY <2>1 DEF f
<1> QED
  BY <1>7, <1>9, <1>10, <1>11, <1>13 DEF Step, Keeps

\* It leaves the elements at its positions, in their order and each of them.
LEMMA KeptElements ==
    ASSUME NEW S, NEW list \in Seq(S), NEW positions
    PROVE  /\ Kept(list, positions) \in Seq(S)
           /\ \E pos \in [1..Len(Kept(list, positions)) -> 1..Len(list)] :
                /\ \A m \in 1..Len(Kept(list, positions)) :
                     pos[m] \in positions /\ Kept(list, positions)[m] = list[pos[m]]
                /\ \A l, m \in 1..Len(Kept(list, positions)) : l < m => pos[l] < pos[m]
                /\ \A i \in 1..Len(list) : i \in positions
                     => \E m \in 1..Len(Kept(list, positions)) : pos[m] = i
<1> DEFINE n == Len(list)
<1>0. PICK f \in [0..n -> Seq(S)] : Keeps(f, list, positions) /\ Kept(list, positions) = f[n]
  BY KeptSteps
<1>1. /\ f[0] = <<>>
      /\ \A i \in 1..n :
           f[i] = IF i \in positions THEN Append(f[i - 1], list[i]) ELSE f[i - 1]
      /\ Kept(list, positions) = f[n]
  BY <1>0 DEF Keeps
<1>2. n \in Nat
  OBVIOUS
<1> DEFINE Selects(i, pos) ==
             /\ pos \in [1..Len(f[i]) -> 1..i]
             /\ \A m \in 1..Len(f[i]) : pos[m] \in positions /\ f[i][m] = list[pos[m]]
             /\ \A l, m \in 1..Len(f[i]) : l < m => pos[l] < pos[m]
             /\ \A k \in 1..i : k \in positions => \E m \in 1..Len(f[i]) : pos[m] = k
           Done == {i \in 0..n : \E pos : Selects(i, pos)}
<1>3. 0 \in Done
  <2> DEFINE pos == [m \in 1..0 |-> m]
  <2>1. Selects(0, pos)
    BY <1>1
  <2> HIDE DEF Selects
  <2> QED
    BY <1>2, <2>1
<1>4. ASSUME NEW i \in 1..n, i - 1 \in Done PROVE i \in Done
  <2>1. PICK pos : Selects(i - 1, pos)
    BY <1>4
  <2>2. f[i - 1] \in Seq(S) /\ i \in 0..n /\ i \in Nat /\ list[i] \in S
    BY <1>1, <1>2
  <2>3. CASE i \notin positions
    <3>1. f[i] = f[i - 1]
      BY <1>1, <2>3
    <3>2. \A k \in 1..i : k \in positions => k \in 1..(i - 1)
      BY <2>2, <2>3
    <3>3. \A k \in 1..(i - 1) : k \in 1..i
      BY <2>2
    <3>4. Selects(i, pos)
      BY <2>1, <3>1, <3>2, <3>3
    <3> HIDE DEF Selects
    <3> QED
      BY <2>2, <3>4
  <2>4. CASE i \in positions
    <3> DEFINE l == Len(f[i - 1])
               new == [m \in 1..(l + 1) |-> IF m = l + 1 THEN i ELSE pos[m]]
    <3>1. /\ f[i] = Append(f[i - 1], list[i]) /\ l \in Nat /\ Len(f[i]) = l + 1
          /\ f[i][l + 1] = list[i] /\ \A m \in 1..l : f[i][m] = f[i - 1][m]
      <4>1. f[i] = Append(f[i - 1], list[i])
        BY <1>1, <2>4, Zenon
      <4> QED
        BY <2>2, <4>1
    <3>2. /\ pos \in [1..l -> 1..(i - 1)]
          /\ \A m \in 1..l : pos[m] \in positions /\ f[i - 1][m] = list[pos[m]]
          /\ \A k, m \in 1..l : k < m => pos[k] < pos[m]
          /\ \A k \in 1..(i - 1) : k \in positions => \E m \in 1..l : pos[m] = k
      BY <2>1
    <3> HIDE DEF l
    <3>3. /\ new[l + 1] = i /\ l + 1 \in 1..(l + 1)
          /\ \A m \in 1..l : new[m] = pos[m] /\ m \in 1..(l + 1)
          /\ \A m \in 1..(l + 1) : m = l + 1 \/ m \in 1..l
      BY <3>1
    <3>4. new \in [1..(l + 1) -> 1..i]
      BY <2>2, <3>1, <3>2
    <3> HIDE DEF new
    <3>5. ASSUME NEW m \in 1..(l + 1)
          PROVE  new[m] \in positions /\ f[i][m] = list[new[m]]
      BY <2>4, <3>1, <3>2, <3>3
    <3>6. ASSUME NEW k \in 1..(l + 1), NEW m \in 1..(l + 1), k < m
          PROVE  new[k] < new[m]
      <4>1. k \in 1..l /\ new[k] = pos[k]
        BY <3>1, <3>3, <3>6
      <4>2. CASE m = l + 1
        BY <2>2, <3>2, <3>3, <4>1, <4>2
      <4>3. CASE m \in 1..l
        BY <3>2, <3>3, <3>6, <4>1, <4>3
      <4> QED
        BY <3>3, <4>2, <4>3
    <3>7. ASSUME NEW k \in 1..i, k \in positions
          PROVE  \E m \in 1..(l + 1) : new[m] = k
      <4>1. k = i \/ k \in 1..(i - 1)
        BY <2>2
      <4> QED
        BY <3>2, <3>3, <3>7, <4>1
    <3>8. Selects(i, new)
      BY <3>1, <3>4, <3>5, <3>6, <3>7
    <3> HIDE DEF Selects
    <3> QED
      BY <2>2, <3>8
  <2> QED
    BY <2>3, <2>4
<1>5. n \in Done
  <2> HIDE DEF Done, n
  <2>1. 0..n \subseteq Done
    BY <1>2, <1>3, <1>4, SetInduction
  <2> QED
    BY <1>2, <2>1
<1>6. PICK pos : Selects(n, pos)
  BY <1>5
<1>7. f[n] \in Seq(S)
  BY <1>1, <1>2
<1> DEFINE kept == f[n]
<1>8. /\ pos \in [1..Len(kept) -> 1..n]
      /\ \A m \in 1..Len(kept) : pos[m] \in positions /\ kept[m] = list[pos[m]]
      /\ \A l, m \in 1..Len(kept) : l < m => pos[l] < pos[m]
      /\ \A i \in 1..n : i \in positions => \E m \in 1..Len(kept) : pos[m] = i
  BY <1>6, Zenon
<1>9. kept = Kept(list, positions) /\ kept \in Seq(S)
  BY <1>1, <1>7
<1> HIDE DEF kept, Selects, Done
<1> QED
  BY <1>8, <1>9, Zenon

\* Where nothing is left out, it leaves the list.
LEMMA KeptAll ==
    ASSUME NEW S, NEW list \in Seq(S), NEW positions, DOMAIN list \subseteq positions
    PROVE  Kept(list, positions) = list
<1> DEFINE n == Len(list)
<1>0. PICK f \in [0..n -> Seq(S)] : Keeps(f, list, positions) /\ Kept(list, positions) = f[n]
  BY KeptSteps
<1>1. /\ f[0] = <<>>
      /\ \A i \in 1..n :
           f[i] = IF i \in positions THEN Append(f[i - 1], list[i]) ELSE f[i - 1]
      /\ Kept(list, positions) = f[n]
  BY <1>0 DEF Keeps
<1>2. n \in Nat /\ DOMAIN list = 1..n
  OBVIOUS
<1> DEFINE Done == {i \in 0..n : Len(f[i]) = i /\ \A k \in 1..i : f[i][k] = list[k]}
<1>3. 0 \in Done
  BY <1>1, <1>2
<1>4. ASSUME NEW i \in 1..n, i - 1 \in Done PROVE i \in Done
  <2>1. /\ f[i - 1] \in Seq(S) /\ i \in 0..n /\ list[i] \in S /\ i \in Nat
        /\ f[i] = Append(f[i - 1], list[i])
    <3>1. f[i] = Append(f[i - 1], list[i])
      BY <1>1, <1>2, Zenon
    <3>2. i - 1 \in 0..n /\ i \in 0..n /\ i \in Nat /\ list[i] \in S
      BY <1>2
    <3> QED
      BY <1>1, <3>1, <3>2
  <2>2. Len(f[i - 1]) = i - 1 /\ \A k \in 1..(i - 1) : f[i - 1][k] = list[k]
    BY <1>4
  <2>3. Len(f[i]) = i /\ f[i][i] = list[i] /\ \A k \in 1..(i - 1) : f[i][k] = f[i - 1][k]
    BY <2>1, <2>2
  <2>4. \A k \in 1..i : k = i \/ k \in 1..(i - 1)
    BY <2>1
  <2>5. \A k \in 1..i : f[i][k] = list[k]
    BY <2>2, <2>3, <2>4
  <2> QED
    BY <2>1, <2>3, <2>5
<1>5. n \in Done
  <2> HIDE DEF Done, n
  <2>1. 0..n \subseteq Done
    BY <1>2, <1>3, <1>4, SetInduction
  <2> QED
    BY <1>2, <2>1
<1>6. f[n] \in Seq(S) /\ Len(f[n]) = n /\ \A k \in 1..n : f[n][k] = list[k]
  BY <1>1, <1>2, <1>5
<1>7. f[n] = list
  <2> HIDE DEF n
  <2> QED
    BY <1>2, <1>6 DEF n
<1> QED
  BY <1>1, <1>7
----------------------------------------------------------------------------
(* The verdict on a break *)

\* The candles that each search of the engine looks for.
Successes(zone, interval, cs) ==
    LET n == RequiredCloses(interval)
    IN {i \in n..Len(cs) : \A k \in (i - n + 1)..i : cs[k].close > zone.high}

AttemptsZone(zone, c) == c.high * 10000 >= zone.low * (10000 + MinAttempt)

Attempts(zone, cs) == {i \in 1..Len(cs) : AttemptsZone(zone, cs[i])}
Rejections(zone, cs) == {i \in 1..Len(cs) : Rejects(zone, cs[i])}
Triggers(cs, j) == {k \in (j + 1)..Len(cs) : cs[k].close < cs[j].low}

\* Each of them finds the first one.
LEMMA Searches ==
    /\ \A zone, interval, cs :
         SuccessIndex(zone, interval, cs) = FirstOf(Successes(zone, interval, cs))
    /\ \A zone, cs : AttemptIndex(zone, cs) = FirstOf(Attempts(zone, cs))
    /\ \A cs, j : TriggerIndex(cs, j) = FirstOf(Triggers(cs, j))
<1>1. \A zone, interval, cs :
        SuccessIndex(zone, interval, cs) = FirstOf(Successes(zone, interval, cs))
  BY DEF SuccessIndex, FirstOf, Successes
<1>2. \A zone, cs : AttemptIndex(zone, cs) = FirstOf(Attempts(zone, cs))
  BY DEF AttemptIndex, SelectInSeq, FirstOf, Attempts, AttemptsZone
<1>3. \A cs, j : TriggerIndex(cs, j) = FirstOf(Triggers(cs, j))
  BY DEF TriggerIndex, FirstOf, Triggers
<1> QED
  BY <1>1, <1>2, <1>3

\* What a verdict says of its outcome.
LEMMA VerdictOutcome ==
    ASSUME NEW zone, NEW interval, NEW outcome, NEW from, NEW to, NEW considered
    PROVE  LET v == Verdict(zone, interval, outcome, from, to, considered)
           IN /\ v.outcome = outcome /\ v.readiness = Readiness(outcome)
              /\ v.started_at = from /\ v.observed_at = to
BY DEF Verdict

\* Without an attempt on the zone the verdict is one of three.
LEMMA UnattemptedOutcome ==
    ASSUME NEW zone, NEW break, NEW broken, NEW interval, NEW cs
    PROVE  LET v == Unattempted(zone, break, broken, interval, cs)
           IN /\ v.outcome \in {"CONTINUATION", "EXPIRED", "NO_ATTEMPT"}
              /\ v.readiness = Readiness(v.outcome)
<1>1. \A o, considered :
        LET v == Spanning(zone, interval, o, considered)
        IN v.outcome = o /\ v.readiness = Readiness(o)
  BY VerdictOutcome DEF Spanning
<1> QED
  BY <1>1 DEF Unattempted, Continuation, Spanning, Verdict

\* On an attempt it is one of four, by what the two searches find.
LEMMA AttemptedOutcome ==
    ASSUME NEW zone, NEW broken, NEW interval, NEW cs
    PROVE  LET v == Attempted(zone, broken, interval, cs)
               limited == PullbackWindow(cs)
               j == FirstOf(Rejections(zone, limited))
               k == FirstOf(Triggers(cs, j))
           IN /\ v.readiness = Readiness(v.outcome)
              /\ j = 0 => v.outcome = IF Len(cs) > MaxPullback THEN "INVALIDATED"
                                      ELSE "ATTEMPTING"
              /\ j # 0 =>
                   /\ v.outcome = IF k = 0 THEN "FAILED_RECLAIM" ELSE "FAILED_PULLBACK"
                   /\ v.started_at = cs[1].open_time
                   /\ v.rejection = limited[j].open_time /\ v.rejection_low = limited[j].low
                   /\ k # 0 => v.trigger = cs[k].open_time /\ v.observed_at = cs[k].close_time
<1> DEFINE limited == PullbackWindow(cs)
           j == FirstOf(Rejections(zone, limited))
           k == FirstOf(Triggers(cs, j))
           v == Attempted(zone, broken, interval, cs)
<1>1. SelectInSeq(limited, LAMBDA c : Rejects(zone, c)) = j
  BY DEF SelectInSeq, FirstOf, Rejections
<1>2. TriggerIndex(cs, j) = k
  BY Searches
<1> HIDE DEF limited, j, k
<1>3. CASE j = 0
  <2>1. v = IF Len(cs) > MaxPullback THEN Spanning(zone, interval, "INVALIDATED", limited)
            ELSE Spanning(zone, interval, "ATTEMPTING", cs)
    BY <1>1, <1>3 DEF Attempted, limited
  <2> QED
    BY <1>3, <2>1, VerdictOutcome DEF Spanning, j, k, limited
<1>4. CASE j # 0
  <2> DEFINE base == Verdict(zone, interval,
                             IF k = 0 THEN "FAILED_RECLAIM" ELSE "FAILED_PULLBACK",
                             cs[1].open_time,
                             IF k = 0 THEN limited[j].close_time ELSE cs[k].close_time,
                             Take(limited, j))
  <2>1. v = [base EXCEPT !.rejection = limited[j].open_time, !.rejection_low = limited[j].low,
                         !.trigger = IF k = 0 THEN None ELSE cs[k].open_time,
                         !.quality = Quality(zone, MaxHigh(Take(limited, j)), limited[j],
                                             VolumeRatio(Take(limited, j), broken), j, k # 0)]
    BY <1>1, <1>2, <1>4 DEF Attempted, limited
  <2>2. /\ v.outcome = base.outcome /\ v.readiness = base.readiness
        /\ v.started_at = base.started_at /\ v.observed_at = base.observed_at
        /\ v.rejection = limited[j].open_time /\ v.rejection_low = limited[j].low
        /\ v.trigger = IF k = 0 THEN None ELSE cs[k].open_time
    BY <2>1 DEF Verdict
  <2>3. /\ base.outcome = IF k = 0 THEN "FAILED_RECLAIM" ELSE "FAILED_PULLBACK"
        /\ base.readiness = Readiness(base.outcome)
        /\ base.started_at = cs[1].open_time
        /\ base.observed_at = IF k = 0 THEN limited[j].close_time ELSE cs[k].close_time
    BY VerdictOutcome
  <2> HIDE DEF base, v
  <2>4. /\ v.outcome = IF k = 0 THEN "FAILED_RECLAIM" ELSE "FAILED_PULLBACK"
        /\ v.readiness = Readiness(v.outcome) /\ v.started_at = cs[1].open_time
        /\ v.rejection = limited[j].open_time /\ v.rejection_low = limited[j].low
        /\ k # 0 => v.trigger = cs[k].open_time /\ v.observed_at = cs[k].close_time
    BY <2>2, <2>3
  <2> QED
    BY <1>4, <2>4 DEF v, j, k, limited
<1> QED
  BY <1>3, <1>4

\* The setup is cancelled exactly on a reclaim: a run of as many closes above
\* the zone as the interval requires, at any place after the break; no attempt,
\* rejection or quality outweighs it.  For all rules and candles.
THEOREM CancelledExactly ==
    ASSUME NEW zone, NEW break, NEW broken, NEW interval, NEW S, NEW cs \in Seq(S)
    PROVE  LET v == JudgeBreak(zone, break, broken, interval, cs)
               n == RequiredCloses(interval)
           IN /\ v.readiness = "CANCELLED" <=> v.outcome = "SUCCESSFUL_RECLAIM"
              /\ v.readiness = "CANCELLED" <=>
                   \E i \in n..Len(cs) : \A k \in (i - n + 1)..i : cs[k].close > zone.high
<1> DEFINE v == JudgeBreak(zone, break, broken, interval, cs)
           n == RequiredCloses(interval)
           I == Successes(zone, interval, cs)
           s == FirstOf(I)
           a == FirstOf(Attempts(zone, cs))
<1>1. n \in Nat \ {0} /\ Len(cs) \in Nat
  BY ReclaimRulesAssumption DEF RequiredCloses
<1>2. I \subseteq 1..Len(cs)
  BY <1>1 DEF Successes
<1>3. s # 0 <=> I # {}
  BY <1>1, <1>2, FirstIndex
<1>4. I # {} <=> \E i \in n..Len(cs) : \A k \in (i - n + 1)..i : cs[k].close > zone.high
  BY DEF Successes
<1>5. /\ SuccessIndex(zone, interval, cs) = s
      /\ AttemptIndex(zone, cs) = a
  BY Searches
<1> HIDE DEF n, I, s, a
<1>6. CASE cs = <<>>
  <2>1. I = {}
    BY <1>2, <1>6
  <2>2. v.outcome = "NO_ATTEMPT" /\ v.readiness = Readiness("NO_ATTEMPT")
    BY <1>6, VerdictOutcome DEF JudgeBreak
  <2> QED
    BY <1>4, <2>1, <2>2 DEF Readiness, n
<1>7. CASE cs # <<>> /\ s # 0
  <2>1. v = Spanning(zone, interval, "SUCCESSFUL_RECLAIM", Take(cs, s))
    BY <1>5, <1>7 DEF JudgeBreak
  <2>2. v.outcome = "SUCCESSFUL_RECLAIM" /\ v.readiness = Readiness("SUCCESSFUL_RECLAIM")
    BY <2>1, VerdictOutcome DEF Spanning
  <2> QED
    BY <1>3, <1>4, <1>7, <2>2 DEF Readiness, n
<1>8. CASE cs # <<>> /\ s = 0
  <2>1. v \in {Unattempted(zone, break, broken, interval, cs),
               Attempted(zone, broken, interval, From(cs, a))}
    BY <1>5, <1>8 DEF JudgeBreak
  <2>2. /\ v.readiness = Readiness(v.outcome)
        /\ v.outcome \in {"CONTINUATION", "EXPIRED", "NO_ATTEMPT", "INVALIDATED", "ATTEMPTING",
                          "FAILED_RECLAIM", "FAILED_PULLBACK"}
    BY <2>1, UnattemptedOutcome, AttemptedOutcome
  <2>3. v.readiness # "CANCELLED" /\ v.outcome # "SUCCESSFUL_RECLAIM"
    BY <2>2 DEF Readiness
  <2> QED
    BY <1>3, <1>4, <1>8, <2>3 DEF n
<1> QED
  BY <1>6, <1>7, <1>8

\* The slices that the engine takes of a sequence.
LEMMA Slices ==
    ASSUME NEW S, NEW cs \in Seq(S)
    PROVE  /\ \A n \in 1..Len(cs) :
                /\ From(cs, n) \in Seq(S) /\ Len(From(cs, n)) = Len(cs) - n + 1
                /\ \A i \in 1..Len(From(cs, n)) : From(cs, n)[i] = cs[n + i - 1]
           /\ \A n \in Nat : /\ Take(cs, n) \in Seq(S)
                             /\ Len(Take(cs, n)) = IF Len(cs) < n THEN Len(cs) ELSE n
                             /\ \A i \in 1..Len(Take(cs, n)) : Take(cs, n)[i] = cs[i]
<1>1. ASSUME NEW n \in 1..Len(cs)
      PROVE  /\ From(cs, n) \in Seq(S) /\ Len(From(cs, n)) = Len(cs) - n + 1
             /\ \A i \in 1..Len(From(cs, n)) : From(cs, n)[i] = cs[n + i - 1]
  BY DEF From
<1>2. ASSUME NEW n \in Nat
      PROVE  /\ Take(cs, n) \in Seq(S)
             /\ Len(Take(cs, n)) = IF Len(cs) < n THEN Len(cs) ELSE n
             /\ \A i \in 1..Len(Take(cs, n)) : Take(cs, n)[i] = cs[i]
  BY DEF Take
<1> QED
  BY <1>1, <1>2

\* The beginning of a sequence does not change when a candle is appended, and
\* the rest of it is appended to.
LEMMA SlicesOfAppend ==
    ASSUME NEW S, NEW cs \in Seq(S), NEW c \in S
    PROVE  /\ \A n \in 0..Len(cs) : Take(Append(cs, c), n) = Take(cs, n)
           /\ \A n \in 1..Len(cs) : From(Append(cs, c), n) = Append(From(cs, n), c)
<1>1. ASSUME NEW n \in 0..Len(cs) PROVE Take(Append(cs, c), n) = Take(cs, n)
  BY DEF Take
<1>2. ASSUME NEW n \in 1..Len(cs)
      PROVE  From(Append(cs, c), n) = Append(From(cs, n), c)
  BY DEF From
<1> QED
  BY <1>1, <1>2

\* One more candle revises neither a qualified pullback nor an invalidated one.
LEMMA AttemptStands ==
    ASSUME NEW zone, NEW broken, NEW interval, NEW S, NEW cs \in Seq(S), NEW c \in S,
           Attempted(zone, broken, interval, cs).outcome \in {"FAILED_PULLBACK", "INVALIDATED"}
    PROVE  Attempted(zone, broken, interval, Append(cs, c))
             = Attempted(zone, broken, interval, cs)
<1> DEFINE more == Append(cs, c)
           old == PullbackWindow(cs)
           new == PullbackWindow(more)
           j == FirstOf(Rejections(zone, old))
           i == FirstOf(Rejections(zone, new))
<1>1. /\ Len(cs) \in Nat /\ Len(more) = Len(cs) + 1 /\ MaxPullback \in Nat \ {0}
      /\ \A k \in 1..Len(cs) : more[k] = cs[k]
  BY ReclaimRulesAssumption
<1>2. /\ SelectInSeq(old, LAMBDA b : Rejects(zone, b)) = j
      /\ SelectInSeq(new, LAMBDA b : Rejects(zone, b)) = i
  BY DEF SelectInSeq, FirstOf, Rejections
<1>3. /\ old \in Seq(S) /\ old = Take(cs, MaxPullback) /\ new = Take(more, MaxPullback)
      /\ Len(old) = IF Len(cs) < MaxPullback THEN Len(cs) ELSE MaxPullback
  BY <1>1, Slices DEF PullbackWindow
<1>4. MaxPullback <= Len(cs) => new = old
  BY <1>1, <1>3, SlicesOfAppend
<1>5. Len(cs) < MaxPullback => old = cs /\ new = more
  BY <1>1 DEF PullbackWindow, Take
<1>6. /\ Len(old) \in Nat /\ Len(new) \in {Len(old), Len(old) + 1}
      /\ \A k \in 1..Len(old) : new[k] = old[k]
  BY <1>1, <1>3, <1>4, <1>5
<1>7. new = old \/ new = Append(old, c)
  BY <1>1, <1>4, <1>5
<1>8. j \in 0..Len(old) /\ (j # 0 => i = j)
  <2>1. /\ Rejections(zone, old) \subseteq 1..Len(old)
        /\ Rejections(zone, new) \subseteq 1..(Len(old) + 1)
        /\ \A k \in 1..Len(old) : k \in Rejections(zone, old) <=> k \in Rejections(zone, new)
    BY <1>6 DEF Rejections
  <2> QED
    BY <1>6, <2>1, FirstIndex, FirstIndexStands
<1> HIDE DEF old, new, i, j, more
<1>9. CASE j = 0
  <2>1. Len(cs) > MaxPullback
    BY <1>9, AttemptedOutcome DEF j, old
  <2>2. new = old /\ i = j /\ Len(more) > MaxPullback
    BY <1>1, <1>4, <2>1 DEF i, j
  <2>3. /\ Attempted(zone, broken, interval, cs) = Spanning(zone, interval, "INVALIDATED", old)
        /\ Attempted(zone, broken, interval, more) = Spanning(zone, interval, "INVALIDATED", new)
    BY <1>2, <1>9, <2>1, <2>2 DEF Attempted, old, new
  <2> QED
    BY <2>2, <2>3 DEF more
<1>10. CASE j # 0
  <2> DEFINE k == FirstOf(Triggers(cs, j))
             m == FirstOf(Triggers(more, j))
  <2>1. k # 0
    BY <1>10, AttemptedOutcome DEF j, old
  <2>2. j \in 1..Len(cs)
    BY <1>1, <1>3, <1>8, <1>10
  <2>3. /\ Triggers(cs, j) \subseteq 1..Len(cs) /\ Triggers(more, j) \subseteq 1..(Len(cs) + 1)
        /\ \A n \in 1..Len(cs) : n \in Triggers(cs, j) <=> n \in Triggers(more, j)
    BY <1>1, <2>2 DEF Triggers
  <2>4. k \in 1..Len(cs) /\ m = k
    BY <1>1, <2>1, <2>3, FirstIndex, FirstIndexStands
  <2>5. TriggerIndex(cs, j) = k /\ TriggerIndex(more, j) = k
    BY <2>4, Searches
  <2>6. Take(new, j) = Take(old, j) /\ new[j] = old[j] /\ more[k] = cs[k] /\ more[1] = cs[1]
    <3>1. \A n \in 0..Len(old) : Take(Append(old, c), n) = Take(old, n)
      BY <1>3, SlicesOfAppend
    <3>2. Take(new, j) = Take(old, j)
      BY <1>7, <1>8, <3>1
    <3>3. new[j] = old[j]
      BY <1>6, <1>8, <1>10
    <3>4. more[k] = cs[k] /\ more[1] = cs[1]
      BY <1>1, <2>2, <2>4
    <3> QED
      BY <3>2, <3>3, <3>4
  <2> HIDE DEF k, m
  <2> QED
    BY <1>2, <1>8, <1>10, <2>1, <2>5, <2>6 DEF Attempted, old, new, more
<1> QED
  BY <1>9, <1>10

\* A verdict that decides the attempt is not revised by a later candle: a
\* cancellation never is, and a qualified or invalidated pullback stays as it
\* is until a reclaim cancels it.  For all rules and candles.
THEOREM VerdictStands ==
    ASSUME NEW zone, NEW break, NEW broken, NEW interval, NEW S, NEW cs \in Seq(S), NEW c \in S
    PROVE  LET old == JudgeBreak(zone, break, broken, interval, cs)
               new == JudgeBreak(zone, break, broken, interval, Append(cs, c))
           IN /\ old.outcome = "SUCCESSFUL_RECLAIM" => new = old
              /\ old.outcome \in {"FAILED_PULLBACK", "INVALIDATED"}
                   => new = old \/ new.outcome = "SUCCESSFUL_RECLAIM"
<1> DEFINE more == Append(cs, c)
           old == JudgeBreak(zone, break, broken, interval, cs)
           new == JudgeBreak(zone, break, broken, interval, more)
           s == FirstOf(Successes(zone, interval, cs))
           t == FirstOf(Successes(zone, interval, more))
           a == FirstOf(Attempts(zone, cs))
           b == FirstOf(Attempts(zone, more))
           n == RequiredCloses(interval)
<1>1. /\ Len(cs) \in Nat /\ Len(more) = Len(cs) + 1 /\ n \in Nat \ {0} /\ more # <<>>
      /\ \A k \in 1..Len(cs) : more[k] = cs[k]
  BY ReclaimRulesAssumption DEF RequiredCloses
<1>2. s \in 0..Len(cs) /\ (s # 0 => t = s)
  <2>1. /\ Successes(zone, interval, cs) \subseteq 1..Len(cs)
        /\ Successes(zone, interval, more) \subseteq 1..(Len(cs) + 1)
    BY <1>1 DEF Successes
  <2>2. ASSUME NEW k \in 1..Len(cs)
        PROVE  k \in Successes(zone, interval, cs) <=> k \in Successes(zone, interval, more)
    BY <1>1 DEF Successes
  <2> QED
    BY <1>1, <2>1, <2>2, FirstIndex, FirstIndexStands
<1>3. a \in 0..Len(cs) /\ (a # 0 => b = a)
  <2>1. /\ Attempts(zone, cs) \subseteq 1..Len(cs)
        /\ Attempts(zone, more) \subseteq 1..(Len(cs) + 1)
        /\ \A k \in 1..Len(cs) : k \in Attempts(zone, cs) <=> k \in Attempts(zone, more)
    BY <1>1 DEF Attempts
  <2> QED
    BY <1>1, <2>1, FirstIndex, FirstIndexStands
<1>4. /\ SuccessIndex(zone, interval, cs) = s /\ SuccessIndex(zone, interval, more) = t
      /\ AttemptIndex(zone, cs) = a /\ AttemptIndex(zone, more) = b
  BY Searches
<1> HIDE DEF more, n, s, t, a, b
<1>5. CASE cs = <<>>
  <2>1. old.outcome = "NO_ATTEMPT"
    BY <1>5, VerdictOutcome DEF JudgeBreak
  <2> QED
    BY <2>1
<1>6. CASE cs # <<>> /\ s # 0
  <2>1. /\ old = Spanning(zone, interval, "SUCCESSFUL_RECLAIM", Take(cs, s))
        /\ new = Spanning(zone, interval, "SUCCESSFUL_RECLAIM", Take(more, s))
    BY <1>1, <1>2, <1>4, <1>6 DEF JudgeBreak
  <2>2. Take(more, s) = Take(cs, s)
    BY <1>2, SlicesOfAppend DEF more
  <2>3. new = old
    BY <2>1, <2>2
  <2> QED
    BY <2>3 DEF more
<1>7. CASE cs # <<>> /\ s = 0 /\ a = 0
  <2>1. old = Unattempted(zone, break, broken, interval, cs)
    BY <1>4, <1>7 DEF JudgeBreak
  <2>2. old.outcome \in {"CONTINUATION", "EXPIRED", "NO_ATTEMPT"}
    BY <2>1, UnattemptedOutcome
  <2> QED
    BY <2>2
<1>8. CASE cs # <<>> /\ s = 0 /\ a # 0
  <2>1. old = Attempted(zone, broken, interval, From(cs, a))
    BY <1>4, <1>8 DEF JudgeBreak
  <2>2. old.outcome # "SUCCESSFUL_RECLAIM"
    BY <2>1, AttemptedOutcome
  <2>3. CASE t # 0
    <3>1. new = Spanning(zone, interval, "SUCCESSFUL_RECLAIM", Take(more, t))
      BY <1>1, <1>4, <2>3 DEF JudgeBreak
    <3>2. new.outcome = "SUCCESSFUL_RECLAIM"
      BY <3>1, VerdictOutcome DEF Spanning
    <3> QED
      BY <2>2, <3>2 DEF more
  <2>4. CASE t = 0
    <3>1. /\ From(cs, a) \in Seq(S)
          /\ From(more, a) = Append(From(cs, a), c)
      BY <1>3, <1>8, Slices, SlicesOfAppend DEF more
    <3>2. new = Attempted(zone, broken, interval, Append(From(cs, a), c))
      BY <1>1, <1>3, <1>4, <1>8, <2>4, <3>1 DEF JudgeBreak
    <3>3. old.outcome \in {"FAILED_PULLBACK", "INVALIDATED"} => new = old
      BY <2>1, <3>1, <3>2, AttemptStands
    <3> QED
      BY <2>2, <3>3 DEF more
  <2> QED
    BY <2>3, <2>4
<1> QED
  BY <1>5, <1>6, <1>7, <1>8

\* A failed pullback is qualified by candles after the break, in order: the
\* first one that tests the zone, a rejection within the window of the pullback
\* and a later close below its low; the verdict names them.  For all rules and
\* candles.
THEOREM PullbackNamesEvidence ==
    ASSUME NEW zone, NEW break, NEW broken, NEW interval, NEW S, NEW cs \in Seq(S),
           JudgeBreak(zone, break, broken, interval, cs).outcome = "FAILED_PULLBACK"
    PROVE  LET v == JudgeBreak(zone, break, broken, interval, cs)
           IN \E i, j, k \in 1..Len(cs) :
                /\ i <= j /\ j < i + MaxPullback /\ j < k
                /\ AttemptsZone(zone, cs[i])
                /\ \A m \in 1..Len(cs) : m < i => ~AttemptsZone(zone, cs[m])
                /\ Rejects(zone, cs[j])
                /\ cs[k].close < cs[j].low
                /\ v.started_at = cs[i].open_time /\ v.rejection = cs[j].open_time
                /\ v.rejection_low = cs[j].low
                /\ v.trigger = cs[k].open_time /\ v.observed_at = cs[k].close_time
<1> DEFINE v == JudgeBreak(zone, break, broken, interval, cs)
           a == FirstOf(Attempts(zone, cs))
           st == From(cs, a)
           limited == PullbackWindow(st)
           j == FirstOf(Rejections(zone, limited))
           k == FirstOf(Triggers(st, j))
<1>1. Len(cs) \in Nat /\ MaxPullback \in Nat \ {0}
  BY ReclaimRulesAssumption
<1>2. /\ Attempts(zone, cs) \subseteq 1..Len(cs)
      /\ \A m \in 1..Len(cs) : m \in Attempts(zone, cs) <=> AttemptsZone(zone, cs[m])
  BY DEF Attempts
<1>3. /\ a \in 0..Len(cs)
      /\ a # 0 => AttemptsZone(zone, cs[a])
                  /\ \A m \in 1..Len(cs) : m < a => ~AttemptsZone(zone, cs[m])
  BY <1>1, <1>2, FirstIndex
<1>4. a # 0 /\ v = Attempted(zone, broken, interval, st)
  <2>1. AttemptIndex(zone, cs) = a
    BY Searches
  <2>2. /\ cs = <<>> => v.outcome = "NO_ATTEMPT"
        /\ \A t : Spanning(zone, interval, "SUCCESSFUL_RECLAIM", t).outcome
                    = "SUCCESSFUL_RECLAIM"
        /\ Unattempted(zone, break, broken, interval, cs).outcome # "FAILED_PULLBACK"
    BY VerdictOutcome, UnattemptedOutcome DEF JudgeBreak, Spanning
  <2> HIDE DEF a
  <2> QED
    BY <2>1, <2>2 DEF JudgeBreak
<1> HIDE DEF a, v
<1>5. /\ st \in Seq(S) /\ Len(st) = Len(cs) - a + 1
      /\ \A i \in 1..Len(st) : st[i] = cs[a + i - 1]
  <2>1. a \in 1..Len(cs)
    BY <1>1, <1>3, <1>4
  <2>2. \A n \in 1..Len(cs) :
          /\ From(cs, n) \in Seq(S) /\ Len(From(cs, n)) = Len(cs) - n + 1
          /\ \A i \in 1..Len(From(cs, n)) : From(cs, n)[i] = cs[n + i - 1]
    BY Slices
  <2> QED
    BY <2>1, <2>2, Zenon
<1> HIDE DEF st
<1>6. /\ Len(limited) = IF Len(st) < MaxPullback THEN Len(st) ELSE MaxPullback
      /\ \A i \in 1..Len(limited) : limited[i] = st[i]
  BY <1>1, <1>5, Slices DEF PullbackWindow
<1> HIDE DEF limited
<1>7. j # 0 /\ k # 0
  <2>1. v.outcome = "FAILED_PULLBACK"
    BY DEF v
  <2> QED
    BY <1>4, <2>1, AttemptedOutcome DEF limited
<1>8. /\ v.started_at = st[1].open_time /\ v.rejection = limited[j].open_time
      /\ v.rejection_low = limited[j].low
      /\ v.trigger = st[k].open_time /\ v.observed_at = st[k].close_time
  BY <1>4, <1>7, AttemptedOutcome DEF limited
<1>9. j \in 1..Len(limited) /\ Rejects(zone, limited[j])
  <2>1. /\ Len(limited) \in Nat /\ Rejections(zone, limited) \subseteq 1..Len(limited)
        /\ \A m \in Rejections(zone, limited) : Rejects(zone, limited[m])
    BY <1>1, <1>5, <1>6 DEF Rejections
  <2> QED
    BY <1>7, <2>1, FirstIndex
<1>10. k \in (j + 1)..Len(st) /\ st[k].close < st[j].low
  <2>1. /\ Len(st) \in Nat /\ j \in Nat /\ Triggers(st, j) \subseteq 1..Len(st)
        /\ \A m \in Triggers(st, j) : m \in (j + 1)..Len(st) /\ st[m].close < st[j].low
    BY <1>5, <1>6, <1>9 DEF Triggers
  <2> QED
    BY <1>7, <2>1, FirstIndex
<1> HIDE DEF j, k
<1>11. /\ a \in 1..Len(cs) /\ a + j - 1 \in 1..Len(cs) /\ a + k - 1 \in 1..Len(cs)
       /\ st[1] = cs[a] /\ limited[j] = cs[a + j - 1] /\ st[j] = cs[a + j - 1]
       /\ st[k] = cs[a + k - 1]
       /\ a <= a + j - 1 /\ a + j - 1 < a + MaxPullback /\ a + j - 1 < a + k - 1
  BY <1>1, <1>3, <1>4, <1>5, <1>6, <1>9, <1>10
<1> QED
  <2>1. /\ AttemptsZone(zone, cs[a])
        /\ \A m \in 1..Len(cs) : m < a => ~AttemptsZone(zone, cs[m])
        /\ Rejects(zone, cs[a + j - 1]) /\ cs[a + k - 1].close < cs[a + j - 1].low
        /\ v.started_at = cs[a].open_time /\ v.rejection = cs[a + j - 1].open_time
        /\ v.rejection_low = cs[a + j - 1].low
        /\ v.trigger = cs[a + k - 1].open_time /\ v.observed_at = cs[a + k - 1].close_time
    BY <1>3, <1>4, <1>8, <1>9, <1>10, <1>11
  <2> QED
    BY <1>11, <2>1 DEF v
----------------------------------------------------------------------------
(* What the record of an attempt accepts *)

Ohlcv == [open : Int, high : Int, low : Int, close : Int, volume : Int,
          open_time : Int, close_time : Int]

\* Candles that a batch accepts, one after the other.
Chronicle(cs) ==
    /\ cs \in Seq(Ohlcv)
    /\ \A i \in 1..Len(cs) : IsCandle(cs[i])
    /\ \A i, k \in 1..Len(cs) : i < k => cs[i].open_time < cs[k].open_time

\* What CandleBatch checks of neighbours holds of any two candles.
LEMMA BatchIsChronicle ==
    ASSUME NEW cs \in Seq(Ohlcv), IsBatch(cs)
    PROVE  Chronicle(cs)
<1> DEFINE n == Len(cs)
           Later == {m \in 0..n : \A i \in 1..n : i < m => cs[i].open_time < cs[m].open_time}
<1>1. /\ n \in Nat /\ DOMAIN cs = 1..n
      /\ \A i \in 1..(n - 1) : cs[i].open_time < cs[i + 1].open_time
      /\ \A i \in 1..n : IsCandle(cs[i])
  BY DEF IsBatch
<1>2. \A i \in 1..n : cs[i].open_time \in Int
  <2>1. \A i \in 1..n : cs[i] \in Ohlcv
    BY <1>1
  <2> QED
    BY <2>1 DEF Ohlcv
<1>3. 0 \in Later
  BY <1>1
<1>4. ASSUME NEW m \in 1..n, m - 1 \in Later PROVE m \in Later
  <2>1. ASSUME NEW i \in 1..n, i < m PROVE cs[i].open_time < cs[m].open_time
    <3>1. CASE i = m - 1
      BY <1>1, <2>1, <3>1
    <3>2. CASE i < m - 1
      <4>1. m - 1 \in 1..(n - 1) /\ m - 1 \in 1..n /\ (m - 1) + 1 = m
        BY <1>1, <3>2
      <4>2. cs[m - 1].open_time < cs[m].open_time
        BY <1>1, <4>1
      <4>3. cs[i].open_time < cs[m - 1].open_time
        BY <1>4, <3>2
      <4>4. /\ cs[i].open_time \in Int /\ cs[m].open_time \in Int
            /\ cs[m - 1].open_time \in Int
        BY <1>2, <4>1
      <4> QED
        BY <4>2, <4>3, <4>4
    <3> QED
      BY <1>1, <2>1, <3>1, <3>2
  <2>2. m \in 0..n
    BY <1>1
  <2> QED
    BY <2>1, <2>2
<1>5. 0..n \subseteq Later
  <2> HIDE DEF Later, n
  <2> QED
    BY <1>1, <1>3, <1>4, SetInduction
<1>6. \A i, k \in 1..n : i < k => cs[i].open_time < cs[k].open_time
  BY <1>1, <1>5
<1> QED
  BY <1>1, <1>6 DEF Chronicle

\* The fields of a candle.
LEMMA CandleFields ==
    ASSUME NEW cs, Chronicle(cs), NEW i \in 1..Len(cs)
    PROVE  /\ cs[i].open \in Int /\ cs[i].high \in Int /\ cs[i].low \in Int
           /\ cs[i].close \in Int /\ cs[i].volume \in Int
           /\ cs[i].open_time \in Int /\ cs[i].close_time \in Int
           /\ cs[i].open_time < cs[i].close_time
           /\ 0 < cs[i].low /\ cs[i].low <= cs[i].open /\ cs[i].low <= cs[i].close
           /\ cs[i].open <= cs[i].high /\ cs[i].close <= cs[i].high /\ 0 <= cs[i].volume
<1>1. cs[i] \in Ohlcv /\ IsCandle(cs[i])
  BY DEF Chronicle
<1>2. /\ cs[i].open \in Int /\ cs[i].high \in Int /\ cs[i].low \in Int
      /\ cs[i].close \in Int /\ cs[i].volume \in Int
      /\ cs[i].open_time \in Int /\ cs[i].close_time \in Int
  BY <1>1 DEF Ohlcv
<1> QED
  BY <1>1, <1>2 DEF IsCandle

\* The slices that the engine takes are batches as well.
LEMMA SlicesAreChronicles ==
    ASSUME NEW cs, Chronicle(cs)
    PROVE  /\ \A n \in 1..Len(cs) : Chronicle(From(cs, n))
           /\ \A n \in Nat : Chronicle(Take(cs, n))
<1>0. cs \in Seq(Ohlcv) /\ Len(cs) \in Nat
  BY DEF Chronicle
<1>1. ASSUME NEW n \in 1..Len(cs) PROVE Chronicle(From(cs, n))
  <2> DEFINE part == From(cs, n)
  <2>1. /\ part \in Seq(Ohlcv) /\ Len(part) = Len(cs) - n + 1
        /\ \A i \in 1..Len(part) : part[i] = cs[n + i - 1]
    BY <1>0, Slices
  <2> HIDE DEF part
  <2>2. \A i \in 1..Len(part) : n + i - 1 \in 1..Len(cs)
    BY <1>0, <2>1
  <2>3. \A i, k \in 1..Len(part) : i < k => n + i - 1 < n + k - 1
    BY <1>0, <2>1
  <2>4. \A i \in 1..Len(part) : IsCandle(part[i])
    BY <2>1, <2>2 DEF Chronicle
  <2>5. ASSUME NEW i \in 1..Len(part), NEW k \in 1..Len(part), i < k
        PROVE  part[i].open_time < part[k].open_time
    <3>1. part[i] = cs[n + i - 1] /\ part[k] = cs[n + k - 1]
      BY <2>1
    <3>2. cs[n + i - 1].open_time < cs[n + k - 1].open_time
      BY <2>2, <2>3, <2>5, Zenon DEF Chronicle
    <3> QED
      BY <3>1, <3>2, Zenon
  <2> QED
    BY <2>1, <2>4, <2>5 DEF Chronicle, part
<1>2. ASSUME NEW n \in Nat PROVE Chronicle(Take(cs, n))
  <2> DEFINE part == Take(cs, n)
  <2>1. /\ part \in Seq(Ohlcv) /\ Len(part) = IF Len(cs) < n THEN Len(cs) ELSE n
        /\ \A i \in 1..Len(part) : part[i] = cs[i]
    BY <1>0, Slices
  <2> HIDE DEF part
  <2>2. \A i \in 1..Len(part) : i \in 1..Len(cs)
    BY <1>0, <2>1
  <2> QED
    BY <2>1, <2>2 DEF Chronicle, part
<1> QED
  BY <1>1, <1>2

\* The counters of a verdict agree: what closes above the zone reaches above it.
LEMMA VerdictCounts ==
    ASSUME NEW zone, zone.high \in Int, NEW interval, NEW outcome, NEW from, NEW to,
           NEW cs, Chronicle(cs)
    PROVE  LET v == Verdict(zone, interval, outcome, from, to, cs)
           IN v.duration_bars \in Nat /\ v.closes_above_zone \in 0..v.bars_above_zone
<1> DEFINE closes == {i \in DOMAIN cs : cs[i].close > zone.high}
           bars == {i \in DOMAIN cs : cs[i].high > zone.high}
<1>1. Len(cs) \in Nat /\ DOMAIN cs = 1..Len(cs)
  BY DEF Chronicle
<1>2. closes \subseteq bars
  <2>1. \A i \in 1..Len(cs) :
          cs[i].close \in Int /\ cs[i].high \in Int /\ cs[i].close <= cs[i].high
    BY CandleFields
  <2> QED
    BY <1>1, <2>1
<1>3. IsFiniteSet(bars)
  <2>1. IsFiniteSet(1..Len(cs))
    BY <1>1, FS_Interval
  <2>2. bars \subseteq 1..Len(cs)
    BY <1>1
  <2> QED
    BY <2>1, <2>2, FS_Subset
<1>4. Cardinality(closes) \in Nat /\ Cardinality(bars) \in Nat
      /\ Cardinality(closes) <= Cardinality(bars)
  <2> HIDE DEF closes, bars
  <2> QED
    BY <1>2, <1>3, FS_Subset, FS_CardinalityType
<1>5. LET v == Verdict(zone, interval, outcome, from, to, cs)
      IN /\ v.duration_bars = Len(cs) /\ v.closes_above_zone = Cardinality(closes)
         /\ v.bars_above_zone = Cardinality(bars)
  BY DEF Verdict, Count, Indices
<1> HIDE DEF closes, bars
<1> QED
  BY <1>1, <1>4, <1>5

\* The volumes add up to a number.
LEMMA VolumesAddUp ==
    ASSUME NEW cs, Chronicle(cs)
    PROVE  FoldLeft(LAMBDA sum, c : sum + c.volume, 0, cs) \in Nat
<1> DEFINE B == {c \in Ohlcv : 0 <= c.volume}
           Adds(sum, c) == sum + c.volume
           op == [sum \in Nat |-> [c \in B |-> Adds(sum, c)]]
           n == Len(cs)
           Sums(g) == g = [s \in SUBSET DOMAIN cs |->
                             IF s = {} THEN 0 ELSE Adds(g[s \ {Max(s)}], cs[Max(s)])]
<1>1. n \in Nat /\ DOMAIN cs = 1..n /\ cs \in Seq(B) /\ \A i \in 1..n : cs[i] \in B
  <2>1. cs \in Seq(Ohlcv) /\ \A i \in 1..n : cs[i] \in Ohlcv
    BY DEF Chronicle
  <2>2. \A i \in 1..n : 0 <= cs[i].volume
    BY CandleFields
  <2>3. \A i \in 1..n : cs[i] \in B
    BY <2>1, <2>2
  <2> HIDE DEF B
  <2> QED
    BY <2>1, <2>3
<1>2. \A sum \in Nat, c \in B : Adds(sum, c) \in Nat
  BY DEF Ohlcv
<1> HIDE DEF Adds, B
<1>3. op \in [Nat -> [B -> Nat]]
  BY <1>2
<1>4. PICK it \in [SUBSET DOMAIN cs -> Nat] : IsFold(it, 0, cs, op)
  <2>1. 0 \in Nat
    OBVIOUS
  <2> HIDE DEF op, Sums, n
  <2> QED
    BY <1>1, <1>3, <2>1, FoldExists, Zenon
<1>5. Sums(it)
  <2>1. ASSUME NEW s \in SUBSET DOMAIN cs, s # {}
        PROVE  op[it[s \ {Max(s)}]][cs[Max(s)]] = Adds(it[s \ {Max(s)}], cs[Max(s)])
    <3>1. s \subseteq 0..n
      BY <1>1
    <3>2. Max(s) \in 1..n
      <4> HIDE DEF n
      <4> QED
        BY <1>1, <2>1, <3>1, MaxOfBounded
    <3>3. cs[Max(s)] \in B /\ s \ {Max(s)} \in SUBSET DOMAIN cs
      BY <1>1, <3>2
    <3>4. it[s \ {Max(s)}] \in Nat
      BY <3>3
    <3> QED
      BY <3>3, <3>4
  <2> HIDE DEF op
  <2> QED
    BY <1>4, <2>1 DEF IsFold
<1> DEFINE g == CHOOSE g : Sums(g)
<1>6. FoldLeft(LAMBDA sum, c : sum + c.volume, 0, cs) = g[DOMAIN cs]
  BY DEF FoldLeft, MapThenFoldSet, Adds
<1>7. Sums(g)
  <2> HIDE DEF Sums
  <2> QED
    BY <1>5
<1> HIDE DEF g, op
<1> DEFINE Whole == {i \in 0..n : g[1..i] \in Nat}
<1>8. 0 \in Whole
  <2>1. g[{}] = 0
    BY <1>7
  <2>2. 1..0 = {} /\ 0 \in 0..n
    BY <1>1
  <2> QED
    BY <2>1, <2>2
<1>9. ASSUME NEW i \in 1..n, i - 1 \in Whole PROVE i \in Whole
  <2>1. /\ Max(1..i) = i /\ (1..i) \ {i} = 1..(i - 1) /\ i \in 1..i
        /\ 1..i \in SUBSET (1..n)
    <3> HIDE DEF n
    <3> QED
      BY <1>1, PrefixSets
  <2>2. g[1..i] = Adds(g[(1..i) \ {Max(1..i)}], cs[Max(1..i)])
    BY <1>1, <1>7, <2>1
  <2>3. g[1..i] = Adds(g[1..(i - 1)], cs[i])
    BY <2>1, <2>2
  <2>4. cs[i] \in B /\ g[1..(i - 1)] \in Nat /\ i \in 0..n
    BY <1>1, <1>9
  <2> QED
    BY <1>2, <2>3, <2>4
<1>10. 0..n \subseteq Whole
  <2> HIDE DEF Whole, n
  <2> QED
    BY <1>1, <1>8, <1>9, SetInduction
<1>11. n \in Whole
  BY <1>1, <1>10
<1>12. g[1..n] \in Nat
  BY <1>11
<1> HIDE DEF n
<1> QED
  BY <1>1, <1>6, <1>12

\* A quotient that is not negative stays so when it is rounded.
LEMMA QuantizedIsNatural ==
    ASSUME NEW n \in Nat, NEW d \in Nat \ {0}
    PROVE  Quantized(n, d) \in Nat
<1>1. n \div d \in Nat
  OBVIOUS
<1> QED
  BY <1>1 DEF Quantized

\* A ratio of volumes, as far as there is one.
IsRatio(ratio) == ratio = None \/ \E part \in Int, whole \in Nat : ratio = <<part, whole>>

\* The ratio of volumes that a verdict is scored by is one.
LEMMA VolumeRatioOf ==
    ASSUME NEW cs, Chronicle(cs), NEW broken, broken.volume \in Nat
    PROVE  IsRatio(VolumeRatio(cs, broken))
<1>1. Len(cs) \in Nat
  BY DEF Chronicle
<1> DEFINE part == FoldLeft(LAMBDA sum, c : sum + c.volume, 0, cs)
           whole == Len(cs) * broken.volume
<1>2. part \in Nat
  BY VolumesAddUp
<1>3. whole \in Nat
  BY <1>1
<1>4. VolumeRatio(cs, broken) \in {None, <<part, whole>>}
  BY DEF VolumeRatio
<1> HIDE DEF part, whole
<1> QED
  BY <1>2, <1>3, <1>4 DEF IsRatio

\* The range of a quality.
Percents == 0..10000

\* The quality with a trigger and without one.
Qualities(zone, maximum, rejection, ratio, bars) ==
    {Quality(zone, maximum, rejection, ratio, bars, TRUE),
     Quality(zone, maximum, rejection, ratio, bars, FALSE)}

\* The quality is a percentage, for all rules and every rejection.
LEMMA QualityBounded ==
    ASSUME NEW zone, zone.low \in Nat \ {0}, NEW maximum \in Int, NEW rejection,
           rejection.open \in Int, rejection.close \in Int,
           rejection.high \in Int, rejection.low \in Int, rejection.low <= rejection.high,
           NEW ratio, IsRatio(ratio), NEW bars \in Nat
    PROVE  Qualities(zone, maximum, rejection, ratio, bars) \subseteq Percents
<1> DEFINE whole == zone.low * (IF MaxPenetration < 1 THEN 1 ELSE MaxPenetration)
           part == Least(whole, Penetration(zone, maximum) * 10000)
           range == rejection.high - rejection.low
           volume == IF ratio = None THEN 800
                     ELSE IF ~WeakBounce(ratio) THEN 0
                     ELSE LET limit == MaxVolumeRatio * ratio[2]
                          IN IF limit = 0 THEN 2500
                             ELSE 1500 + Quantized(1000 * (limit - ratio[1] * 100), limit)
           depth == Quantized(2500 * (whole - part), whole)
           body == IF range = 0 THEN 0 ELSE Quantized(3000 * Body(rejection), range)
           speed == Quantized(2000 * (MaxPullback - Least(MaxPullback, bars)), MaxPullback)
<1>1. /\ MaxPenetration \in Nat /\ MaxPullback \in Nat \ {0} /\ MaxVolumeRatio \in Nat
  BY ReclaimRulesAssumption
<1>2. depth \in Nat
  <2>1. whole \in Nat \ {0}
    <3>1. (IF MaxPenetration < 1 THEN 1 ELSE MaxPenetration) \in Nat \ {0}
      BY <1>1
    <3>2. \A m, n \in Nat \ {0} : m * n \in Nat \ {0}
      OBVIOUS
    <3> QED
      BY <3>1, <3>2
  <2>2. Penetration(zone, maximum) \in Nat
    BY DEF Penetration
  <2> HIDE DEF whole
  <2>3. part \in 0..whole
    BY <2>1, <2>2 DEF Least
  <2> HIDE DEF part
  <2>4. 2500 * (whole - part) \in Nat
    BY <2>1, <2>3
  <2> QED
    BY <2>1, <2>4, QuantizedIsNatural
<1>3. body \in Nat
  <2>1. range \in Nat /\ 3000 * Body(rejection) \in Nat
    BY DEF Body, Magnitude
  <2> QED
    BY <2>1, QuantizedIsNatural
<1>4. speed \in Nat
  <2>1. 2000 * (MaxPullback - Least(MaxPullback, bars)) \in Nat
    BY <1>1 DEF Least
  <2> QED
    BY <1>1, <2>1, QuantizedIsNatural
<1>5. volume \in Nat
  <2>1. CASE ratio = None
    BY <2>1
  <2>2. CASE ratio # None /\ ~WeakBounce(ratio)
    BY <2>2
  <2>3. CASE ratio # None /\ WeakBounce(ratio)
    <3>1. PICK r \in Int, w \in Nat : ratio = <<r, w>>
      BY <2>3 DEF IsRatio
    <3>2. ratio[1] = r /\ ratio[2] = w
      BY <3>1
    <3> DEFINE limit == MaxVolumeRatio * w
    <3>3. limit \in Nat
      BY <1>1
    <3>4. r * 100 <= limit
      BY <2>3, <3>2 DEF WeakBounce
    <3> HIDE DEF limit
    <3>5. 1000 * (limit - r * 100) \in Nat
      BY <3>3, <3>4
    <3>6. limit # 0 => Quantized(1000 * (limit - r * 100), limit) \in Nat
      BY <3>3, <3>5, QuantizedIsNatural
    <3>7. volume = IF limit = 0 THEN 2500
                   ELSE 1500 + Quantized(1000 * (limit - r * 100), limit)
      BY <2>3, <3>2 DEF limit
    <3> QED
      BY <3>6, <3>7
  <2> QED
    BY <2>1, <2>2, <2>3
<1>6. Qualities(zone, maximum, rejection, ratio, bars)
        = {Least(10000, depth + body + speed + volume + 2000),
           Least(10000, depth + body + speed + volume + 0)}
  BY DEF Qualities, Quality
<1> HIDE DEF depth, body, speed, volume
<1>7. \A n \in Nat : Least(10000, n) \in Percents
  BY DEF Least, Percents
<1>8. /\ depth + body + speed + volume + 2000 \in Nat
      /\ depth + body + speed + volume + 0 \in Nat
  BY <1>2, <1>3, <1>4, <1>5
<1> QED
  BY <1>6, <1>7, <1>8

\* A verdict that names no candles is accepted.
LEMMA PlainVerdictAccepted ==
    ASSUME NEW v, NEW outcome \in Outcomes \ {"FAILED_PULLBACK", "CONTINUATION"},
           v.outcome = outcome, v.setup_type = SetupType(outcome),
           v.readiness = Readiness(outcome), v.started_at <= v.observed_at,
           v.quality = 0, v.duration_bars \in Nat,
           v.closes_above_zone \in 0..v.bars_above_zone,
           v.rejection = None, v.rejection_low = None, v.trigger = None
    PROVE  IsAttempt(v) /\ v.readiness # "QUALIFIED"
<1>1. v.readiness # "QUALIFIED"
  BY DEF Readiness, Outcomes
<1>2. v.readiness \in {"CANCELLED", "EXPIRED", "INVALIDATED"} => v.setup_type = "NONE"
  BY DEF Readiness, SetupType, Outcomes
<1>3. v.outcome = "SUCCESSFUL_RECLAIM" => v.readiness = "CANCELLED"
  BY DEF Readiness
<1>4. v.quality \in 0..10000 /\ v.duration_bars >= 0
  OBVIOUS
<1> QED
  BY <1>1, <1>2, <1>3, <1>4 DEF IsAttempt

\* The verdict over a span of candles begins before it ends.
LEMMA SpanningFields ==
    ASSUME NEW zone, zone.high \in Int, NEW interval, NEW outcome,
           NEW cs, Chronicle(cs), cs # <<>>
    PROVE  LET v == Spanning(zone, interval, outcome, cs)
           IN /\ v = Verdict(zone, interval, outcome, v.started_at, v.observed_at, cs)
              /\ v.outcome = outcome /\ v.setup_type = SetupType(outcome)
              /\ v.readiness = Readiness(outcome) /\ v.started_at <= v.observed_at
              /\ v.quality = 0 /\ v.duration_bars \in Nat
              /\ v.closes_above_zone \in 0..v.bars_above_zone
              /\ v.rejection = None /\ v.rejection_low = None /\ v.trigger = None
<1> DEFINE n == Len(cs)
           from == Head(cs).open_time
           to == Last(cs).close_time
           v == Verdict(zone, interval, outcome, from, to, cs)
<1>1. n \in Nat /\ 1 \in 1..n /\ n \in 1..n /\ Head(cs) = cs[1] /\ Last(cs) = cs[n]
  BY DEF Chronicle, Last
<1>2. from <= to
  <2>1. /\ cs[1].open_time \in Int /\ cs[n].open_time \in Int /\ cs[n].close_time \in Int
        /\ cs[n].open_time < cs[n].close_time
    BY <1>1, CandleFields
  <2>2. cs[1].open_time <= cs[n].open_time
    <3>1. CASE n = 1
      BY <2>1, <3>1
    <3>2. CASE n # 1
      <4>1. 1 < n
        BY <1>1, <3>2
      <4>2. cs[1].open_time < cs[n].open_time
        BY <1>1, <4>1, Zenon DEF Chronicle
      <4> QED
        BY <2>1, <4>2
    <3> QED
      BY <3>1, <3>2
  <2> QED
    BY <1>1, <2>1, <2>2
<1>3. Spanning(zone, interval, outcome, cs) = v
  BY DEF Spanning
<1>4. /\ v.outcome = outcome /\ v.setup_type = SetupType(outcome)
      /\ v.readiness = Readiness(outcome) /\ v.started_at = from /\ v.observed_at = to
      /\ v.quality = 0 /\ v.rejection = None /\ v.rejection_low = None /\ v.trigger = None
  BY DEF Verdict
<1>5. v.duration_bars \in Nat /\ v.closes_above_zone \in 0..v.bars_above_zone
  <2> HIDE DEF from, to
  <2> QED
    BY VerdictCounts
<1>6. v = Verdict(zone, interval, outcome, v.started_at, v.observed_at, cs)
  <2>1. v.started_at = from /\ v.observed_at = to
    BY <1>4
  <2> HIDE DEF from, to
  <2> QED
    BY <2>1, Zenon
<1> HIDE DEF v, from, to
<1> QED
  BY <1>2, <1>3, <1>4, <1>5, <1>6

\* A verdict over all candles of the attempt is accepted by its record.
LEMMA SpanningAccepted ==
    ASSUME NEW zone, zone.high \in Int, NEW interval,
           NEW outcome \in Outcomes \ {"FAILED_PULLBACK", "CONTINUATION"},
           NEW cs, Chronicle(cs), cs # <<>>
    PROVE  LET v == Spanning(zone, interval, outcome, cs)
           IN IsAttempt(v) /\ v.readiness # "QUALIFIED"
<1> DEFINE v == Spanning(zone, interval, outcome, cs)
<1>1. /\ v.outcome = outcome /\ v.setup_type = SetupType(outcome)
      /\ v.readiness = Readiness(outcome) /\ v.started_at <= v.observed_at
      /\ v.quality = 0 /\ v.duration_bars \in Nat
      /\ v.closes_above_zone \in 0..v.bars_above_zone
      /\ v.rejection = None /\ v.rejection_low = None /\ v.trigger = None
  BY SpanningFields
<1> HIDE DEF v
<1> QED
  BY <1>1, PlainVerdictAccepted DEF v

\* A qualified verdict names a rejection and a later candle that closed below
\* the low of the rejection or, in a continuation, of the break.
Evidenced(v, cs) ==
    \E j, k \in 1..Len(cs) :
        /\ j < k /\ v.rejection = cs[j].open_time /\ v.trigger = cs[k].open_time
        /\ v.rejection_low \in Int /\ cs[k].close < v.rejection_low

Accepted(v, cs) == IsAttempt(v) /\ (v.readiness = "QUALIFIED" => Evidenced(v, cs))

\* What the search for a continuation finds.
LEMMA ContinuationFound ==
    ASSUME NEW zone, NEW break, NEW broken, NEW cs, Chronicle(cs),
           ContinuationIndex(zone, break, broken, cs) # 0
    PROVE  LET search == Take(cs, MaxPullback)
               b == BounceIndex(zone, break, search)
               k == ContinuationIndex(zone, break, broken, cs)
           IN /\ b \in 1..Len(search) /\ k \in 1..Len(search) /\ b < k
              /\ search[k].close < broken.low
<1> DEFINE search == Take(cs, MaxPullback)
           b == BounceIndex(zone, break, search)
           k == ContinuationIndex(zone, break, broken, cs)
           S == {i \in (b + 1)..Len(search) : /\ search[i].close < broken.low
                                              /\ search[i].high < search[b].high}
<1>1. MaxPullback \in Nat /\ Chronicle(search) /\ Len(search) \in Nat
  <2>1. MaxPullback \in Nat
    BY ReclaimRulesAssumption
  <2>2. Chronicle(search)
    BY <2>1, SlicesAreChronicles
  <2> QED
    BY <2>1, <2>2 DEF Chronicle
<1>2. b # 0 /\ S # {} /\ k = Min(S)
  BY DEF ContinuationIndex, LowerLowIndex
<1>3. b \in 1..Len(search)
  <2> DEFINE top == MaxHigh(search)
             c == SelectInSeq(search, LAMBDA x : x.high = top)
             I == {i \in 1..Len(search) : search[i].high = top}
  <2>1. c = FirstOf(I)
    BY DEF SelectInSeq, FirstOf
  <2>2. c \in 0..Len(search)
    <3>1. I \subseteq 1..Len(search)
      OBVIOUS
    <3> HIDE DEF I, c
    <3> QED
      BY <1>1, <2>1, <3>1, FirstIndex
  <2>3. b \in {0, c}
    BY DEF BounceIndex
  <2> HIDE DEF c, b
  <2> QED
    BY <1>1, <1>2, <2>2, <2>3
<1> HIDE DEF b, k, search
<1>4. S \subseteq Nat /\ S \subseteq (b + 1)..Len(search)
  BY <1>1, <1>3
<1>5. k \in S
  <2> HIDE DEF S
  <2> QED
    BY <1>2, <1>4, MinOfNaturals
<1>6. k \in (b + 1)..Len(search) /\ search[k].close < broken.low
  BY <1>5
<1> QED
  BY <1>1, <1>3, <1>6 DEF b, k, search

\* Without an attempt on the zone the verdict is accepted.
LEMMA UnattemptedAccepted ==
    ASSUME NEW zone, zone.high \in Int, NEW break, NEW broken, broken.low \in Int,
           NEW interval, NEW cs, Chronicle(cs), cs # <<>>
    PROVE  Accepted(Unattempted(zone, break, broken, interval, cs), cs)
<1>1. CASE ContinuationIndex(zone, break, broken, cs) = 0
  <2> DEFINE o == IF Len(cs) >= MaxSetupAge THEN "EXPIRED" ELSE "NO_ATTEMPT"
             base == Spanning(zone, interval, o, cs)
             v == [base EXCEPT !.closes_above_zone = 0, !.bars_above_zone = 0]
  <2>1. o \in Outcomes \ {"FAILED_PULLBACK", "CONTINUATION"}
    BY DEF Outcomes
  <2> HIDE DEF o
  <2>2. /\ base = Verdict(zone, interval, o, base.started_at, base.observed_at, cs)
        /\ base.outcome = o /\ base.setup_type = SetupType(o)
        /\ base.readiness = Readiness(o) /\ base.started_at <= base.observed_at
        /\ base.quality = 0 /\ base.duration_bars \in Nat
        /\ base.rejection = None /\ base.rejection_low = None /\ base.trigger = None
    BY SpanningFields
  <2> HIDE DEF base
  <2>3. /\ v.outcome = base.outcome /\ v.setup_type = base.setup_type
        /\ v.readiness = base.readiness /\ v.started_at = base.started_at
        /\ v.observed_at = base.observed_at
        /\ v.quality = base.quality /\ v.duration_bars = base.duration_bars
        /\ v.rejection = base.rejection /\ v.rejection_low = base.rejection_low
        /\ v.trigger = base.trigger
        /\ v.closes_above_zone = 0 /\ v.bars_above_zone = 0
    BY <2>2 DEF Verdict
  <2>4. Unattempted(zone, break, broken, interval, cs) = v
    BY <1>1 DEF Unattempted, base, o
  <2> HIDE DEF v
  <2>5. v.closes_above_zone \in 0..v.bars_above_zone
    BY <2>3
  <2>6. IsAttempt(v) /\ v.readiness # "QUALIFIED"
    BY <2>1, <2>2, <2>3, <2>5, PlainVerdictAccepted
  <2> QED
    BY <2>4, <2>6 DEF Accepted
<1>2. CASE ContinuationIndex(zone, break, broken, cs) # 0
  <2> DEFINE search == Take(cs, MaxPullback)
             b == BounceIndex(zone, break, search)
             k == ContinuationIndex(zone, break, broken, cs)
             considered == Take(search, k)
             base == Spanning(zone, interval, "CONTINUATION", considered)
             quality == (IF WeakBounce(VolumeRatio(considered, broken)) THEN 7500 ELSE 6500)
                          - 100 * Least(k, 10)
             v == [base EXCEPT !.closes_above_zone = 0, !.bars_above_zone = 0,
                     !.rejection = search[b].open_time, !.rejection_low = broken.low,
                     !.trigger = search[k].open_time, !.quality = quality]
  <2>1. /\ b \in 1..Len(search) /\ k \in 1..Len(search) /\ b < k
        /\ search[k].close < broken.low
    BY <1>2, ContinuationFound
  <2>2. Unattempted(zone, break, broken, interval, cs) = v
    BY <1>2 DEF Unattempted, Continuation
  <2>3. /\ MaxPullback \in Nat /\ Chronicle(search) /\ cs \in Seq(Ohlcv)
        /\ Len(search) = (IF Len(cs) < MaxPullback THEN Len(cs) ELSE MaxPullback)
        /\ Len(cs) \in Nat /\ \A i \in 1..Len(search) : search[i] = cs[i]
    <3>1. MaxPullback \in Nat /\ cs \in Seq(Ohlcv)
      BY ReclaimRulesAssumption DEF Chronicle
    <3>2. Chronicle(search)
      BY <3>1, SlicesAreChronicles
    <3>3. /\ Len(search) = (IF Len(cs) < MaxPullback THEN Len(cs) ELSE MaxPullback)
          /\ \A i \in 1..Len(search) : search[i] = cs[i]
      BY <3>1, Slices
    <3>4. Len(cs) \in Nat
      BY <3>1
    <3> QED
      BY <3>1, <3>2, <3>3, <3>4
  <2> HIDE DEF search, b, k
  <2>4. k \in Nat /\ Chronicle(considered) /\ considered # <<>>
    <3>1. k \in Nat \ {0} /\ search \in Seq(Ohlcv) /\ Len(search) \in Nat
      BY <2>1, <2>3 DEF Chronicle
    <3>2. Chronicle(considered)
      BY <2>3, <3>1, SlicesAreChronicles
    <3>3. Len(considered) = IF Len(search) < k THEN Len(search) ELSE k
      BY <3>1, Slices
    <3>4. Len(considered) # 0
      BY <2>1, <3>1, <3>3
    <3> QED
      BY <3>1, <3>2, <3>4
  <2> HIDE DEF considered
  <2>5. /\ base = Verdict(zone, interval, "CONTINUATION", base.started_at, base.observed_at,
                          considered)
        /\ base.outcome = "CONTINUATION" /\ base.setup_type = SetupType("CONTINUATION")
        /\ base.readiness = Readiness("CONTINUATION") /\ base.started_at <= base.observed_at
        /\ base.duration_bars \in Nat
    BY <2>4, SpanningFields
  <2>6. quality \in 0..10000
    <3> DEFINE base_quality == IF WeakBounce(VolumeRatio(considered, broken)) THEN 7500 ELSE 6500
    <3>1. Least(k, 10) \in 0..10
      BY <2>4 DEF Least
    <3>2. base_quality \in {7500, 6500}
      OBVIOUS
    <3> HIDE DEF base_quality
    <3>3. base_quality - 100 * Least(k, 10) \in 0..10000
      <4> DEFINE m == Least(k, 10)
      <4>1. m \in 0..10
        BY <3>1
      <4> HIDE DEF m
      <4>2. base_quality - 100 * m \in 0..10000
        BY <3>2, <4>1
      <4> QED
        BY <4>2 DEF m
    <3> QED
      BY <3>3 DEF base_quality
  <2> HIDE DEF base, quality
  <2>7. /\ v.outcome = base.outcome /\ v.setup_type = base.setup_type
        /\ v.readiness = base.readiness /\ v.started_at = base.started_at
        /\ v.observed_at = base.observed_at /\ v.duration_bars = base.duration_bars
        /\ v.closes_above_zone = 0 /\ v.bars_above_zone = 0
        /\ v.rejection = search[b].open_time /\ v.rejection_low = broken.low
        /\ v.trigger = search[k].open_time /\ v.quality = quality
    BY <2>5 DEF Verdict
  <2> HIDE DEF v
  <2>8. /\ search[b].open_time \in Int /\ search[k].open_time \in Int
        /\ search[b].open_time < search[k].open_time
    <3>1. search[b].open_time \in Int /\ search[k].open_time \in Int
      BY <2>1, <2>3, CandleFields
    <3> QED
      BY <2>1, <2>3, <3>1 DEF Chronicle
  <2>9. v.outcome = "CONTINUATION" /\ v.setup_type = "CONTINUATION_SHORT"
        /\ v.readiness = "QUALIFIED"
    BY <2>5, <2>7 DEF SetupType, Readiness
  <2>10. v.closes_above_zone \in 0..v.bars_above_zone /\ v.duration_bars >= 0
    BY <2>5, <2>7
  <2>11. v.rejection # None /\ v.rejection_low # None /\ v.rejection < v.trigger
    BY <2>7, <2>8, NoneAssumption
  <2>12. IsAttempt(v)
    BY <2>5, <2>6, <2>7, <2>9, <2>10, <2>11 DEF IsAttempt
  <2>13. b \in 1..Len(cs) /\ k \in 1..Len(cs) /\ search[b] = cs[b] /\ search[k] = cs[k]
    BY <2>1, <2>3
  <2>14. Evidenced(v, cs)
    BY <2>1, <2>7, <2>13 DEF Evidenced
  <2> QED
    BY <2>2, <2>12, <2>14 DEF Accepted
<1> QED
  BY <1>1, <1>2

\* The greatest high of some candles is a number that none of them exceeds.
LEMMA MaxHighIsGreatest ==
    ASSUME NEW cs, Chronicle(cs), cs # <<>>
    PROVE  MaxHigh(cs) \in Int /\ \A i \in 1..Len(cs) : cs[i].high <= MaxHigh(cs)
<1> DEFINE n == Len(cs)
           h == [i \in 1..n |-> cs[i].high]
           values == {h[i] : i \in 1..n}
<1>1. n \in Nat \ {0} /\ DOMAIN cs = 1..n
  BY DEF Chronicle
<1>2. h \in [1..n -> Int]
  BY CandleFields
<1>3. MaxHigh(cs) = Max(values)
  <2>1. {cs[i].high : i \in DOMAIN cs} = values
    BY <1>1
  <2> HIDE DEF values
  <2> QED
    BY <2>1 DEF MaxHigh
<1>4. Max(values) \in values /\ \A v \in values : v <= Max(values)
  <2> HIDE DEF h
  <2> QED
    BY <1>1, <1>2, GreatestOf
<1>5. values \subseteq Int /\ \A i \in 1..n : cs[i].high \in values
  BY <1>2
<1> HIDE DEF values
<1> QED
  BY <1>3, <1>4, <1>5

\* On an attempt the verdict is accepted.
LEMMA AttemptedAccepted ==
    ASSUME NEW zone, zone.low \in Nat \ {0}, zone.high \in Int,
           NEW broken, broken.volume \in Nat,
           NEW interval, NEW cs, Chronicle(cs), cs # <<>>
    PROVE  Accepted(Attempted(zone, broken, interval, cs), cs)
<1> DEFINE limited == PullbackWindow(cs)
           j == FirstOf(Rejections(zone, limited))
           k == FirstOf(Triggers(cs, j))
           v == Attempted(zone, broken, interval, cs)
<1>1. SelectInSeq(limited, LAMBDA c : Rejects(zone, c)) = j
  BY DEF SelectInSeq, FirstOf, Rejections
<1>2. TriggerIndex(cs, j) = k
  BY Searches
<1>3. /\ Chronicle(limited) /\ Len(cs) \in Nat \ {0} /\ Len(limited) \in 1..Len(cs)
      /\ \A i \in 1..Len(limited) : limited[i] = cs[i]
  <2>1. MaxPullback \in Nat \ {0} /\ cs \in Seq(Ohlcv)
    BY ReclaimRulesAssumption DEF Chronicle
  <2>2. limited = Take(cs, MaxPullback)
    BY DEF PullbackWindow
  <2> HIDE DEF limited
  <2>3. Chronicle(limited)
    BY <2>1, <2>2, SlicesAreChronicles
  <2>4. /\ Len(limited) = (IF Len(cs) < MaxPullback THEN Len(cs) ELSE MaxPullback)
        /\ \A i \in 1..Len(limited) : limited[i] = cs[i]
    BY <2>1, <2>2, Slices
  <2>5. Len(cs) \in Nat \ {0}
    BY <2>1
  <2> QED
    BY <2>1, <2>3, <2>4, <2>5
<1>4. j \in 0..Len(limited)
  <2>1. Rejections(zone, limited) \subseteq 1..Len(limited) /\ Len(limited) \in Nat
    BY <1>3 DEF Rejections
  <2> QED
    BY <2>1, FirstIndex
<1>5. k \in 0..Len(cs) /\ (k # 0 => j < k /\ cs[k].close < cs[j].low)
  <2>1. j \in Nat
    BY <1>3, <1>4
  <2> HIDE DEF j
  <2>2. Triggers(cs, j) \subseteq 1..Len(cs) /\ Len(cs) \in Nat
    BY <1>3, <2>1 DEF Triggers
  <2>3. k \in 0..Len(cs) /\ (k # 0 => k \in Triggers(cs, j))
    BY <2>2, FirstIndex
  <2> HIDE DEF k
  <2> QED
    BY <2>1, <2>3 DEF Triggers
<1> HIDE DEF limited, j, k
<1>6. CASE j = 0
  <2>1. v = IF Len(cs) > MaxPullback THEN Spanning(zone, interval, "INVALIDATED", limited)
            ELSE Spanning(zone, interval, "ATTEMPTING", cs)
    BY <1>1, <1>6 DEF Attempted, limited
  <2> DEFINE a == Spanning(zone, interval, "INVALIDATED", limited)
             b == Spanning(zone, interval, "ATTEMPTING", cs)
  <2>2. {"INVALIDATED", "ATTEMPTING"} \subseteq Outcomes \ {"FAILED_PULLBACK", "CONTINUATION"}
    BY DEF Outcomes
  <2>3. limited # <<>>
    BY <1>3
  <2>4. IsAttempt(a) /\ a.readiness # "QUALIFIED"
    BY <1>3, <2>2, <2>3, SpanningAccepted
  <2>5. IsAttempt(b) /\ b.readiness # "QUALIFIED"
    BY <2>2, SpanningAccepted
  <2>6. v = a \/ v = b
    BY <2>1
  <2> HIDE DEF a, b, v
  <2>7. IsAttempt(v) /\ v.readiness # "QUALIFIED"
    BY <2>4, <2>5, <2>6
  <2> QED
    BY <2>7 DEF v, Accepted
<1>7. CASE j # 0
  <2> DEFINE rejected == Take(limited, j)
             outcome == IF k = 0 THEN "FAILED_RECLAIM" ELSE "FAILED_PULLBACK"
             to == IF k = 0 THEN limited[j].close_time ELSE cs[k].close_time
             from == cs[1].open_time
             base == Verdict(zone, interval, outcome, from, to, rejected)
             trigger == IF k = 0 THEN None ELSE cs[k].open_time
             quality == Quality(zone, MaxHigh(rejected), limited[j],
                                VolumeRatio(rejected, broken), j, k # 0)
  <2>1. v = [base EXCEPT !.rejection = limited[j].open_time, !.rejection_low = limited[j].low,
                         !.trigger = trigger, !.quality = quality]
    BY <1>1, <1>2, <1>7 DEF Attempted, limited
  <2>2. /\ j \in 1..Len(limited) /\ j \in 1..Len(cs) /\ limited[j] = cs[j]
        /\ 1 \in 1..Len(cs) /\ j \in Nat
    BY <1>3, <1>4, <1>7
  <2>3. Chronicle(rejected) /\ rejected # <<>>
    <3>1. Chronicle(rejected)
      BY <1>3, <2>2, SlicesAreChronicles
    <3>2. limited \in Seq(Ohlcv) /\ Len(limited) \in Nat
      BY <1>3 DEF Chronicle
    <3>3. Len(rejected) = IF Len(limited) < j THEN Len(limited) ELSE j
      BY <2>2, <3>2, Slices
    <3>4. Len(rejected) # 0
      BY <2>2, <3>2, <3>3
    <3> QED
      BY <3>1, <3>4
  <2> HIDE DEF rejected
  <2>4. base.duration_bars \in Nat /\ base.closes_above_zone \in 0..base.bars_above_zone
    <3> HIDE DEF outcome, from, to
    <3> QED
      BY <2>3, VerdictCounts
  <2>5. /\ cs[j].open \in Int /\ cs[j].high \in Int /\ cs[j].low \in Int /\ cs[j].close \in Int
        /\ cs[j].open_time \in Int /\ cs[j].close_time \in Int
        /\ cs[j].open_time < cs[j].close_time
        /\ cs[j].low <= cs[j].open /\ cs[j].open <= cs[j].high
    BY <2>2, CandleFields
  <2>6. quality \in 0..10000
    <3>1. MaxHigh(rejected) \in Int
      BY <2>3, MaxHighIsGreatest
    <3>2. IsRatio(VolumeRatio(rejected, broken))
      BY <2>3, VolumeRatioOf
    <3>3. cs[j].low <= cs[j].high
      BY <2>5
    <3>4. quality = Quality(zone, MaxHigh(rejected), cs[j],
                            VolumeRatio(rejected, broken), j, k # 0)
      BY <2>2
    <3> DEFINE top == MaxHigh(rejected)
               ratio == VolumeRatio(rejected, broken)
               candle == cs[j]
    <3>5. /\ candle.open \in Int /\ candle.close \in Int
          /\ candle.high \in Int /\ candle.low \in Int /\ candle.low <= candle.high
      BY <2>5, <3>3
    <3>6. top \in Int /\ IsRatio(ratio)
      BY <3>1, <3>2
    <3> HIDE DEF top, ratio, candle
    <3>7. quality \in Qualities(zone, top, candle, ratio, j)
      <4>1. CASE k = 0
        BY <3>4, <4>1 DEF Quality, Qualities, top, ratio, candle
      <4>2. CASE k # 0
        BY <3>4, <4>2 DEF Quality, Qualities, top, ratio, candle
      <4> QED
        BY <4>1, <4>2
    <3>8. Qualities(zone, top, candle, ratio, j) \subseteq Percents
      BY <2>2, <3>5, <3>6, QualityBounded
    <3> HIDE DEF quality
    <3>9. quality \in Percents
      BY <3>7, <3>8
    <3> QED
      BY <3>9 DEF Percents
  <2>7. cs[1].open_time \in Int /\ cs[1].open_time <= cs[j].open_time
    <3>1. cs[1].open_time \in Int
      BY <2>2, CandleFields
    <3>2. CASE j = 1
      BY <2>5, <3>1, <3>2
    <3>3. CASE j # 1
      <4>1. 1 < j
        BY <1>3, <2>2, <3>3
      <4>2. cs[1].open_time < cs[j].open_time
        BY <2>2, <4>1, Zenon DEF Chronicle
      <4> QED
        BY <2>5, <3>1, <4>2
    <3> QED
      BY <3>2, <3>3
  <2>8. k # 0 => /\ k \in 1..Len(cs) /\ cs[k].open_time \in Int /\ cs[k].close_time \in Int
                 /\ cs[k].open_time < cs[k].close_time
                 /\ cs[j].open_time < cs[k].open_time
    <3> SUFFICES ASSUME k # 0
                 PROVE  /\ k \in 1..Len(cs)
                        /\ cs[k].open_time \in Int /\ cs[k].close_time \in Int
                        /\ cs[k].open_time < cs[k].close_time
                        /\ cs[j].open_time < cs[k].open_time
      OBVIOUS
    <3>1. k \in 1..Len(cs) /\ j < k
      BY <1>3, <1>5
    <3>2. /\ cs[k].open_time \in Int /\ cs[k].close_time \in Int
          /\ cs[k].open_time < cs[k].close_time
      BY <3>1, CandleFields
    <3>3. cs[j].open_time < cs[k].open_time
      BY <2>2, <3>1, Zenon DEF Chronicle
    <3> QED
      BY <3>1, <3>2, <3>3
  <2>9. from <= to
    <3>1. CASE k = 0
      BY <2>2, <2>5, <2>7, <3>1
    <3>2. CASE k # 0
      BY <2>5, <2>7, <2>8, <3>2
    <3> QED
      BY <3>1, <3>2
  <2>10. /\ trigger = None <=> k = 0
         /\ trigger # None => cs[j].open_time < trigger
    BY <2>8, NoneAssumption
  <2>11. k # 0 => trigger = cs[k].open_time
    OBVIOUS
  <2> HIDE DEF trigger, quality, v
  <2>12. /\ v.outcome = outcome /\ v.setup_type = SetupType(outcome)
         /\ v.readiness = Readiness(outcome)
         /\ v.started_at = from /\ v.observed_at = to
         /\ v.rejection = cs[j].open_time /\ v.rejection_low = cs[j].low
         /\ v.trigger = trigger /\ v.quality = quality
    <3> HIDE DEF outcome, from, to
    <3> QED
      BY <2>1, <2>2 DEF Verdict
  <2>13. /\ v.duration_bars = base.duration_bars
         /\ v.closes_above_zone = base.closes_above_zone
         /\ v.bars_above_zone = base.bars_above_zone
    <3> HIDE DEF outcome, from, to
    <3> QED
      BY <2>1 DEF Verdict
  <2> HIDE DEF base, from, to
  <2>14. /\ k = 0 => /\ v.outcome = "FAILED_RECLAIM" /\ v.setup_type = "BREAKDOWN_SHORT"
                     /\ v.readiness = "WATCH"
         /\ k # 0 => /\ v.outcome = "FAILED_PULLBACK" /\ v.readiness = "QUALIFIED"
                     /\ v.setup_type = "FAILED_PULLBACK_SHORT"
    BY <2>12 DEF SetupType, Readiness
  <2>15. v.started_at <= v.observed_at /\ v.quality \in 0..10000
    BY <2>6, <2>9, <2>12
  <2>16. v.duration_bars >= 0 /\ v.closes_above_zone \in 0..v.bars_above_zone
    BY <2>4, <2>13
  <2>17. /\ v.rejection # None /\ v.rejection_low # None
         /\ v.trigger # None => v.rejection < v.trigger
         /\ k # 0 => v.trigger # None
    BY <2>5, <2>10, <2>12, NoneAssumption
  <2>18. IsAttempt(v)
    <3>1. CASE k = 0
      BY <2>14, <2>15, <2>16, <2>17, <3>1 DEF IsAttempt
    <3>2. CASE k # 0
      BY <2>14, <2>15, <2>16, <2>17, <3>2 DEF IsAttempt
    <3> QED
      BY <3>1, <3>2
  <2>19. v.readiness = "QUALIFIED" => Evidenced(v, cs)
    <3> SUFFICES ASSUME k # 0 PROVE Evidenced(v, cs)
      BY <2>14
    <3>1. j < k /\ cs[k].close < cs[j].low /\ v.trigger = cs[k].open_time
      BY <1>5, <2>11, <2>12
    <3> QED
      BY <2>2, <2>5, <2>8, <2>12, <3>1 DEF Evidenced
  <2> QED
    BY <2>18, <2>19 DEF v, Accepted
<1> QED
  BY <1>6, <1>7

\* analyze_reclaim_attempt never raises in ReclaimAttempt.__post_init__, and what
\* it qualifies has its evidence among the candles: for all rules, for every
\* zone, break and batch of candles.
THEOREM VerdictAccepted ==
    ASSUME NEW zone, zone.low \in Nat \ {0}, zone.high \in Int,
           NEW break, break.observed_at \in Int,
           NEW broken, broken.volume \in Nat, broken.low \in Int,
           NEW interval, NEW cs, Chronicle(cs)
    PROVE  Accepted(JudgeBreak(zone, break, broken, interval, cs), cs)
<1> DEFINE v == JudgeBreak(zone, break, broken, interval, cs)
           s == FirstOf(Successes(zone, interval, cs))
           a == FirstOf(Attempts(zone, cs))
<1>1. /\ SuccessIndex(zone, interval, cs) = s
      /\ AttemptIndex(zone, cs) = a
  BY Searches
<1>2. cs \in Seq(Ohlcv) /\ Len(cs) \in Nat
  BY DEF Chronicle
<1>3. s \in 0..Len(cs)
  <2>1. Successes(zone, interval, cs) \subseteq 1..Len(cs)
    BY <1>2, ReclaimRulesAssumption DEF Successes, RequiredCloses
  <2> QED
    BY <1>2, <2>1, FirstIndex
<1>4. a \in 0..Len(cs)
  <2>1. Attempts(zone, cs) \subseteq 1..Len(cs)
    BY DEF Attempts
  <2> QED
    BY <1>2, <2>1, FirstIndex
<1>5. {"NO_ATTEMPT", "SUCCESSFUL_RECLAIM"}
        \subseteq Outcomes \ {"FAILED_PULLBACK", "CONTINUATION"}
  BY DEF Outcomes
<1> HIDE DEF s, a
<1>6. CASE cs = <<>>
  <2> DEFINE at == break.observed_at
             w == Verdict(zone, "H4", "NO_ATTEMPT", at, at, cs)
  <2>1. v = w
    BY <1>6 DEF JudgeBreak
  <2>2. /\ w.outcome = "NO_ATTEMPT" /\ w.setup_type = SetupType("NO_ATTEMPT")
        /\ w.readiness = Readiness("NO_ATTEMPT")
        /\ w.started_at = at /\ w.observed_at = at /\ w.quality = 0
        /\ w.rejection = None /\ w.rejection_low = None /\ w.trigger = None
    BY DEF Verdict
  <2>3. w.duration_bars \in Nat /\ w.closes_above_zone \in 0..w.bars_above_zone
    <3> HIDE DEF at
    <3> QED
      BY VerdictCounts
  <2>4. at <= at
    OBVIOUS
  <2> HIDE DEF w, v, at
  <2>5. IsAttempt(w) /\ w.readiness # "QUALIFIED"
    BY <1>5, <2>2, <2>3, <2>4, PlainVerdictAccepted
  <2> QED
    BY <2>1, <2>5 DEF Accepted, v
<1>7. CASE cs # <<>> /\ s # 0
  <2> DEFINE part == Take(cs, s)
             w == Spanning(zone, interval, "SUCCESSFUL_RECLAIM", part)
  <2>1. v = w
    BY <1>1, <1>7 DEF JudgeBreak
  <2>2. s \in Nat \ {0} /\ s <= Len(cs)
    BY <1>2, <1>3, <1>7
  <2>3. Chronicle(part)
    BY <2>2, SlicesAreChronicles
  <2>4. Len(part) = IF Len(cs) < s THEN Len(cs) ELSE s
    BY <1>2, <2>2, Slices
  <2> HIDE DEF part
  <2>5. part # <<>>
    BY <1>2, <2>2, <2>4
  <2>6. IsAttempt(w) /\ w.readiness # "QUALIFIED"
    BY <1>5, <2>3, <2>5, SpanningAccepted
  <2> HIDE DEF w, v
  <2> QED
    BY <2>1, <2>6 DEF Accepted, v
<1>8. CASE cs # <<>> /\ s = 0 /\ a = 0
  <2>1. v = Unattempted(zone, break, broken, interval, cs)
    BY <1>1, <1>8 DEF JudgeBreak
  <2> QED
    BY <1>8, <2>1, UnattemptedAccepted
<1>9. CASE cs # <<>> /\ s = 0 /\ a # 0
  <2> DEFINE stream == From(cs, a)
  <2>1. v = Attempted(zone, broken, interval, stream)
    BY <1>1, <1>9 DEF JudgeBreak
  <2>2. a \in 1..Len(cs)
    BY <1>2, <1>4, <1>9
  <2>3. Chronicle(stream)
    BY <2>2, SlicesAreChronicles
  <2>4. /\ Len(stream) = Len(cs) - a + 1
        /\ \A i \in 1..Len(stream) : stream[i] = cs[a + i - 1]
    BY <1>2, <2>2, Slices
  <2> HIDE DEF stream
  <2>5. stream # <<>>
    BY <1>2, <2>2, <2>4
  <2> HIDE DEF v
  <2>6. Accepted(v, stream)
    BY <2>1, <2>3, <2>5, AttemptedAccepted
  <2>7. Evidenced(v, stream) => Evidenced(v, cs)
    <3> SUFFICES ASSUME Evidenced(v, stream) PROVE Evidenced(v, cs)
      OBVIOUS
    <3>1. PICK j \in 1..Len(stream), k \in 1..Len(stream) :
            /\ j < k /\ v.rejection = stream[j].open_time /\ v.trigger = stream[k].open_time
            /\ v.rejection_low \in Int /\ stream[k].close < v.rejection_low
      BY DEF Evidenced
    <3>2. /\ a + j - 1 \in 1..Len(cs) /\ a + k - 1 \in 1..Len(cs) /\ a + j - 1 < a + k - 1
          /\ stream[j] = cs[a + j - 1] /\ stream[k] = cs[a + k - 1]
      BY <1>2, <2>2, <2>4, <3>1
    <3> QED
      BY <3>1, <3>2 DEF Evidenced
  <2>8. Accepted(v, cs)
    BY <2>6, <2>7 DEF Accepted
  <2> QED
    BY <2>8 DEF v
<1> QED
  BY <1>6, <1>7, <1>8, <1>9

\* Whatever the zone is, a qualified verdict has its evidence among the candles.
LEMMA QualifiedEvidenced ==
    ASSUME NEW zone, NEW break, NEW broken, broken.low \in Int, NEW interval,
           NEW cs, Chronicle(cs),
           JudgeBreak(zone, break, broken, interval, cs).readiness = "QUALIFIED"
    PROVE  Evidenced(JudgeBreak(zone, break, broken, interval, cs), cs)
<1> DEFINE v == JudgeBreak(zone, break, broken, interval, cs)
           s == SuccessIndex(zone, interval, cs)
           a == AttemptIndex(zone, cs)
<1>0. cs \in Seq(Ohlcv) /\ Len(cs) \in Nat
  BY DEF Chronicle
<1>1. CASE cs = <<>>
  <2>1. v.readiness = Readiness("NO_ATTEMPT")
    BY <1>1, VerdictOutcome DEF JudgeBreak
  <2> QED
    BY <2>1 DEF Readiness
<1>2. CASE cs # <<>> /\ s # 0
  <2>1. v.readiness = Readiness("SUCCESSFUL_RECLAIM")
    BY <1>2, VerdictOutcome DEF JudgeBreak, Spanning
  <2> QED
    BY <2>1 DEF Readiness
<1>3. CASE cs # <<>> /\ s = 0 /\ a = 0
  <2>1. v = Unattempted(zone, break, broken, interval, cs)
    BY <1>3 DEF JudgeBreak
  <2> HIDE DEF v
  <2>2. CASE ContinuationIndex(zone, break, broken, cs) = 0
    <3> DEFINE o == IF Len(cs) >= MaxSetupAge THEN "EXPIRED" ELSE "NO_ATTEMPT"
               base == Spanning(zone, interval, o, cs)
    <3>1. base.readiness = Readiness(o)
      BY VerdictOutcome DEF Spanning
    <3>2. v = [base EXCEPT !.closes_above_zone = 0, !.bars_above_zone = 0]
      BY <2>1, <2>2 DEF Unattempted
    <3>3. v.readiness = base.readiness
      BY <3>2 DEF Spanning, Verdict
    <3>4. o \in {"EXPIRED", "NO_ATTEMPT"}
      OBVIOUS
    <3> HIDE DEF o, base
    <3> QED
      BY <3>1, <3>3, <3>4 DEF Readiness, v
  <2>3. CASE ContinuationIndex(zone, break, broken, cs) # 0
    <3> DEFINE search == Take(cs, MaxPullback)
               b == BounceIndex(zone, break, search)
               k == ContinuationIndex(zone, break, broken, cs)
    <3>1. /\ v.rejection = search[b].open_time /\ v.rejection_low = broken.low
          /\ v.trigger = search[k].open_time
      BY <2>1, <2>3 DEF Unattempted, Continuation, Spanning, Verdict
    <3>2. /\ b \in 1..Len(search) /\ k \in 1..Len(search) /\ b < k
          /\ search[k].close < broken.low
      BY <2>3, ContinuationFound
    <3>3. /\ Len(search) = (IF Len(cs) < MaxPullback THEN Len(cs) ELSE MaxPullback)
          /\ \A i \in 1..Len(search) : search[i] = cs[i]
          /\ MaxPullback \in Nat
      <4>1. MaxPullback \in Nat
        BY ReclaimRulesAssumption
      <4> QED
        BY <1>0, <4>1, Slices
    <3> HIDE DEF search, b, k
    <3>4. b \in 1..Len(cs) /\ k \in 1..Len(cs) /\ search[b] = cs[b] /\ search[k] = cs[k]
      BY <1>0, <3>2, <3>3
    <3> QED
      BY <3>1, <3>2, <3>4 DEF Evidenced, v
  <2> QED
    BY <2>2, <2>3
<1>4. CASE cs # <<>> /\ s = 0 /\ a # 0
  <2>1. v = Attempted(zone, broken, interval, From(cs, a))
    BY <1>4 DEF JudgeBreak
  <2>2. /\ v.readiness = Readiness(v.outcome)
        /\ v.outcome \in {"INVALIDATED", "ATTEMPTING", "FAILED_RECLAIM", "FAILED_PULLBACK"}
    BY <2>1, AttemptedOutcome
  <2>3. v.outcome = "FAILED_PULLBACK"
    BY <2>2 DEF Readiness
  <2>4. PICK j \in 1..Len(cs), k \in 1..Len(cs) :
          /\ j < k /\ cs[k].close < cs[j].low
          /\ v.rejection = cs[j].open_time /\ v.trigger = cs[k].open_time
          /\ v.rejection_low = cs[j].low
    BY <1>0, <2>3, PullbackNamesEvidence
  <2>5. cs[j].low \in Int
    BY CandleFields
  <2> HIDE DEF v
  <2>6. Evidenced(v, cs)
    BY <2>4, <2>5 DEF Evidenced
  <2> QED
    BY <2>6 DEF v
<1> QED
  BY <1>1, <1>2, <1>3, <1>4

----------------------------------------------------------------------------
(* The events of a zone *)

\* What build_structure_events can say of these bars.
Ids(zone, bars) == {None} \cup {EventId(zone, bars[i], "CONFIRMED_BREAK") : i \in 1..Len(bars)}

EventsOf(zone, bars) ==
    {Event(zone, bars[i], state, id) : i \in 1..Len(bars), state \in EventStates,
                                       id \in Ids(zone, bars)}

Scans(zone, bars) ==
    [index : Nat, confirmed : Nat, confirmed_id : Ids(zone, bars), pending : BOOLEAN,
     ended : BOOLEAN, events : Seq(EventsOf(zone, bars))]

\* An iteration of the loop keeps the types of its local variables.
LEMMA ScanTyped ==
    ASSUME NEW zone, NEW bars, NEW i \in 1..Len(bars), NEW s \in Scans(zone, bars)
    PROVE  Scan(zone, s, bars[i]) \in Scans(zone, bars)
<1> DEFINE c == bars[i]
           I == Ids(zone, bars)
           E == EventsOf(zone, bars)
           n == [s EXCEPT !.index = s.index + 1]
           Emit(state, id) == Append(s.events, Event(zone, c, state, id))
<1>1. /\ s.index \in Nat /\ s.confirmed \in Nat /\ s.confirmed_id \in I
      /\ s.events \in Seq(E) /\ n \in Scans(zone, bars)
  BY DEF Scans
<1>2. None \in I /\ EventId(zone, c, "CONFIRMED_BREAK") \in I
  BY DEF Ids
<1>3. ASSUME NEW state \in EventStates, NEW id \in I PROVE Emit(state, id) \in Seq(E)
  <2>1. Event(zone, c, state, id) \in E
    BY DEF EventsOf
  <2> HIDE DEF E
  <2> QED
    BY <1>1, <2>1
<1>4. ReclaimState(n.index - s.confirmed) \in EventStates
  BY DEF ReclaimState, EventStates
<1>5. {"CONFIRMED_BREAK", "PENDING_BREAK", "INVALIDATED"} \subseteq EventStates
  BY DEF EventStates
<1>6. /\ Emit("CONFIRMED_BREAK", None) \in Seq(E) /\ Emit("PENDING_BREAK", None) \in Seq(E)
      /\ Emit("INVALIDATED", None) \in Seq(E)
      /\ Emit(ReclaimState(n.index - s.confirmed), s.confirmed_id) \in Seq(E)
  BY <1>1, <1>2, <1>3, <1>4, <1>5
<1> DEFINE a == [n EXCEPT !.confirmed = n.index,
                          !.confirmed_id = EventId(zone, c, "CONFIRMED_BREAK"),
                          !.events = Emit("CONFIRMED_BREAK", None)]
           b == [n EXCEPT !.pending = TRUE, !.events = Emit("PENDING_BREAK", None)]
           d == [n EXCEPT !.ended = TRUE, !.events = Emit("INVALIDATED", None)]
           e == [n EXCEPT !.ended = TRUE,
                          !.events = Emit(ReclaimState(n.index - s.confirmed), s.confirmed_id)]
<1>7. n.index \in Nat
  BY <1>1 DEF Scans
<1>8. Scan(zone, s, c) \in {s, a, b, d, e, n}
  BY DEF Scan
<1> HIDE DEF n, Emit
<1>9. a \in Scans(zone, bars)
  BY <1>1, <1>2, <1>6, <1>7 DEF Scans
<1>10. b \in Scans(zone, bars)
  BY <1>1, <1>6 DEF Scans
<1>11. d \in Scans(zone, bars)
  BY <1>1, <1>6 DEF Scans
<1>12. e \in Scans(zone, bars)
  BY <1>1, <1>6 DEF Scans
<1> QED
  BY <1>1, <1>8, <1>9, <1>10, <1>11, <1>12

ScansFrom(f, zone, bars) ==
    /\ f[0] = ScanStart
    /\ \A i \in 1..Len(bars) : f[i] = Scan(zone, f[i - 1], bars[i])

\* build_structure_events goes through the bars one after the other.
LEMMA ScanSteps ==
    ASSUME NEW zone, NEW candles, NEW S, Relevant(zone, candles) \in Seq(S)
    PROVE  LET bars == Relevant(zone, candles)
           IN \E f \in [0..Len(bars) -> Scans(zone, bars)] :
                /\ ScansFrom(f, zone, bars)
                /\ BuildStructureEvents(zone, candles) = f[Len(bars)].events
<1> DEFINE r == Relevant(zone, candles)
           n == Len(r)
           B == {r[i] : i \in 1..n}
           A == Scans(zone, r)
           Step(s, c) == Scan(zone, s, c)
           op == [s \in A |-> [c \in B |-> Step(s, c)]]
           Folds(g) == g = [s \in SUBSET DOMAIN r |->
                              IF s = {} THEN ScanStart ELSE Step(g[s \ {Max(s)}], r[Max(s)])]
<1>1. n \in Nat /\ DOMAIN r = 1..n /\ r \in Seq(B)
  OBVIOUS
<1>2. \A s \in A, c \in B : Step(s, c) \in A
  <2>1. ASSUME NEW s \in A, NEW i \in 1..n PROVE Step(s, r[i]) \in A
    <3> HIDE DEF r
    <3> QED
      BY ScanTyped
  <2> QED
    BY <2>1
<1>3. ScanStart \in A
  BY DEF ScanStart, Scans, Ids
<1>a. BuildStructureEvents(zone, candles) = (CHOOSE g : Folds(g))[DOMAIN r].events
  BY DEF BuildStructureEvents, FoldLeft, MapThenFoldSet
<1> HIDE DEF Step, A, B, r
<1>4. op \in [A -> [B -> A]]
  BY <1>2
<1>5. PICK it \in [SUBSET DOMAIN r -> A] : IsFold(it, ScanStart, r, op)
  <2> HIDE DEF op, Folds, n
  <2> QED
    BY <1>1, <1>3, <1>4, FoldExists, Zenon
<1>6. Folds(it)
  <2>1. ASSUME NEW s \in SUBSET DOMAIN r, s # {}
        PROVE  op[it[s \ {Max(s)}]][r[Max(s)]] = Step(it[s \ {Max(s)}], r[Max(s)])
    <3>1. s \subseteq 0..n
      BY <1>1
    <3>2. Max(s) \in 1..n
      <4> HIDE DEF n
      <4> QED
        BY <1>1, <2>1, <3>1, MaxOfBounded
    <3>3. r[Max(s)] \in B /\ s \ {Max(s)} \in SUBSET DOMAIN r
      BY <1>1, <3>2 DEF B
    <3>4. it[s \ {Max(s)}] \in A
      BY <3>3
    <3> QED
      BY <3>3, <3>4
  <2> HIDE DEF op
  <2> QED
    BY <1>5, <2>1 DEF IsFold
<1> DEFINE g == CHOOSE g : Folds(g)
<1>7. Folds(g)
  <2> HIDE DEF Folds
  <2> QED
    BY <1>6
<1>8. BuildStructureEvents(zone, candles) = g[DOMAIN r].events
  BY <1>a
<1> HIDE DEF g, op
<1> DEFINE f == [i \in 0..n |-> g[1..i]]
<1>9. f[0] = ScanStart
  <2>1. g[{}] = ScanStart
    BY <1>7
  <2>2. 1..0 = {} /\ 0 \in 0..n
    BY <1>1
  <2> QED
    BY <2>1, <2>2
<1>10. ASSUME NEW i \in 1..n PROVE f[i] = Step(f[i - 1], r[i])
  <2>1. /\ Max(1..i) = i /\ (1..i) \ {i} = 1..(i - 1) /\ i \in 1..i
        /\ 1..i \in SUBSET (1..n)
    <3> HIDE DEF n
    <3> QED
      BY <1>1, PrefixSets
  <2>2. g[1..i] = Step(g[(1..i) \ {Max(1..i)}], r[Max(1..i)])
    BY <1>1, <1>7, <2>1
  <2>3. g[1..i] = Step(g[1..(i - 1)], r[i])
    BY <2>1, <2>2
  <2>4. i \in 0..n /\ i - 1 \in 0..n
    BY <1>1
  <2> QED
    BY <2>3, <2>4
<1> DEFINE Typed == {i \in 0..n : f[i] \in A}
<1>11. 0..n \subseteq Typed
  <2>1. 0 \in Typed
    BY <1>1, <1>3, <1>9
  <2>2. ASSUME NEW i \in 1..n, i - 1 \in Typed PROVE i \in Typed
    <3> HIDE DEF f
    <3>1. r[i] \in B /\ f[i - 1] \in A /\ i \in 0..n
      BY <1>1, <2>2 DEF B
    <3> QED
      BY <1>2, <1>10, <3>1
  <2> HIDE DEF Typed, n
  <2> QED
    BY <1>1, <2>1, <2>2, SetInduction
<1>12. f \in [0..n -> A]
  BY <1>11
<1>13. BuildStructureEvents(zone, candles) = f[n].events
  <2>1. n \in 0..n
    BY <1>1
  <2> QED
    BY <1>1, <1>8, <2>1
<1>14. ScansFrom(f, zone, r)
  <2> HIDE DEF f
  <2> QED
    BY <1>9, <1>10 DEF ScansFrom, Step
<1> HIDE DEF f
<1> QED
  BY <1>12, <1>13, <1>14 DEF r, A

\* Every event is one of a candle of the batch.
LEMMA EventsOfCandles ==
    ASSUME NEW zone, NEW S, NEW candles \in Seq(S),
           NEW e \in ToSet(BuildStructureEvents(zone, candles))
    PROVE  \E i \in 1..Len(candles), state \in EventStates : \E id :
             e = Event(zone, candles[i], state, id)
<1> DEFINE late == Indices(candles, LAMBDA c : c.open_time >= zone.confirmed_at)
           bars == Relevant(zone, candles)
<1>1. bars = Kept(candles, late)
  BY DEF Relevant
<1> HIDE DEF late, bars
<1>2. /\ bars \in Seq(S)
      /\ \A m \in 1..Len(bars) : \E i \in 1..Len(candles) : bars[m] = candles[i]
  BY <1>1, KeptElements
<1>3. PICK f \in [0..Len(bars) -> Scans(zone, bars)] :
        BuildStructureEvents(zone, candles) = f[Len(bars)].events
  BY <1>2, ScanSteps DEF bars
<1>4. f[Len(bars)].events \in Seq(EventsOf(zone, bars))
  <2>1. Len(bars) \in 0..Len(bars)
    BY <1>2
  <2>2. f[Len(bars)] \in Scans(zone, bars)
    BY <1>3, <2>1
  <2> QED
    BY <2>2 DEF Scans
<1>5. e \in EventsOf(zone, bars)
  BY <1>3, <1>4 DEF ToSet
<1>6. PICK m \in 1..Len(bars), state \in EventStates, id \in Ids(zone, bars) :
        e = Event(zone, bars[m], state, id)
  BY <1>5 DEF EventsOf
<1> QED
  BY <1>2, <1>6

\* What the closing prices of bars 1..n say happened, B being the bars that
\* close below the zone, K those that confirm a break and A those that close
\* above it: the zone grows too old at i where nothing broke it before.
Ages(B, K, i) == i > MaxZoneAge /\ i \notin B /\ \A k \in 1..i : k \notin K
Open(B, K, i) == \A k \in 1..(i - 1) : k \notin K /\ ~Ages(B, K, k)
Broke(B, K, i) == i \in K /\ Open(B, K, i)

\* Bar k takes back the break at i.
TakesBack(B, K, A, i, k) ==
    /\ Broke(B, K, i) /\ i < k /\ k \in A
    /\ \A m \in (i + 1)..(k - 1) : m \notin A

\* A fact is what happened at a bar, and the bar whose break it takes back.
Facts(n) == [state : EventStates, at : 1..n, to : 0..n]
Fact(state, at, to) == [state |-> state, at |-> at, to |-> to]

Occurs(h, B, K, A) ==
    \/ /\ h.state = "PENDING_BREAK" /\ h.to = 0 /\ h.at \in B \ K
       /\ Open(B, K, h.at) /\ \A m \in 1..(h.at - 1) : m \notin B
    \/ h.state = "CONFIRMED_BREAK" /\ h.to = 0 /\ Broke(B, K, h.at)
    \/ h.state = "INVALIDATED" /\ h.to = 0 /\ Ages(B, K, h.at) /\ Open(B, K, h.at)
    \/ /\ h.to # 0 /\ TakesBack(B, K, A, h.to, h.at)
       /\ h.state = ReclaimState(h.at - h.to)

\* What the local variables of the loop say of the bars up to i.
Phase(s, i, B, K, A) ==
    /\ s.confirmed = 0 /\ ~s.ended => /\ Open(B, K, i + 1)
                                      /\ s.pending <=> \E k \in 1..i : k \in B
    /\ s.confirmed = 0 /\ s.ended => \E k \in 1..i : Ages(B, K, k) /\ Open(B, K, k)
    /\ s.confirmed # 0 => s.confirmed \in 1..i /\ Broke(B, K, s.confirmed)
    /\ s.confirmed # 0 /\ ~s.ended => \A m \in (s.confirmed + 1)..i : m \notin A
    /\ s.confirmed # 0 /\ s.ended => \E k \in 1..i : TakesBack(B, K, A, s.confirmed, k)

\* The fact that an iteration of the loop finds, if any.
Finds(h, s, i, B, K, A) ==
    /\ ~s.ended
    /\ \/ s.confirmed = 0 /\ i \in K /\ h = Fact("CONFIRMED_BREAK", i, 0)
       \/ s.confirmed = 0 /\ i \in B \ K /\ ~s.pending /\ h = Fact("PENDING_BREAK", i, 0)
       \/ s.confirmed = 0 /\ i \notin B /\ i > MaxZoneAge /\ h = Fact("INVALIDATED", i, 0)
       \/ s.confirmed # 0 /\ i \in A /\ h = Fact(ReclaimState(i - s.confirmed), i, s.confirmed)

\* There is one break, and none of a zone that grew too old.
LEMMA OneBreak ==
    ASSUME NEW B, NEW K, NEW c \in Nat, Broke(B, K, c), NEW d \in Nat \ {0},
           Broke(B, K, d) \/ (Ages(B, K, d) /\ Open(B, K, d)), c # 0
    PROVE  Broke(B, K, d) /\ c = d
<1>1. c \in K /\ \A k \in 1..(c - 1) : k \notin K /\ ~Ages(B, K, k)
  BY DEF Broke, Open
<1>2. CASE Broke(B, K, d)
  <2>1. d \in K /\ \A k \in 1..(d - 1) : k \notin K
    BY <1>2 DEF Broke, Open
  <2> QED
    BY <1>1, <1>2, <2>1
<1>3. CASE Ages(B, K, d) /\ Open(B, K, d)
  <2>1. \A k \in 1..d : k \notin K
    BY <1>3 DEF Ages
  <2> QED
    BY <1>1, <1>3, <2>1
<1> QED
  BY <1>2, <1>3

\* It finds what happened at its bar.
LEMMA FindsWhatOccurs ==
    ASSUME NEW n \in Nat, NEW B, NEW K \in SUBSET B, NEW A, NEW i \in 1..n, NEW s,
           s.confirmed \in Nat, s.pending \in BOOLEAN, s.ended \in BOOLEAN,
           Phase(s, i - 1, B, K, A),
           NEW h \in Facts(n), h.at = i
    PROVE  Occurs(h, B, K, A) <=> Finds(h, s, i, B, K, A)
<1>0. /\ MaxZoneAge \in Nat /\ (i - 1) + 1 = i /\ i # 0 /\ i \in Nat /\ i - 1 \in Nat
      /\ \A k \in 1..(i - 1) : k \in 1..i /\ k < i /\ k \in Nat /\ k # 0
  BY StructureRulesAssumption
<1>1. /\ h.state \in EventStates /\ h.to \in 0..n
      /\ \A x \in EventStates, y \in 0..n : (h.state = x /\ h.to = y) <=> h = Fact(x, i, y)
  BY DEF Facts, Fact
<1>2. /\ {"PENDING_BREAK", "CONFIRMED_BREAK", "INVALIDATED"} \subseteq EventStates
      /\ \A m : ReclaimState(m) \in EventStates
  BY DEF EventStates, ReclaimState
<1>3. CASE s.confirmed = 0 /\ ~s.ended
  <2>1. Open(B, K, i) /\ (s.pending <=> \E k \in 1..(i - 1) : k \in B)
    BY <1>0, <1>3 DEF Phase
  <2>2. \A k \in 1..(i - 1) : k \notin K
    BY <2>1 DEF Open
  <2>3. \A k \in 0..n : k # 0 => ~TakesBack(B, K, A, k, i)
    BY <1>0, <2>2 DEF TakesBack, Broke
  <2>4. Ages(B, K, i) <=> i > MaxZoneAge /\ i \notin B
    BY <1>0, <2>2 DEF Ages
  <2>5. Broke(B, K, i) <=> i \in K
    BY <2>1 DEF Broke
  <2>6. (\A m \in 1..(i - 1) : m \notin B) <=> ~s.pending
    BY <2>1
  <2>7. 0 \in 0..n
    OBVIOUS
  <2> QED
    BY <1>1, <1>2, <1>3, <2>1, <2>3, <2>4, <2>5, <2>6, <2>7 DEF Occurs, Finds
<1>4. CASE s.confirmed = 0 /\ s.ended
  <2>1. PICK k \in 1..(i - 1) : Ages(B, K, k) /\ Open(B, K, k)
    BY <1>4 DEF Phase
  <2>2. ~Open(B, K, i)
    BY <2>1 DEF Open
  <2>3. \A c \in 0..n : c # 0 => ~TakesBack(B, K, A, c, i)
    BY <1>0, <2>1, OneBreak DEF TakesBack, Ages, Broke
  <2> QED
    BY <1>1, <1>4, <2>2, <2>3 DEF Occurs, Finds, Broke
<1>5. CASE s.confirmed # 0
  <2>1. s.confirmed \in 1..(i - 1) /\ Broke(B, K, s.confirmed)
    BY <1>5 DEF Phase
  <2>2. ~Open(B, K, i)
    BY <2>1 DEF Open, Broke
  <2>3. \A c \in 0..n : c # 0 /\ TakesBack(B, K, A, c, i) => c = s.confirmed
    <3> SUFFICES ASSUME NEW c \in 0..n, c # 0, Broke(B, K, c) PROVE c = s.confirmed
      BY DEF TakesBack
    <3>1. c \in Nat /\ s.confirmed \in Nat \ {0}
      BY <1>5
    <3> QED
      BY <2>1, <3>1, OneBreak
  <2>4. s.confirmed \in 0..n /\ s.confirmed < i
    BY <2>1
  <2>5. TakesBack(B, K, A, s.confirmed, i) <=> i \in A /\ ~s.ended
    <3>1. CASE ~s.ended
      BY <1>5, <2>1, <2>4, <3>1 DEF TakesBack, Phase
    <3>2. CASE s.ended
      <4>1. PICK k \in 1..(i - 1) : TakesBack(B, K, A, s.confirmed, k)
        BY <1>5, <3>2 DEF Phase
      <4>2. k \in A /\ k \in (s.confirmed + 1)..(i - 1)
        BY <1>0, <2>1, <4>1 DEF TakesBack
      <4> QED
        BY <3>2, <4>2 DEF TakesBack
    <3> QED
      BY <3>1, <3>2
  <2>6. Occurs(h, B, K, A) <=> /\ h.to = s.confirmed /\ h.state = ReclaimState(i - s.confirmed)
                               /\ i \in A /\ ~s.ended
    BY <1>1, <1>5, <2>2, <2>3, <2>5 DEF Occurs, Broke
  <2>7. (h.to = s.confirmed /\ h.state = ReclaimState(i - s.confirmed))
          <=> h = Fact(ReclaimState(i - s.confirmed), i, s.confirmed)
    BY <1>1, <1>2, <2>4
  <2> QED
    BY <1>5, <2>6, <2>7 DEF Finds
<1> QED
  BY <1>3, <1>4, <1>5

BelowBars(zone, bars) == {i \in 1..Len(bars) : ClosesBelow(zone, bars[i])}
BreakBars(zone, bars) == {i \in 1..Len(bars) : ConfirmsBreak(zone, bars[i])}
AboveBars(zone, bars) == {i \in 1..Len(bars) : ClosesAbove(zone, bars[i])}

\* The event that tells a fact.
EventTelling(zone, bars, h) ==
    Event(zone, bars[h.at], h.state,
          IF h.to = 0 THEN None ELSE EventId(zone, bars[h.to], "CONFIRMED_BREAK"))

\* The loop after i bars.
ScanInv(zone, s, bars, i) ==
    /\ Phase(s, i, BelowBars(zone, bars), BreakBars(zone, bars), AboveBars(zone, bars))
    /\ ~s.ended => s.index = i
    /\ s.confirmed # 0 =>
         s.confirmed_id = EventId(zone, bars[s.confirmed], "CONFIRMED_BREAK")

\* The events after one more bar tell what it found.
FindsEvent(zone, s, t, bars, i) ==
    LET finds(h) == Finds(h, s, i, BelowBars(zone, bars), BreakBars(zone, bars),
                        AboveBars(zone, bars))
    IN \/ t.events = s.events /\ \A h \in Facts(Len(bars)) : ~finds(h)
       \/ \E g \in Facts(Len(bars)) :
            /\ t.events = Append(s.events, EventTelling(zone, bars, g))
            /\ g.at = i /\ \A h \in Facts(Len(bars)) : finds(h) <=> h = g

\* An iteration of the loop leaves its variables and its events as they should be.
LEMMA ScanTells ==
    ASSUME NEW zone, NEW bars, Len(bars) \in Nat, NEW i \in 1..Len(bars),
           NEW s \in Scans(zone, bars), ScanInv(zone, s, bars, i - 1)
    PROVE  LET t == Scan(zone, s, bars[i])
           IN ScanInv(zone, t, bars, i) /\ FindsEvent(zone, s, t, bars, i)
<1> DEFINE n == Len(bars)
           c == bars[i]
           B == BelowBars(zone, bars)
           K == BreakBars(zone, bars)
           A == AboveBars(zone, bars)
           t == Scan(zone, s, c)
           m == [s EXCEPT !.index = s.index + 1]
           cid == EventId(zone, c, "CONFIRMED_BREAK")
<1>1. /\ i \in B <=> ClosesBelow(zone, c)
      /\ i \in K <=> ConfirmsBreak(zone, c)
      /\ i \in A <=> ClosesAbove(zone, c)
      /\ K \subseteq B
  BY DEF BelowBars, BreakBars, AboveBars, ConfirmsBreak
<1>2. /\ s.index \in Nat /\ s.confirmed \in Nat /\ s.pending \in BOOLEAN /\ s.ended \in BOOLEAN
      /\ m.index = s.index + 1 /\ m.confirmed = s.confirmed /\ m.confirmed_id = s.confirmed_id
      /\ m.pending = s.pending /\ m.ended = s.ended /\ m.events = s.events
  BY DEF Scans
<1>3. /\ Phase(s, i - 1, B, K, A) /\ (~s.ended => s.index + 1 = i)
      /\ s.confirmed # 0 => s.confirmed_id = EventId(zone, bars[s.confirmed], "CONFIRMED_BREAK")
      /\ s.confirmed # 0 => s.confirmed \in 1..(i - 1) /\ Broke(B, K, s.confirmed)
  BY DEF ScanInv, Phase
<1>4. /\ MaxZoneAge \in Nat /\ (i - 1) + 1 = i /\ i # 0 /\ i \in Nat /\ i - 1 \in Nat
      /\ 1..i = (1..(i - 1)) \cup {i} /\ (i + 1) - 1 = i
  BY StructureRulesAssumption
<1>5. /\ \A state \in EventStates, to \in 0..n :
           /\ Fact(state, i, to) \in Facts(n) /\ Fact(state, i, to).at = i
           /\ Fact(state, i, to).state = state /\ Fact(state, i, to).to = to
      /\ {"PENDING_BREAK", "CONFIRMED_BREAK", "INVALIDATED"} \subseteq EventStates
      /\ \A k : ReclaimState(k) \in EventStates
      /\ 0 \in 0..n
  BY DEF Fact, Facts, EventStates, ReclaimState
<1>6. SUFFICES /\ Phase(t, i, B, K, A) /\ (~t.ended => t.index = i)
               /\ t.confirmed # 0 => t.confirmed_id = EventId(zone, bars[t.confirmed], "CONFIRMED_BREAK")
               /\ \/ t.events = s.events /\ \A h \in Facts(n) : ~Finds(h, s, i, B, K, A)
                  \/ \E g \in Facts(n) :
                       /\ t.events = Append(s.events, EventTelling(zone, bars, g))
                       /\ g.at = i /\ \A h \in Facts(n) : Finds(h, s, i, B, K, A) <=> h = g
  BY DEF ScanInv, FindsEvent
<1>7. /\ s.ended => t = s
      /\ ~s.ended /\ s.confirmed = 0 /\ i \in K =>
           t = [m EXCEPT !.confirmed = m.index, !.confirmed_id = cid,
                         !.events = Append(s.events, Event(zone, c, "CONFIRMED_BREAK", None))]
      /\ ~s.ended /\ s.confirmed = 0 /\ i \in B \ K /\ ~s.pending =>
           t = [m EXCEPT !.pending = TRUE,
                         !.events = Append(s.events, Event(zone, c, "PENDING_BREAK", None))]
      /\ ~s.ended /\ s.confirmed = 0 /\ i \notin B /\ i > MaxZoneAge =>
           t = [m EXCEPT !.ended = TRUE,
                         !.events = Append(s.events, Event(zone, c, "INVALIDATED", None))]
      /\ ~s.ended /\ s.confirmed # 0 /\ i \in A =>
           t = [m EXCEPT !.ended = TRUE,
                         !.events = Append(s.events, Event(zone, c, ReclaimState(m.index - s.confirmed),
                                                           s.confirmed_id))]
      /\ ~s.ended /\ s.confirmed = 0 /\ i \in B \ K /\ s.pending => t = m
      /\ ~s.ended /\ s.confirmed = 0 /\ i \notin B /\ ~(i > MaxZoneAge) => t = m
      /\ ~s.ended /\ s.confirmed # 0 /\ i \notin A => t = m
  <2> DEFINE below == ClosesBelow(zone, c)
             above == ClosesAbove(zone, c)
             strong == ConfirmsBreak(zone, c)
             old == m.index > MaxZoneAge
  <2>1. strong => below
    BY DEF ConfirmsBreak
  <2>2. ~s.ended => (old <=> i > MaxZoneAge)
    BY <1>2, <1>3
  <2>3. t = CASE s.ended -> s
         [] ~s.ended /\ s.confirmed = 0 /\ strong ->
              [m EXCEPT !.confirmed = m.index, !.confirmed_id = cid,
                        !.events = Append(s.events, Event(zone, c, "CONFIRMED_BREAK", None))]
         [] ~s.ended /\ s.confirmed = 0 /\ below /\ ~strong /\ ~s.pending ->
              [m EXCEPT !.pending = TRUE,
                        !.events = Append(s.events, Event(zone, c, "PENDING_BREAK", None))]
         [] ~s.ended /\ s.confirmed = 0 /\ ~below /\ old ->
              [m EXCEPT !.ended = TRUE,
                        !.events = Append(s.events, Event(zone, c, "INVALIDATED", None))]
         [] ~s.ended /\ s.confirmed # 0 /\ above ->
              [m EXCEPT !.ended = TRUE,
                        !.events = Append(s.events, Event(zone, c, ReclaimState(m.index - s.confirmed),
                                                          s.confirmed_id))]
         [] OTHER -> m
    BY DEF Scan
  <2> HIDE DEF below, above, strong, t, m, old, c, cid
  <2> QED
    BY <1>1, <2>1, <2>2, <2>3 DEF below, above, strong
<1> HIDE DEF t, B, K, A
<1>8. CASE s.ended
  <2>1. t = s
    BY <1>7, <1>8
  <2>2. Phase(s, i, B, K, A)
    BY <1>3, <1>4, <1>8 DEF Phase
  <2> QED
    BY <1>3, <1>8, <2>1, <2>2 DEF Finds
<1>9. CASE ~s.ended /\ s.confirmed = 0 /\ i \in K
  <2> DEFINE g == Fact("CONFIRMED_BREAK", i, 0)
  <2>1. /\ t.confirmed = i /\ t.confirmed_id = cid /\ t.ended = s.ended /\ t.index = i
        /\ t.events = Append(s.events, Event(zone, c, "CONFIRMED_BREAK", None))
    BY <1>2, <1>3, <1>7, <1>9 DEF Scans
  <2>2. Broke(B, K, i)
    BY <1>3, <1>4, <1>9 DEF Phase, Broke
  <2>3. Phase(t, i, B, K, A)
    BY <1>4, <1>9, <2>1, <2>2 DEF Phase
  <2>4. g \in Facts(n) /\ g.at = i /\ EventTelling(zone, bars, g) = Event(zone, c, "CONFIRMED_BREAK", None)
    BY <1>5 DEF EventTelling
  <2>5. \A h : Finds(h, s, i, B, K, A) <=> h = g
    BY <1>1, <1>9 DEF Finds
  <2> HIDE DEF g
  <2> QED
    BY <1>4, <1>9, <2>1, <2>3, <2>4, <2>5
<1>10. CASE ~s.ended /\ s.confirmed = 0 /\ i \in B \ K /\ ~s.pending
  <2> DEFINE g == Fact("PENDING_BREAK", i, 0)
  <2>1. /\ t.confirmed = 0 /\ t.pending = TRUE /\ t.ended = s.ended /\ t.index = i
        /\ t.events = Append(s.events, Event(zone, c, "PENDING_BREAK", None))
    BY <1>2, <1>3, <1>7, <1>10 DEF Scans
  <2>2. Open(B, K, i + 1)
    BY <1>3, <1>4, <1>10 DEF Phase, Open, Ages
  <2>3. Phase(t, i, B, K, A)
    BY <1>4, <1>10, <2>1, <2>2 DEF Phase
  <2>4. g \in Facts(n) /\ g.at = i /\ EventTelling(zone, bars, g) = Event(zone, c, "PENDING_BREAK", None)
    BY <1>5 DEF EventTelling
  <2>5. \A h : Finds(h, s, i, B, K, A) <=> h = g
    BY <1>10 DEF Finds
  <2> HIDE DEF g
  <2> QED
    BY <1>4, <1>10, <2>1, <2>3, <2>4, <2>5
<1>11. CASE ~s.ended /\ s.confirmed = 0 /\ i \notin B /\ i > MaxZoneAge
  <2> DEFINE g == Fact("INVALIDATED", i, 0)
  <2>1. /\ t.confirmed = 0 /\ t.ended = TRUE
        /\ t.events = Append(s.events, Event(zone, c, "INVALIDATED", None))
    BY <1>2, <1>3, <1>7, <1>11 DEF Scans
  <2>2. Ages(B, K, i) /\ Open(B, K, i)
    BY <1>1, <1>3, <1>4, <1>11 DEF Phase, Open, Ages
  <2>3. Phase(t, i, B, K, A)
    BY <1>4, <1>11, <2>1, <2>2 DEF Phase
  <2>4. g \in Facts(n) /\ g.at = i /\ EventTelling(zone, bars, g) = Event(zone, c, "INVALIDATED", None)
    BY <1>5 DEF EventTelling
  <2>5. \A h : Finds(h, s, i, B, K, A) <=> h = g
    BY <1>1, <1>11 DEF Finds
  <2> HIDE DEF g
  <2> QED
    BY <1>4, <1>11, <2>1, <2>3, <2>4, <2>5
<1>12. CASE ~s.ended /\ s.confirmed # 0 /\ i \in A
  <2> DEFINE state == ReclaimState(i - s.confirmed)
             g == Fact(state, i, s.confirmed)
  <2>1. /\ t.confirmed = s.confirmed /\ t.ended = TRUE /\ t.confirmed_id = s.confirmed_id
        /\ t.events = Append(s.events, Event(zone, c, state, s.confirmed_id))
    BY <1>2, <1>3, <1>7, <1>12 DEF Scans
  <2>2. TakesBack(B, K, A, s.confirmed, i)
    BY <1>3, <1>4, <1>12 DEF Phase, TakesBack
  <2>3. Phase(t, i, B, K, A)
    BY <1>3, <1>4, <1>12, <2>1, <2>2 DEF Phase
  <2>4. g \in Facts(n) /\ g.at = i /\ EventTelling(zone, bars, g) = Event(zone, c, state, s.confirmed_id)
    <3>1. s.confirmed \in 0..n /\ state \in EventStates
      BY <1>3, <1>5, <1>12
    <3> QED
      BY <1>3, <1>5, <1>12, <3>1 DEF EventTelling
  <2>5. \A h : Finds(h, s, i, B, K, A) <=> h = g
    BY <1>12 DEF Finds
  <2> HIDE DEF g, state
  <2> QED
    BY <1>3, <1>12, <2>1, <2>3, <2>4, <2>5
<1>13. CASE ~s.ended /\ s.confirmed = 0 /\ i \in B \ K /\ s.pending
  <2>1. t = m /\ m.index = i
    BY <1>2, <1>3, <1>7, <1>13
  <2>2. Open(B, K, i + 1)
    BY <1>3, <1>4, <1>13 DEF Phase, Open, Ages
  <2>3. Phase(m, i, B, K, A)
    BY <1>2, <1>4, <1>13, <2>2 DEF Phase
  <2> HIDE DEF m
  <2> QED
    BY <1>2, <1>3, <1>13, <2>1, <2>3 DEF Finds
<1>14. CASE ~s.ended /\ s.confirmed = 0 /\ i \notin B /\ ~(i > MaxZoneAge)
  <2>1. t = m /\ m.index = i
    BY <1>2, <1>3, <1>7, <1>14
  <2>2. Open(B, K, i + 1)
    BY <1>1, <1>3, <1>4, <1>14 DEF Phase, Open, Ages
  <2>3. m.pending <=> \E k \in 1..i : k \in B
    BY <1>2, <1>3, <1>4, <1>14 DEF Phase
  <2>4. Phase(m, i, B, K, A)
    BY <1>2, <1>14, <2>2, <2>3 DEF Phase
  <2> HIDE DEF m
  <2> QED
    BY <1>1, <1>2, <1>3, <1>14, <2>1, <2>4 DEF Finds
<1>15. CASE ~s.ended /\ s.confirmed # 0 /\ i \notin A
  <2>1. t = m /\ m.index = i
    BY <1>2, <1>3, <1>7, <1>15
  <2>2. \A k \in (s.confirmed + 1)..i : k \notin A
    BY <1>3, <1>4, <1>15 DEF Phase
  <2>3. Phase(m, i, B, K, A)
    BY <1>2, <1>3, <1>4, <1>15, <2>2 DEF Phase
  <2> HIDE DEF m
  <2> QED
    BY <1>2, <1>3, <1>15, <2>1, <2>3 DEF Finds
<1>16. QED
  BY <1>1, <1>2, <1>8, <1>9, <1>10, <1>11, <1>12, <1>13, <1>14, <1>15

\* events tell the facts hs, which are all that happened up to bar i, in order.
Telling(hs, zone, bars, events, i) ==
    /\ hs \in Seq(Facts(Len(bars))) /\ Len(events) = Len(hs)
    /\ \A m \in 1..Len(hs) : hs[m].at <= i /\ events[m] = EventTelling(zone, bars, hs[m])
    /\ \A l, m \in 1..Len(hs) : l < m => hs[l].at < hs[m].at
    /\ \A h \in Facts(Len(bars)) :
         (/\ h.at <= i
          /\ Occurs(h, BelowBars(zone, bars), BreakBars(zone, bars), AboveBars(zone, bars)))
         <=> \E m \in 1..Len(hs) : h = hs[m]

\* One more bar.
LEMMA TellingStep ==
    ASSUME NEW zone, NEW bars, Len(bars) \in Nat, NEW i \in 1..Len(bars),
           NEW s \in Scans(zone, bars), ScanInv(zone, s, bars, i - 1),
           NEW t, FindsEvent(zone, s, t, bars, i),
           NEW hs, Telling(hs, zone, bars, s.events, i - 1)
    PROVE  \E gs : Telling(gs, zone, bars, t.events, i)
<1> DEFINE n == Len(bars)
           B == BelowBars(zone, bars)
           K == BreakBars(zone, bars)
           A == AboveBars(zone, bars)
           T(h) == EventTelling(zone, bars, h)
           O(h) == Occurs(h, B, K, A)
<1>1. \A h \in Facts(n) : h.at = i => (O(h) <=> Finds(h, s, i, B, K, A))
  <2>1. K \in SUBSET B
    BY DEF BelowBars, BreakBars, ConfirmsBreak
  <2>2. s.confirmed \in Nat /\ s.pending \in BOOLEAN /\ s.ended \in BOOLEAN
    BY DEF Scans
  <2>3. Phase(s, i - 1, B, K, A)
    BY DEF ScanInv
  <2> HIDE DEF B, K, A, n
  <2> QED
    BY <2>1, <2>2, <2>3, FindsWhatOccurs DEF n
<1>2. /\ hs \in Seq(Facts(n)) /\ Len(s.events) = Len(hs) /\ Len(hs) \in Nat
      /\ \A m \in 1..Len(hs) : hs[m].at <= i - 1 /\ s.events[m] = T(hs[m])
      /\ \A l, m \in 1..Len(hs) : l < m => hs[l].at < hs[m].at
      /\ \A h \in Facts(n) : (h.at <= i - 1 /\ O(h)) <=> \E m \in 1..Len(hs) : h = hs[m]
  <2>1. hs \in Seq(Facts(n)) => Len(hs) \in Nat
    OBVIOUS
  <2> QED
    BY <2>1, Zenon DEF Telling
<1>3. \A h \in Facts(n) : h.at \in Nat
  BY DEF Facts
<1>4. \/ t.events = s.events /\ \A h \in Facts(n) : ~Finds(h, s, i, B, K, A)
      \/ \E g \in Facts(n) : /\ t.events = Append(s.events, T(g)) /\ g.at = i
                             /\ \A h \in Facts(n) : Finds(h, s, i, B, K, A) <=> h = g
  BY DEF FindsEvent
<1>5. s.events \in Seq(EventsOf(zone, bars))
  BY DEF Scans
<1>6. SUFFICES \E gs : /\ gs \in Seq(Facts(n)) /\ Len(t.events) = Len(gs)
                       /\ \A m \in 1..Len(gs) : gs[m].at <= i /\ t.events[m] = T(gs[m])
                       /\ \A l, m \in 1..Len(gs) : l < m => gs[l].at < gs[m].at
                       /\ \A h \in Facts(n) :
                            (h.at <= i /\ O(h)) <=> \E m \in 1..Len(gs) : h = gs[m]
  BY DEF Telling
<1>7. \A h \in Facts(n) : h.at <= i <=> (h.at <= i - 1 \/ h.at = i)
  BY <1>3
<1>8. CASE t.events = s.events /\ \A h \in Facts(n) : ~Finds(h, s, i, B, K, A)
  <2>1. \A m \in 1..Len(hs) : hs[m].at <= i
    BY <1>2, <1>3
  <2>2. \A h \in Facts(n) : (h.at <= i /\ O(h)) <=> (h.at <= i - 1 /\ O(h))
    BY <1>1, <1>7, <1>8
  <2> HIDE DEF n, O, T
  <2> QED
    BY <1>2, <1>8, <2>1, <2>2
<1>9. CASE \E g \in Facts(n) : /\ t.events = Append(s.events, T(g)) /\ g.at = i
                              /\ \A h \in Facts(n) : Finds(h, s, i, B, K, A) <=> h = g
  <2>1. PICK g \in Facts(n) : /\ t.events = Append(s.events, T(g)) /\ g.at = i
                              /\ \A h \in Facts(n) : Finds(h, s, i, B, K, A) <=> h = g
    BY <1>9
  <2> DEFINE gs == Append(hs, g)
  <2> HIDE DEF n, O, T
  <2>2. /\ gs \in Seq(Facts(n)) /\ Len(gs) = Len(hs) + 1
        /\ \A m \in 1..Len(hs) : gs[m] = hs[m]
        /\ gs[Len(hs) + 1] = g
    BY <1>2
  <2>3. /\ Len(t.events) = Len(hs) + 1 /\ t.events[Len(hs) + 1] = T(g)
        /\ \A m \in 1..Len(hs) : t.events[m] = s.events[m]
    BY <1>2, <1>5, <2>1
  <2> HIDE DEF gs
  <2>4. \A m \in 1..Len(gs) : m \in 1..Len(hs) \/ m = Len(hs) + 1
    BY <1>2, <2>2
  <2>5. \A m \in 1..Len(gs) : gs[m].at <= i /\ t.events[m] = T(gs[m])
    BY <1>2, <1>3, <2>1, <2>2, <2>3, <2>4
  <2>6. \A l, m \in 1..Len(gs) : l < m => gs[l].at < gs[m].at
    <3> SUFFICES ASSUME NEW l \in 1..Len(gs), NEW m \in 1..Len(gs), l < m
                 PROVE  gs[l].at < gs[m].at
      OBVIOUS
    <3>1. l \in 1..Len(hs)
      BY <1>2, <2>2
    <3>2. CASE m \in 1..Len(hs)
      BY <1>2, <2>2, <3>1, <3>2
    <3>3. CASE m = Len(hs) + 1
      <4>1. gs[l] = hs[l] /\ gs[m] = g
        BY <2>2, <3>1, <3>3
      <4>2. hs[l].at <= i - 1 /\ hs[l] \in Facts(n)
        BY <1>2, <3>1
      <4>3. hs[l].at \in Nat /\ g.at = i
        BY <1>3, <2>1, <4>2
      <4> QED
        BY <4>1, <4>2, <4>3
    <3> QED
      BY <2>4, <3>2, <3>3
  <2>7. ASSUME NEW h \in Facts(n)
        PROVE  (h.at <= i /\ O(h)) <=> \E m \in 1..Len(gs) : h = gs[m]
    <3>1. (h.at <= i /\ O(h)) <=> ((h.at <= i - 1 /\ O(h)) \/ h = g)
      BY <1>1, <1>7, <2>1
    <3>2. (\E m \in 1..Len(gs) : h = gs[m]) <=> ((\E m \in 1..Len(hs) : h = hs[m]) \/ h = g)
      <4>1. 1..Len(hs) \subseteq 1..Len(gs) /\ Len(hs) + 1 \in 1..Len(gs)
        BY <1>2, <2>2
      <4> QED
        BY <2>2, <2>4, <4>1
    <3> QED
      BY <1>2, <3>1, <3>2
  <2> QED
    BY <2>2, <2>3, <2>5, <2>6, <2>7
<1> QED
  BY <1>4, <1>8, <1>9

\* build_structure_events tells what the closing prices say happened to the
\* zone, no more and no less, in the order of time, whatever the zone, the
\* rules and the candles: at most one break, fake if it is taken back within
\* the window, reclaimed by the first close above, and an age only of a zone
\* that did not break.
THEOREM EventsTell ==
    ASSUME NEW zone, NEW S, NEW candles \in Seq(S)
    PROVE  LET bars == Relevant(zone, candles)
               events == BuildStructureEvents(zone, candles)
           IN /\ events \in Seq(EventsOf(zone, bars))
              /\ \E hs : Telling(hs, zone, bars, events, Len(bars))
<1> DEFINE bars == Relevant(zone, candles)
           n == Len(bars)
<1>1. bars \in Seq(S)
  BY KeptElements DEF Relevant
<1>2. PICK f \in [0..n -> Scans(zone, bars)] :
        ScansFrom(f, zone, bars) /\ BuildStructureEvents(zone, candles) = f[n].events
  BY <1>1, ScanSteps
<1> HIDE DEF bars
<1>3. n \in Nat
  BY <1>1
<1> DEFINE R == {i \in 0..n : /\ ScanInv(zone, f[i], bars, i)
                              /\ \E hs : Telling(hs, zone, bars, f[i].events, i)}
<1>4. 0 \in R
  <2>1. f[0] = ScanStart
    BY <1>2 DEF ScansFrom
  <2>2. ScanInv(zone, ScanStart, bars, 0)
    BY DEF ScanInv, ScanStart, Phase, Open
  <2>3. Telling(<<>>, zone, bars, <<>>, 0)
    <3>1. \A h \in Facts(Len(bars)) : ~(h.at <= 0)
      BY <1>3 DEF Facts
    <3> QED
      BY <3>1 DEF Telling
  <2>4. ScanStart.events = <<>>
    BY DEF ScanStart
  <2> QED
    BY <1>3, <2>1, <2>2, <2>3, <2>4
<1>5. ASSUME NEW i \in 1..n, i - 1 \in R PROVE i \in R
  <2>1. i \in 0..n /\ i - 1 \in 0..n
    BY <1>3
  <2>2. f[i] = Scan(zone, f[i - 1], bars[i])
    BY <1>2 DEF ScansFrom
  <2>3. f[i - 1] \in Scans(zone, bars) /\ ScanInv(zone, f[i - 1], bars, i - 1)
    BY <1>5, <2>1
  <2>4. PICK hs : Telling(hs, zone, bars, f[i - 1].events, i - 1)
    BY <1>5
  <2>5. ScanInv(zone, f[i], bars, i) /\ FindsEvent(zone, f[i - 1], f[i], bars, i)
    BY <1>3, <2>2, <2>3, ScanTells
  <2>6. \E gs : Telling(gs, zone, bars, f[i].events, i)
    BY <1>3, <2>3, <2>4, <2>5, TellingStep
  <2> QED
    BY <2>1, <2>5, <2>6
<1>6. 0..n \subseteq R
  <2> HIDE DEF R, n
  <2> QED
    BY <1>3, <1>4, <1>5, SetInduction
<1>7. n \in R
  BY <1>3, <1>6
<1>8. f[n].events \in Seq(EventsOf(zone, bars))
  <2>1. f[n] \in Scans(zone, bars)
    BY <1>2, <1>3
  <2> QED
    BY <2>1 DEF Scans
<1> QED
  BY <1>2, <1>7, <1>8 DEF bars

----------------------------------------------------------------------------
(* The pivots *)

\* The pivots after position i of the batch.
PivotStep(cs, pivots, i) ==
    IF i \in PivotPositions(cs) /\ IsPivot(cs, i) THEN AddPivot(cs, pivots, i) ELSE pivots

Pivots(f, cs) ==
    f[0] = <<>> /\ \A i \in 1..Len(cs) : f[i] = PivotStep(cs, f[i - 1], i)

\* A pivot is added to the others, or takes the place of the last if it is lower.
LEMMA PivotAdded ==
    ASSUME NEW cs, NEW n \in Nat, NEW p \in Seq(1..n), NEW i \in 1..n
    PROVE  /\ AddPivot(cs, p, i) \in Seq(1..n)
           /\ \/ AddPivot(cs, p, i) = p
              \/ AddPivot(cs, p, i) = Append(p, i)
              \/ /\ p # <<>> /\ AddPivot(cs, p, i) = Append(Front(p), i)
                 /\ cs[i].low < cs[Last(p)].low
<1>1. \/ AddPivot(cs, p, i) = p
      \/ AddPivot(cs, p, i) = Append(p, i)
      \/ /\ p # <<>> /\ AddPivot(cs, p, i) = Append(Front(p), i)
         /\ cs[i].low < cs[Last(p)].low
  BY DEF AddPivot
<1>2. p # <<>> => Front(p) \in Seq(1..n)
  BY DEF Front
<1> DEFINE I == 1..n
<1>3. \A q \in Seq(I) : Append(q, i) \in Seq(I)
  <2>1. i \in I
    OBVIOUS
  <2> HIDE DEF I
  <2> QED
    BY <2>1
<1> HIDE DEF I
<1> QED
  BY <1>1, <1>2, <1>3 DEF I

\* _find_pivots goes through the batch one position after the other.
LEMMA PivotSteps ==
    ASSUME NEW S, NEW cs \in Seq(S)
    PROVE  \E f \in [0..Len(cs) -> Seq(1..Len(cs))] :
             Pivots(f, cs) /\ FindPivots(cs) = f[Len(cs)]
<1> DEFINE n == Len(cs)
           A == Seq(1..n)
           idx == [i \in DOMAIN cs |-> i]
           Step(pivots, i) == PivotStep(cs, pivots, i)
           op == [pivots \in A |-> [i \in 1..n |-> Step(pivots, i)]]
           Folds(g) == g = [s \in SUBSET DOMAIN idx |->
                              IF s = {} THEN <<>> ELSE Step(g[s \ {Max(s)}], idx[Max(s)])]
<1>1. n \in Nat /\ DOMAIN cs = 1..n /\ DOMAIN idx = 1..n
  OBVIOUS
<1>2. idx \in Seq(1..n) /\ \A i \in 1..n : idx[i] = i
  BY <1>1
<1>3. \A pivots \in A, i \in 1..n : Step(pivots, i) \in A
  <2> HIDE DEF n
  <2> QED
    BY <1>1, PivotAdded DEF PivotStep
<1> DEFINE g == CHOOSE g : Folds(g)
<1>4. FindPivots(cs) = g[DOMAIN idx]
  BY DEF FindPivots, FoldLeft, MapThenFoldSet, PivotStep
<1> HIDE DEF idx, Step, A
<1>5. op \in [A -> [1..n -> A]] /\ <<>> \in A
  BY <1>3 DEF A
<1>6. PICK it \in [SUBSET DOMAIN idx -> A] : IsFold(it, <<>>, idx, op)
  <2> HIDE DEF op, n
  <2> QED
    BY <1>2, <1>5, FoldExists
<1>7. Folds(it)
  <2>1. ASSUME NEW s \in SUBSET DOMAIN idx, s # {}
        PROVE  op[it[s \ {Max(s)}]][idx[Max(s)]] = Step(it[s \ {Max(s)}], idx[Max(s)])
    <3>1. s \subseteq 0..n
      BY <1>1
    <3>2. Max(s) \in 1..n
      <4> HIDE DEF n
      <4> QED
        BY <1>1, <2>1, <3>1, MaxOfBounded
    <3>3. idx[Max(s)] \in 1..n /\ s \ {Max(s)} \in SUBSET DOMAIN idx
      BY <1>2, <3>2
    <3>4. it[s \ {Max(s)}] \in A
      BY <3>3
    <3> QED
      BY <3>3, <3>4
  <2> HIDE DEF op
  <2> QED
    BY <1>6, <2>1 DEF IsFold
<1>8. Folds(g)
  <2> HIDE DEF Folds
  <2> QED
    BY <1>7
<1> HIDE DEF g, op
<1> DEFINE f == [i \in 0..n |-> g[1..i]]
<1>9. f[0] = <<>>
  <2>1. g[{}] = <<>>
    BY <1>8
  <2>2. 1..0 = {} /\ 0 \in 0..n
    BY <1>1
  <2> QED
    BY <2>1, <2>2
<1>10. ASSUME NEW i \in 1..n PROVE f[i] = Step(f[i - 1], i)
  <2>1. /\ Max(1..i) = i /\ (1..i) \ {i} = 1..(i - 1) /\ i \in 1..i
        /\ 1..i \in SUBSET (1..n)
    <3> HIDE DEF n
    <3> QED
      BY <1>1, PrefixSets
  <2>2. g[1..i] = Step(g[(1..i) \ {Max(1..i)}], idx[Max(1..i)])
    BY <1>1, <1>8, <2>1
  <2>3. g[1..i] = Step(g[1..(i - 1)], i)
    BY <1>2, <2>1, <2>2
  <2>4. i \in 0..n /\ i - 1 \in 0..n
    BY <1>1
  <2>5. f[i] = g[1..i] /\ f[i - 1] = g[1..(i - 1)]
    BY <2>4
  <2> QED
    BY <2>3, <2>5
<1>11. f[n] = g[DOMAIN idx]
  BY <1>1
<1> DEFINE Lists == {i \in 0..n : f[i] \in A}
<1> HIDE DEF f
<1>12. 0..n \subseteq Lists
  <2>1. f[0] \in A
    BY <1>5, <1>9, Zenon
  <2>2. 0 \in Lists
    BY <1>1, <2>1
  <2>3. ASSUME NEW i \in 1..n, i - 1 \in Lists PROVE i \in Lists
    BY <1>3, <1>10, <2>3
  <2> HIDE DEF Lists, n
  <2> QED
    BY <1>1, <2>2, <2>3, SetInduction
<1>13. f \in [0..n -> A]
  <2>1. \A i \in 0..n : f[i] \in A
    BY <1>12
  <2> QED
    BY <2>1 DEF f
<1> QED
  BY <1>4, <1>9, <1>10, <1>11, <1>13 DEF Step, A, Pivots

\* One more candle completes the windows of one more position and changes
\* nothing of the positions before it: while no candle leaves the batch, the
\* pivots of a run of the job are the ones of the run before it, but for this
\* position.
THEOREM PivotsOfLongerBatch ==
    ASSUME NEW S, NEW cs \in Seq(S), NEW c \in S
    PROVE  LET more == Append(cs, c)
               last == (Len(cs) + 1) - PivotRight
           IN /\ FindPivots(cs) \in Seq(1..Len(cs))
              /\ FindPivots(more) = PivotStep(more, FindPivots(cs), last)
<1> DEFINE n == Len(cs)
           more == Append(cs, c)
           last == (n + 1) - PivotRight
<1>1. /\ n \in Nat /\ more \in Seq(S) /\ Len(more) = n + 1
      /\ \A i \in 1..n : more[i] = cs[i]
  OBVIOUS
<1> HIDE DEF more
<1>2. PivotLeft \in Nat \ {0} /\ PivotRight \in Nat \ {0}
  BY ZoneRulesAssumption
<1>3. PICK f \in [0..n -> Seq(1..n)] : Pivots(f, cs) /\ FindPivots(cs) = f[n]
  BY PivotSteps
<1>4. PICK g \in [0..(n + 1) -> Seq(1..(n + 1))] : Pivots(g, more) /\ FindPivots(more) = g[n + 1]
  BY <1>1, PivotSteps
<1>5. /\ f[0] = <<>> /\ \A i \in 1..n : f[i] = PivotStep(cs, f[i - 1], i)
      /\ g[0] = <<>> /\ \A i \in 1..(n + 1) : g[i] = PivotStep(more, g[i - 1], i)
  BY <1>1, <1>3, <1>4 DEF Pivots
<1>6. /\ PivotPositions(cs) = (PivotLeft + 1)..(n - PivotRight)
      /\ PivotPositions(more) = (PivotLeft + 1)..((n + 1) - PivotRight)
  <2>1. PivotPositions(cs) = (PivotLeft + 1)..(n - PivotRight)
    BY DEF PivotPositions
  <2>2. PivotPositions(more) = (PivotLeft + 1)..(Len(more) - PivotRight)
    BY DEF PivotPositions
  <2> HIDE DEF n
  <2> QED
    BY <1>1, <2>1, <2>2, Zenon
<1> HIDE DEF n
<1>7. /\ \A i \in 1..n : i < last => (i \in PivotPositions(cs) <=> i \in PivotPositions(more))
      /\ \A i \in 1..n : i >= last => i \notin PivotPositions(cs)
      /\ \A i \in 1..(n + 1) : i > last => i \notin PivotPositions(more)
      /\ last <= 0 => last \notin PivotPositions(more)
      /\ last \in Int /\ last <= n
  BY <1>1, <1>2, <1>6
<1>8. ASSUME NEW i \in 1..n, i < last, i \in PivotPositions(cs)
      PROVE  IsPivot(cs, i) = IsPivot(more, i)
  <2>1. /\ \A k \in (i - PivotLeft)..(i - 1) : k \in 1..n
        /\ \A k \in (i + 1)..(i + PivotRight) : k \in 1..n
    <3>1. PivotLeft + 1 <= i /\ i <= n - PivotRight
      BY <1>1, <1>2, <1>6, <1>8
    <3>2. ASSUME NEW k \in (i - PivotLeft)..(i - 1) PROVE k \in 1..n
      BY <1>1, <1>2, <3>1
    <3>3. ASSUME NEW k \in (i + 1)..(i + PivotRight) PROVE k \in 1..n
      BY <1>1, <1>2, <3>1
    <3> QED
      BY <3>2, <3>3
  <2>2. more[i] = cs[i]
    BY <1>1
  <2>3. {more[k].low : k \in (i - PivotLeft)..(i - 1)} = {cs[k].low : k \in (i - PivotLeft)..(i - 1)}
    BY <1>1, <2>1
  <2>4. {more[k].low : k \in (i + 1)..(i + PivotRight)} = {cs[k].low : k \in (i + 1)..(i + PivotRight)}
    BY <1>1, <2>1
  <2> QED
    BY <2>2, <2>3, <2>4 DEF IsPivot
<1>9. ASSUME NEW p \in Seq(1..n), NEW i \in 1..n PROVE AddPivot(cs, p, i) = AddPivot(more, p, i)
  <2>1. CASE p = <<>>
    BY <2>1 DEF AddPivot
  <2>2. CASE p # <<>>
    <3>1. Last(p) \in 1..n
      <4> DEFINE I == 1..n
      <4> HIDE DEF I
      <4>1. p \in Seq(I) /\ p # <<>>
        BY <2>2 DEF I
      <4>2. p[Len(p)] \in I
        BY <4>1
      <4> QED
        BY <4>2 DEF I, Last
    <3>2. more[Last(p)] = cs[Last(p)] /\ more[i] = cs[i]
      BY <1>1, <3>1
    <3> QED
      BY <3>2 DEF AddPivot
  <2> QED
    BY <2>1, <2>2
<1>10. ASSUME NEW p \in Seq(1..n), NEW i \in 1..n, i < last
       PROVE  PivotStep(cs, p, i) = PivotStep(more, p, i)
  BY <1>7, <1>8, <1>9, <1>10 DEF PivotStep
<1> HIDE DEF last
<1> DEFINE R == {i \in 0..n : g[i] = IF i < last THEN f[i] ELSE PivotStep(more, f[i], last)}
<1>11. 0 \in R
  <2>1. ~(0 < last) => PivotStep(more, <<>>, last) = <<>>
    BY <1>7 DEF PivotStep
  <2> QED
    BY <1>1, <1>5, <2>1
<1>12. ASSUME NEW i \in 1..n, i - 1 \in R PROVE i \in R
  <2>1. /\ i \in 0..n /\ i - 1 \in 0..n /\ i \in 1..(n + 1) /\ i \in Int /\ i - 1 < i
        /\ f[i - 1] \in Seq(1..n)
    BY <1>1, <1>3
  <2>2. f[i] = PivotStep(cs, f[i - 1], i) /\ g[i] = PivotStep(more, g[i - 1], i)
    BY <1>5, <2>1
  <2>3. g[i - 1] = IF i - 1 < last THEN f[i - 1] ELSE PivotStep(more, f[i - 1], last)
    BY <1>12
  <2>4. CASE i < last
    <3>1. i - 1 < last
      BY <1>7, <2>1, <2>4
    <3>2. g[i] = f[i]
      BY <1>10, <2>1, <2>2, <2>3, <2>4, <3>1
    <3> QED
      BY <2>1, <2>4, <3>2
  <2>5. CASE i = last
    <3>1. i - 1 < last /\ ~(i < last)
      BY <1>7, <2>1, <2>5
    <3>2. f[i] = f[i - 1]
      BY <1>7, <2>2, <2>5, <3>1 DEF PivotStep
    <3>3. g[i] = PivotStep(more, f[i], last)
      BY <2>2, <2>3, <2>5, <3>1, <3>2
    <3> QED
      BY <2>1, <3>1, <3>3
  <2>6. CASE i > last
    <3>1. ~(i - 1 < last) /\ ~(i < last) /\ i >= last
      BY <1>7, <2>1, <2>6
    <3>2. f[i] = f[i - 1] /\ g[i] = g[i - 1]
      BY <1>7, <2>1, <2>2, <2>6, <3>1 DEF PivotStep
    <3> QED
      BY <2>1, <2>3, <3>1, <3>2
  <2> QED
    BY <1>7, <2>1, <2>4, <2>5, <2>6
<1>13. 0..n \subseteq R
  <2> HIDE DEF R
  <2> QED
    BY <1>1, <1>11, <1>12, SetInduction
<1>14. g[n] = PivotStep(more, f[n], last)
  <2>1. n \in R /\ ~(n < last)
    BY <1>1, <1>7, <1>13
  <2> QED
    BY <2>1
<1>15. g[n + 1] = g[n]
  <2>1. n + 1 \in 1..(n + 1) /\ n + 1 > last /\ (n + 1) - 1 = n
    BY <1>1, <1>7
  <2> QED
    BY <1>5, <1>7, <2>1 DEF PivotStep
<1>16. f[n] \in Seq(1..n)
  BY <1>1, <1>3
<1> QED
  BY <1>3, <1>4, <1>14, <1>15, <1>16 DEF n, more, last

----------------------------------------------------------------------------
(* The support zones *)

\* What the pivots up to position i of the batch are.
PivotList(cs, p, i) ==
    /\ \A a \in 1..Len(p) : p[a] <= i /\ p[a] \in PivotPositions(cs) /\ IsPivot(cs, p[a])
    /\ \A a, b \in 1..Len(p) : a < b => p[a] + TouchSeparation <= p[b]

\* A step of _find_pivots keeps them pivots that are apart.
LEMMA PivotListStep ==
    ASSUME NEW cs, NEW n \in Nat, NEW p \in Seq(1..n), NEW i \in 1..n, PivotList(cs, p, i - 1)
    PROVE  PivotList(cs, PivotStep(cs, p, i), i)
<1> DEFINE I == 1..n
           l == Len(p)
           new == PivotStep(cs, p, i)
           q == Front(p)
<1>1. p \in Seq(I) /\ l \in Nat /\ \A a \in 1..l : p[a] \in I
  <2>1. p \in Seq(I)
    OBVIOUS
  <2> HIDE DEF I
  <2> QED
    BY <2>1
<1>2. /\ \A a \in 1..l : p[a] \in Int /\ p[a] <= i - 1 /\ p[a] \in PivotPositions(cs)
                           /\ IsPivot(cs, p[a])
      /\ \A a, b \in 1..l : a < b => p[a] + TouchSeparation <= p[b]
  BY <1>1 DEF PivotList
<1>3. TouchSeparation \in Nat \ {0} /\ i \in Int
  BY ZoneRulesAssumption
<1>4. CASE new = p
  <2>1. \A a \in 1..l : p[a] <= i
    BY <1>2, <1>3
  <2> QED
    BY <1>2, <1>4, <2>1 DEF PivotList
<1> HIDE DEF I
<1>5. ASSUME i \in PivotPositions(cs), IsPivot(cs, i), NEW r \in Seq(I), new = Append(r, i),
             Len(r) <= l, \A a \in 1..Len(r) : r[a] = p[a],
             \A a \in 1..Len(r) : p[a] + TouchSeparation <= i
      PROVE  PivotList(cs, new, i)
  <2> DEFINE m == Len(r)
  <2>1. /\ m \in Nat /\ Len(new) = m + 1 /\ new[m + 1] = i
        /\ \A a \in 1..m : new[a] = r[a] /\ a \in 1..l
        /\ \A a \in 1..(m + 1) : a = m + 1 \/ a \in 1..m
    <3>1. i \in I
      BY DEF I
    <3> QED
      BY <1>1, <1>5, <3>1
  <2>2. \A a \in 1..m : new[a] = p[a]
    BY <1>5, <2>1
  <2> HIDE DEF m, new, l
  <2>3. ASSUME NEW a \in 1..(m + 1)
        PROVE  new[a] <= i /\ new[a] \in PivotPositions(cs) /\ IsPivot(cs, new[a])
    <3>1. CASE a = m + 1
      BY <1>3, <1>5, <2>1, <3>1
    <3>2. CASE a \in 1..m
      <4>1. a \in 1..l /\ new[a] = p[a]
        BY <2>1, <2>2, <3>2
      <4> QED
        BY <1>2, <1>3, <4>1
    <3> QED
      BY <2>1, <3>1, <3>2
  <2>4. ASSUME NEW a \in 1..(m + 1), NEW b \in 1..(m + 1), a < b
        PROVE  new[a] + TouchSeparation <= new[b]
    <3>1. a \in 1..m
      BY <2>1, <2>4
    <3>2. new[a] = p[a] /\ a \in 1..l
      BY <2>1, <2>2, <3>1
    <3>3. CASE b = m + 1
      BY <1>5, <2>1, <3>1, <3>2, <3>3 DEF m
    <3>4. CASE b \in 1..m
      <4>1. new[b] = p[b] /\ b \in 1..l
        BY <2>1, <2>2, <3>4
      <4> QED
        BY <1>2, <2>4, <3>2, <4>1
    <3> QED
      BY <2>1, <3>3, <3>4
  <2> QED
    BY <2>1, <2>3, <2>4 DEF PivotList
<1>6. CASE new # p
  <2>1. i \in PivotPositions(cs) /\ IsPivot(cs, i) /\ new = AddPivot(cs, p, i)
    BY <1>6 DEF PivotStep
  <2>2. ASSUME p # <<>>
        PROVE  /\ l \in 1..l /\ Last(p) = p[l] /\ q \in Seq(I) /\ Len(q) = l - 1
               /\ \A a \in 1..(l - 1) : q[a] = p[a] /\ a \in 1..l
    <3>1. l # 0 /\ l \in 1..l /\ Last(p) = p[l]
      BY <1>1, <2>2 DEF Last
    <3>2. q \in Seq(I) /\ Len(q) = l - 1 /\ \A a \in 1..(l - 1) : q[a] = p[a]
      <4>1. /\ SubSeq(p, 1, l - 1) = [a \in 1..(l - 1) |-> p[a]]
            /\ l - 1 \in Nat /\ \A a \in 1..(l - 1) : a \in 1..l
        BY <1>1, <3>1
      <4>2. q = [a \in 1..(l - 1) |-> p[a]]
        BY <4>1 DEF Front
      <4> HIDE DEF l, q
      <4> QED
        BY <1>1, <4>1, <4>2
    <3> QED
      BY <1>1, <3>1, <3>2
  <2>3. CASE p = <<>> \/ i - Last(p) >= TouchSeparation
    <3>1. new = Append(p, i)
      BY <2>1, <2>3 DEF AddPivot
    <3>2. ASSUME NEW a \in 1..l PROVE p[a] + TouchSeparation <= i
      <4>1. p # <<>>
        BY <1>1
      <4>2. l \in 1..l /\ p[l] + TouchSeparation <= i
        BY <1>2, <1>3, <2>2, <2>3, <4>1
      <4>3. p[a] <= p[l]
        <5>1. CASE a = l
          BY <1>2, <5>1
        <5>2. CASE a < l
          <6>1. p[a] + TouchSeparation <= p[l]
            BY <1>2, <4>2, <5>2
          <6> QED
            BY <1>2, <1>3, <4>2, <6>1
        <5> QED
          BY <1>1, <5>1, <5>2
      <4> QED
        BY <1>2, <1>3, <4>2, <4>3
    <3> QED
      BY <1>1, <1>5, <2>1, <3>1, <3>2
  <2>4. CASE ~(p = <<>> \/ i - Last(p) >= TouchSeparation)
    <3>1. new = Append(q, i)
      BY <1>6, <2>1, <2>4 DEF AddPivot
    <3>2. ASSUME NEW a \in 1..(l - 1) PROVE p[a] + TouchSeparation <= i
      <4>1. a \in 1..l /\ l \in 1..l /\ a < l
        BY <1>1, <2>2, <2>4
      <4>2. p[a] + TouchSeparation <= p[l]
        BY <1>2, <4>1
      <4>3. p[a] \in Int /\ p[l] \in Int /\ p[l] <= i - 1
        BY <1>2, <4>1
      <4> HIDE DEF l
      <4> QED
        BY <1>3, <4>2, <4>3
    <3>3. /\ q \in Seq(I) /\ Len(q) = l - 1 /\ Len(q) <= l
          /\ \A a \in 1..Len(q) : q[a] = p[a]
      BY <1>1, <2>2, <2>4
    <3>4. \A a \in 1..Len(q) : p[a] + TouchSeparation <= i
      BY <3>2, <3>3
    <3> HIDE DEF q, new, l
    <3>5. PivotList(cs, new, i)
      BY <1>5, <2>1, <3>1, <3>3, <3>4
    <3> QED
      BY <3>5 DEF new
  <2> QED
    BY <2>3, <2>4
<1> QED
  BY <1>4, <1>6

\* Pivots that are apart.
Pivotal(cs, P) ==
    /\ \A x \in P : x \in PivotPositions(cs) /\ IsPivot(cs, x)
    /\ \A x, y \in P : x < y => x + TouchSeparation <= y

\* _find_pivots finds lows of their whole windows, and leaves room between them.
LEMMA PivotsFound ==
    ASSUME NEW S, NEW cs \in Seq(S)
    PROVE  LET P == ToSet(FindPivots(cs))
           IN P \subseteq 1..Len(cs) /\ IsFiniteSet(P) /\ Pivotal(cs, P)
<1> DEFINE n == Len(cs)
           p == FindPivots(cs)
           P == ToSet(p)
<1>1. n \in Nat
  OBVIOUS
<1>2. PICK f \in [0..n -> Seq(1..n)] : Pivots(f, cs) /\ p = f[n]
  BY PivotSteps
<1> HIDE DEF p
<1>3. f[0] = <<>> /\ \A i \in 1..n : f[i] = PivotStep(cs, f[i - 1], i)
  BY <1>2 DEF Pivots
<1> HIDE DEF n
<1> DEFINE R == {i \in 0..n : PivotList(cs, f[i], i)}
<1>4. 0 \in R
  BY <1>1, <1>3 DEF PivotList
<1>5. ASSUME NEW i \in 1..n, i - 1 \in R PROVE i \in R
  <2>1. i \in 0..n /\ i - 1 \in 0..n
    BY <1>1
  <2>2. f[i - 1] \in Seq(1..n) /\ PivotList(cs, f[i - 1], i - 1)
    BY <1>5, <2>1
  <2>3. PivotList(cs, PivotStep(cs, f[i - 1], i), i)
    BY <1>1, <2>2, PivotListStep
  <2> QED
    BY <1>3, <2>1, <2>3
<1>6. n \in R
  <2> HIDE DEF R
  <2>1. 0..n \subseteq R
    BY <1>1, <1>4, <1>5, SetInduction
  <2> QED
    BY <1>1, <2>1
<1> DEFINE I == 1..n
           l == Len(p)
<1>7. PivotList(cs, p, n) /\ p \in Seq(I)
  BY <1>1, <1>2, <1>6
<1> HIDE DEF I
<1>8. l \in Nat /\ p \in [1..l -> I] /\ DOMAIN p = 1..l
  BY <1>7
<1>9. P = {p[a] : a \in 1..l}
  BY <1>8 DEF ToSet
<1>10. IsFiniteSet(P)
  <2>1. IsFiniteSet(1..l)
    BY <1>8, FS_Interval
  <2>2. p \in Surjection(1..l, P)
    BY <1>8, <1>9 DEF Surjection
  <2> HIDE DEF P, l
  <2> QED
    BY <2>1, <2>2, FS_Surjection
<1>11. P \subseteq I
  BY <1>8, <1>9
<1>12. Pivotal(cs, P)
  <2>1. \A x \in P : x \in PivotPositions(cs) /\ IsPivot(cs, x)
    BY <1>7, <1>9 DEF PivotList
  <2>2. ASSUME NEW x \in P, NEW y \in P, x < y PROVE x + TouchSeparation <= y
    <3>1. PICK a \in 1..l : x = p[a]
      BY <1>9
    <3>2. PICK b \in 1..l : y = p[b]
      BY <1>9
    <3>3. a < b \/ a = b \/ b < a
      BY <1>8
    <3>4. a = b => FALSE
      <4>1. x \in Int
        BY <1>8, <3>1 DEF I
      <4> QED
        BY <2>2, <3>1, <3>2, <4>1
    <3>5. b < a => FALSE
      <4>1. x \in Int /\ y \in Int
        BY <1>8, <3>1, <3>2 DEF I
      <4>2. b < a => y + TouchSeparation <= x
        BY <1>7, <3>1, <3>2 DEF PivotList
      <4> QED
        BY <2>2, <4>1, <4>2, ZoneRulesAssumption
    <3>6. a < b
      BY <3>3, <3>4, <3>5
    <3> QED
      BY <1>7, <3>1, <3>2, <3>6 DEF PivotList
  <2> QED
    BY <2>1, <2>2 DEF Pivotal
<1> QED
  BY <1>10, <1>11, <1>12 DEF I, n, p
----------------------------------------------------------------------------
(* The pivots of a batch that slides *)

\* Position i is a pivot of the batch that begins after the first n candles.
PivotAt(cs, n, i) ==
    i \in ((n + PivotLeft) + 1)..(Len(cs) - PivotRight) /\ IsPivot(cs, i)

\* A step of _find_pivots, of the set of the pivots: i joins P, takes the place of
\* the newest, or is left out.
PivotsMove(cs, n, P, Q, i) ==
    \/ ~PivotAt(cs, n, i) /\ Q = P
    \/ /\ PivotAt(cs, n, i) /\ Q = P \cup {i}
       /\ \A x \in P : x + TouchSeparation <= i
    \/ /\ PivotAt(cs, n, i)
       /\ \E m \in P : /\ \A x \in P : x <= m
                       /\ i < m + TouchSeparation
                       /\ \/ cs[i].low < cs[m].low /\ Q = (P \ {m}) \cup {i}
                          \/ ~(cs[i].low < cs[m].low) /\ Q = P

\* The pivots of that batch, position after position.
PivotSets(cs, n, F) ==
    /\ F[n] = {}
    /\ \A i \in (n + 1)..Len(cs) : /\ F[i] \subseteq (n + 1)..i
                                   /\ PivotsMove(cs, n, F[i - 1], F[i], i)

\* A step of _find_pivots on the list is one on its set.
LEMMA PivotListMoves ==
    ASSUME NEW cs, NEW n \in Nat, Len(cs) = n, NEW p \in Seq(1..n), NEW i \in 1..n,
           PivotList(cs, p, i - 1)
    PROVE  PivotsMove(cs, 0, ToSet(p), ToSet(PivotStep(cs, p, i)), i)
<1> DEFINE I == 1..n
           l == Len(p)
           new == PivotStep(cs, p, i)
<1>1. /\ p \in Seq(I) /\ l \in Nat /\ i \in I /\ \A a \in 1..l : p[a] \in I
  <2>1. p \in Seq(I) /\ i \in I
    OBVIOUS
  <2> HIDE DEF I
  <2> QED
    BY <2>1
<1>2. /\ TouchSeparation \in Nat \ {0} /\ i \in Int /\ \A a \in 1..l : p[a] \in Int
      /\ \A a \in 1..l : p[a] <= i - 1
      /\ \A a, b \in 1..l : a < b => p[a] + TouchSeparation <= p[b]
  BY <1>1, ZoneRulesAssumption DEF PivotList
<1>3. PivotAt(cs, 0, i) <=> i \in PivotPositions(cs) /\ IsPivot(cs, i)
  <2>1. (0 + PivotLeft) + 1 = PivotLeft + 1
    BY ZoneRulesAssumption
  <2> QED
    BY <2>1 DEF PivotAt, PivotPositions
<1> HIDE DEF I
<1>4. ToSet(p) = {p[a] : a \in 1..l}
  BY <1>1 DEF ToSet
<1>5. CASE ~PivotAt(cs, 0, i)
  BY <1>3, <1>5 DEF PivotStep, PivotsMove
<1>6. CASE PivotAt(cs, 0, i) /\ p = <<>>
  <2>1. new = Append(p, i)
    BY <1>3, <1>6 DEF PivotStep, AddPivot
  <2>2. new = <<i>> /\ ToSet(p) = {}
    BY <1>1, <1>4, <1>6, <2>1
  <2>3. ToSet(new) = {i}
    BY <2>2 DEF ToSet
  <2> QED
    BY <1>6, <2>2, <2>3 DEF PivotsMove
<1>7. CASE PivotAt(cs, 0, i) /\ p # <<>>
  <2> DEFINE m == p[l]
             q == Front(p)
  <2>1. l \in 1..l /\ Last(p) = m /\ m \in ToSet(p) /\ m \in Int
    BY <1>1, <1>2, <1>4, <1>7 DEF Last
  <2>2. \A a \in 1..l : a # l => p[a] < m
    <3> SUFFICES ASSUME NEW a \in 1..l, a # l PROVE p[a] < m
      OBVIOUS
    <3>1. p[a] + TouchSeparation <= m
      BY <1>1, <1>2, <2>1
    <3>2. p[a] \in Int
      BY <1>2
    <3> HIDE DEF m
    <3> QED
      BY <1>2, <2>1, <3>1, <3>2
  <2>3. \A x \in ToSet(p) : x \in Int /\ x <= m
    <3> SUFFICES ASSUME NEW a \in 1..l PROVE p[a] \in Int /\ p[a] <= m
      BY <1>4
    <3>1. p[a] \in Int /\ (a = l \/ p[a] < m)
      BY <1>2, <2>2
    <3> QED
      BY <2>1, <3>1
  <2>4. /\ q \in Seq(I) /\ Len(q) = l - 1 /\ \A a \in 1..(l - 1) : q[a] = p[a]
    <3>1. /\ SubSeq(p, 1, l - 1) = [a \in 1..(l - 1) |-> p[a]]
          /\ l - 1 \in Nat /\ \A a \in 1..(l - 1) : a \in 1..l
      BY <1>1, <2>1
    <3>2. q = [a \in 1..(l - 1) |-> p[a]]
      BY <3>1 DEF Front
    <3> HIDE DEF l, q
    <3> QED
      BY <1>1, <3>1, <3>2
  <2>5. ToSet(q) = ToSet(p) \ {m}
    <3>1. ToSet(q) = {p[a] : a \in 1..(l - 1)}
      <4> HIDE DEF q, l
      <4>1. DOMAIN q = 1..(l - 1)
        BY <2>4
      <4>2. ToSet(q) = {q[a] : a \in 1..(l - 1)}
        BY <4>1 DEF ToSet
      <4> QED
        BY <2>4, <4>2
    <3>2. \A a \in 1..l : a = l \/ a \in 1..(l - 1)
      BY <1>1
    <3>3. \A a \in 1..(l - 1) : a \in 1..l /\ a # l
      BY <1>1
    <3>4. \A a \in 1..(l - 1) : p[a] # m
      BY <1>2, <2>1, <2>2, <3>3
    <3> HIDE DEF m
    <3>5. p[l] = m
      BY DEF m
    <3> HIDE DEF l, q
    <3> QED
      BY <1>4, <3>1, <3>2, <3>3, <3>4, <3>5
  <2>6. ASSUME NEW r \in Seq(I) PROVE ToSet(Append(r, i)) = ToSet(r) \cup {i}
    <3> DEFINE k == Len(r)
               s == Append(r, i)
    <3>1. /\ k \in Nat /\ Len(s) = k + 1 /\ s[k + 1] = i /\ DOMAIN s = 1..(k + 1)
          /\ \A a \in 1..k : s[a] = r[a]
      BY <1>1
    <3>2. 1..(k + 1) = (1..k) \cup {k + 1}
      BY <3>1
    <3>3. ToSet(r) = {r[a] : a \in 1..k} /\ ToSet(s) = {s[a] : a \in 1..(k + 1)}
      BY <3>1 DEF ToSet
    <3> HIDE DEF k, s
    <3>4. ToSet(s) = {s[a] : a \in 1..k} \cup {i}
      BY <3>1, <3>2, <3>3
    <3>5. {s[a] : a \in 1..k} = {r[a] : a \in 1..k}
      BY <3>1
    <3>6. ToSet(s) = ToSet(r) \cup {i}
      BY <3>3, <3>4, <3>5
    <3> QED
      BY <3>6 DEF s
  <2> HIDE DEF m, q, l
  <2>7. CASE i - m >= TouchSeparation
    <3>1. new = Append(p, i)
      BY <1>3, <1>7, <2>1, <2>7 DEF PivotStep, AddPivot
    <3>2. ToSet(new) = ToSet(p) \cup {i}
      BY <1>1, <2>6, <3>1
    <3>3. ASSUME NEW x \in ToSet(p) PROVE x + TouchSeparation <= i
      BY <1>2, <2>1, <2>3, <2>7
    <3> QED
      BY <1>7, <3>2, <3>3 DEF PivotsMove
  <2>8. CASE ~(i - m >= TouchSeparation) /\ cs[i].low < cs[m].low
    <3>1. new = Append(q, i)
      BY <1>3, <1>7, <2>1, <2>8 DEF PivotStep, AddPivot, q
    <3>2. ToSet(new) = (ToSet(p) \ {m}) \cup {i}
      BY <2>4, <2>5, <2>6, <3>1
    <3>3. i < m + TouchSeparation
      BY <1>2, <2>1, <2>8
    <3> QED
      BY <1>7, <2>1, <2>3, <2>8, <3>2, <3>3 DEF PivotsMove
  <2>9. CASE ~(i - m >= TouchSeparation) /\ ~(cs[i].low < cs[m].low)
    <3>1. new = p
      BY <1>3, <1>7, <2>1, <2>9 DEF PivotStep, AddPivot
    <3>2. i < m + TouchSeparation
      BY <1>2, <2>1, <2>9
    <3> QED
      BY <1>7, <2>1, <2>3, <2>9, <3>1, <3>2 DEF PivotsMove
  <2> QED
    BY <2>7, <2>8, <2>9
<1> QED
  BY <1>5, <1>6, <1>7

\* The pivots of a batch, as sets.
LEMMA PivotSetsOf ==
    ASSUME NEW S, NEW cs \in Seq(S)
    PROVE  \E F : PivotSets(cs, 0, F) /\ F[Len(cs)] = ToSet(FindPivots(cs))
<1> DEFINE n == Len(cs)
<1>1. n \in Nat
  OBVIOUS
<1>2. PICK f \in [0..n -> Seq(1..n)] : Pivots(f, cs) /\ FindPivots(cs) = f[n]
  BY PivotSteps
<1>3. f[0] = <<>> /\ \A i \in 1..n : f[i] = PivotStep(cs, f[i - 1], i)
  BY <1>2 DEF Pivots
<1>4. Len(cs) = n
  OBVIOUS
<1> HIDE DEF n
<1> DEFINE R == {i \in 0..n : PivotList(cs, f[i], i)}
<1>5. 0 \in R
  BY <1>1, <1>3 DEF PivotList
<1>6. ASSUME NEW i \in 1..n, i - 1 \in R PROVE i \in R
  <2>1. i \in 0..n /\ i - 1 \in 0..n
    BY <1>1
  <2>2. f[i - 1] \in Seq(1..n) /\ PivotList(cs, f[i - 1], i - 1)
    BY <1>6, <2>1
  <2>3. PivotList(cs, PivotStep(cs, f[i - 1], i), i)
    BY <1>1, <2>2, PivotListStep
  <2> QED
    BY <1>3, <2>1, <2>3
<1>7. \A i \in 0..n : PivotList(cs, f[i], i)
  <2> HIDE DEF R
  <2>1. 0..n \subseteq R
    BY <1>1, <1>5, <1>6, SetInduction
  <2> QED
    BY <2>1 DEF R
<1> DEFINE F == [i \in 0..n |-> ToSet(f[i])]
<1>8. F[0] = {} /\ F[n] = ToSet(FindPivots(cs))
  <2>1. 0 \in 0..n /\ n \in 0..n
    BY <1>1
  <2>2. ToSet(<<>>) = {}
    BY DEF ToSet
  <2> QED
    BY <1>2, <1>3, <2>1, <2>2
<1>9. ASSUME NEW i \in 1..n
      PROVE  F[i] \subseteq 1..i /\ PivotsMove(cs, 0, F[i - 1], F[i], i)
  <2>1. i \in 0..n /\ i - 1 \in 0..n
    BY <1>1
  <2>2. PivotsMove(cs, 0, ToSet(f[i - 1]), ToSet(f[i]), i)
    <3>1. f[i - 1] \in Seq(1..n) /\ PivotList(cs, f[i - 1], i - 1) /\ f[i] = PivotStep(cs, f[i - 1], i)
      BY <1>3, <1>7, <2>1
    <3> QED
      BY <1>1, <1>4, <3>1, PivotListMoves
  <2>3. ToSet(f[i]) \subseteq 1..i
    <3> DEFINE I == 1..n
               p == f[i]
    <3>1. p \in Seq(I)
      BY <2>1
    <3> HIDE DEF I, p
    <3>2. DOMAIN p = 1..Len(p) /\ \A a \in 1..Len(p) : p[a] \in I
      BY <3>1
    <3>3. \A a \in 1..Len(p) : p[a] <= i
      BY <1>7, <2>1 DEF PivotList, p
    <3>4. \A a \in 1..Len(p) : p[a] \in 1..i
      BY <1>1, <3>2, <3>3 DEF I
    <3> QED
      BY <3>2, <3>4 DEF ToSet, p
  <2>4. F[i] = ToSet(f[i]) /\ F[i - 1] = ToSet(f[i - 1])
    BY <2>1
  <2> QED
    BY <2>2, <2>3, <2>4
<1> HIDE DEF F
<1>10. PivotSets(cs, 0, F)
  <2>1. 0 + 1 = 1
    OBVIOUS
  <2> QED
    BY <1>4, <1>8, <1>9, <2>1 DEF PivotSets
<1> QED
  BY <1>4, <1>8, <1>10

\* P, of a batch that begins n candles later.
Slid(n, P) == {n + x : x \in P}

\* What Slid does to sets of positions.
LEMMA SlidSets ==
    ASSUME NEW n \in Nat, NEW P \in SUBSET Int
    PROVE  /\ \A x \in Int : n + x \in Slid(n, P) <=> x \in P
           /\ \A y \in Slid(n, P) : y \in Int /\ y - n \in P /\ y = n + (y - n)
           /\ \A x \in Int : Slid(n, P \cup {x}) = Slid(n, P) \cup {n + x}
           /\ \A x \in Int : Slid(n, P \ {x}) = Slid(n, P) \ {n + x}
           /\ Slid(n, {}) = {}
<1>1. ASSUME NEW x \in Int PROVE n + x \in Slid(n, P) <=> x \in P
  <2>1. ASSUME NEW y \in P, n + x = n + y PROVE x = y
    BY <2>1
  <2> QED
    BY <2>1 DEF Slid
<1>2. ASSUME NEW y \in Slid(n, P) PROVE y \in Int /\ y - n \in P /\ y = n + (y - n)
  <2>1. PICK x \in P : y = n + x
    BY DEF Slid
  <2>2. x \in Int /\ y \in Int /\ y - n = x
    BY <2>1
  <2> QED
    BY <2>1, <2>2
<1>3. ASSUME NEW x \in Int PROVE Slid(n, P \cup {x}) = Slid(n, P) \cup {n + x}
  BY DEF Slid
<1>4. ASSUME NEW x \in Int PROVE Slid(n, P \ {x}) = Slid(n, P) \ {n + x}
  <2>1. \A y \in P : y # x => n + y # n + x
    OBVIOUS
  <2> QED
    BY <2>1 DEF Slid
<1>5. Slid(n, {}) = {}
  BY DEF Slid
<1> QED
  BY <1>1, <1>2, <1>3, <1>4, <1>5

\* Where a position stands in the batch does not matter to a step of _find_pivots.
LEMMA PivotsMoveSlid ==
    ASSUME NEW S, NEW cs \in Seq(S), NEW n \in 0..Len(cs), NEW tail \in Seq(S),
           Len(tail) = Len(cs) - n, \A i \in 1..Len(tail) : tail[i] = cs[n + i],
           NEW j \in 1..Len(tail), NEW P \in SUBSET (1..j), NEW Q \in SUBSET Int,
           PivotsMove(tail, 0, P, Q, j)
    PROVE  PivotsMove(cs, n, Slid(n, P), Slid(n, Q), n + j)
<1> DEFINE N == Len(cs)
           t == Len(tail)
           k == n + j
<1>1. N \in Nat /\ n \in Nat /\ n <= N /\ t \in Nat /\ t = N - n
  OBVIOUS
<1>2. /\ PivotLeft \in Nat \ {0} /\ PivotRight \in Nat \ {0}
      /\ TouchSeparation \in Nat \ {0}
  BY ZoneRulesAssumption
<1>3. Len(cs) = N /\ Len(tail) = t /\ \A i \in 1..t : tail[i] = cs[n + i]
  OBVIOUS
<1> HIDE DEF N, t
<1>4. j \in Int /\ j \in 1..t /\ k \in Int
  BY <1>1, <1>3
<1>5. j \in ((0 + PivotLeft) + 1)..(t - PivotRight)
        <=> k \in ((n + PivotLeft) + 1)..(N - PivotRight)
  BY <1>1, <1>2, <1>4
<1>6. ASSUME j \in ((0 + PivotLeft) + 1)..(t - PivotRight)
      PROVE  IsPivot(tail, j) <=> IsPivot(cs, k)
  <2>1. PivotLeft + 1 <= j /\ j <= t - PivotRight
    BY <1>2, <1>4, <1>6
  <2>2. ASSUME NEW a \in Int, NEW b \in Int, 1 <= a, b <= t
        PROVE  {tail[x].low : x \in a..b} = {cs[x].low : x \in (n + a)..(n + b)}
    <3>1. \A x \in a..b : n + x \in (n + a)..(n + b) /\ tail[x] = cs[n + x]
      BY <1>1, <1>3, <2>2
    <3>2. \A y \in (n + a)..(n + b) : y - n \in a..b /\ n + (y - n) = y
      BY <1>1, <2>2
    <3>3. ASSUME NEW x \in a..b PROVE tail[x].low \in {cs[y].low : y \in (n + a)..(n + b)}
      BY <3>1
    <3>4. ASSUME NEW y \in (n + a)..(n + b) PROVE cs[y].low \in {tail[x].low : x \in a..b}
      <4>1. y - n \in a..b /\ tail[y - n] = cs[y]
        BY <3>1, <3>2
      <4> QED
        BY <4>1
    <3> QED
      BY <3>3, <3>4
  <2>3. {tail[x].low : x \in (j - PivotLeft)..(j - 1)}
          = {cs[x].low : x \in (k - PivotLeft)..(k - 1)}
    <3>1. /\ j - PivotLeft \in Int /\ j - 1 \in Int /\ 1 <= j - PivotLeft /\ j - 1 <= t
          /\ n + (j - PivotLeft) = k - PivotLeft /\ n + (j - 1) = k - 1
      BY <1>1, <1>2, <1>4, <2>1
    <3> HIDE DEF k
    <3> QED
      BY <2>2, <3>1
  <2>4. {tail[x].low : x \in (j + 1)..(j + PivotRight)}
          = {cs[x].low : x \in (k + 1)..(k + PivotRight)}
    <3>1. /\ j + PivotRight \in Int /\ j + 1 \in Int /\ 1 <= j + 1 /\ j + PivotRight <= t
          /\ n + (j + 1) = k + 1 /\ n + (j + PivotRight) = k + PivotRight
      BY <1>1, <1>2, <1>4, <2>1
    <3> HIDE DEF k
    <3> QED
      BY <2>2, <3>1
  <2>5. tail[j] = cs[k]
    BY <1>3, <1>4
  <2> HIDE DEF k
  <2> QED
    BY <2>3, <2>4, <2>5 DEF IsPivot
<1>7. PivotAt(tail, 0, j) <=> PivotAt(cs, n, k)
  <2> HIDE DEF k
  <2> QED
    BY <1>3, <1>5, <1>6 DEF PivotAt
<1> DEFINE A == Slid(n, P)
           B == Slid(n, Q)
<1>8. P \in SUBSET Int /\ \A x \in P : x \in 1..t
  BY <1>1, <1>4
<1>9. /\ \A x \in Int : n + x \in A <=> x \in P
      /\ \A y \in A : y \in Int /\ y - n \in P /\ y = n + (y - n)
      /\ Slid(n, P \cup {j}) = A \cup {k}
      /\ \A x \in Int : Slid(n, P \ {x}) = A \ {n + x}
      /\ \A x \in Int : Slid(n, (P \ {x}) \cup {j}) = (A \ {n + x}) \cup {k}
  <2>1. /\ \A x \in Int : n + x \in A <=> x \in P
        /\ \A y \in A : y \in Int /\ y - n \in P /\ y = n + (y - n)
        /\ \A x \in Int : Slid(n, P \cup {x}) = A \cup {n + x}
        /\ \A x \in Int : Slid(n, P \ {x}) = A \ {n + x}
    <3>1. n \in Nat
      BY <1>1
    <3>2. P \in SUBSET Int
      BY <1>8
    <3> QED
      BY <3>1, <3>2, SlidSets, Zenon
  <2>2. ASSUME NEW x \in Int PROVE Slid(n, (P \ {x}) \cup {j}) = Slid(n, P \ {x}) \cup {n + j}
    <3> DEFINE O == P \ {x}
    <3>1. n \in Nat
      BY <1>1
    <3>2. O \in SUBSET Int
      BY <1>8
    <3> HIDE DEF O
    <3>3. \A y \in Int : Slid(n, O \cup {y}) = Slid(n, O) \cup {n + y}
      BY <3>1, <3>2, SlidSets, Zenon
    <3> QED
      BY <1>4, <3>3 DEF O
  <2> QED
    BY <1>4, <2>1, <2>2
<1>10. CASE ~PivotAt(tail, 0, j) /\ Q = P
  BY <1>7, <1>10 DEF PivotsMove
<1>11. CASE /\ PivotAt(tail, 0, j) /\ Q = P \cup {j}
            /\ \A x \in P : x + TouchSeparation <= j
  <2>1. ASSUME NEW y \in A PROVE y + TouchSeparation <= k
    <3>1. y \in Int /\ (y - n) + TouchSeparation <= j
      BY <1>9, <1>11
    <3> QED
      BY <1>1, <1>2, <1>4, <3>1
  <2>2. B = A \cup {k}
    BY <1>9, <1>11
  <2> HIDE DEF A, B, k
  <2>3. PivotsMove(cs, n, A, B, k)
    BY <1>7, <1>11, <2>1, <2>2 DEF PivotsMove
  <2> QED
    BY <2>3 DEF A, B, k
<1>12. ASSUME PivotAt(tail, 0, j),
              NEW m \in P, \A x \in P : x <= m, j < m + TouchSeparation,
              \/ tail[j].low < tail[m].low /\ Q = (P \ {m}) \cup {j}
              \/ ~(tail[j].low < tail[m].low) /\ Q = P
       PROVE  PivotsMove(cs, n, Slid(n, P), Slid(n, Q), n + j)
  <2> DEFINE u == n + m
  <2>1. m \in Int /\ m \in 1..t /\ u \in A /\ u \in Int
    BY <1>1, <1>8, <1>9
  <2>2. tail[j] = cs[k] /\ tail[m] = cs[u]
    BY <1>3, <1>4, <2>1
  <2>3. ASSUME NEW y \in A PROVE y <= u
    <3>1. y \in Int /\ y - n <= m
      BY <1>9, <1>12
    <3> QED
      BY <1>1, <2>1, <3>1
  <2>4. k < u + TouchSeparation
    BY <1>1, <1>2, <1>4, <1>12, <2>1
  <2>5. Q = P => B = A
    OBVIOUS
  <2>6. Q = (P \ {m}) \cup {j} => B = (A \ {u}) \cup {k}
    BY <1>9, <2>1
  <2> HIDE DEF A, B, k, u
  <2>7. \/ cs[k].low < cs[u].low /\ B = (A \ {u}) \cup {k}
        \/ ~(cs[k].low < cs[u].low) /\ B = A
    BY <1>12, <2>2, <2>5, <2>6
  <2>8. PivotsMove(cs, n, A, B, k)
    BY <1>7, <1>12, <2>1, <2>3, <2>4, <2>7 DEF PivotsMove
  <2> QED
    BY <2>8 DEF A, B, k
<1> QED
  BY <1>10, <1>11, <1>12 DEF PivotsMove

\* The pivots of a batch without its first n candles, at the places they have in
\* the whole of it.
LEMMA PivotSetsSlid ==
    ASSUME NEW S, NEW cs \in Seq(S), NEW n \in 0..Len(cs)
    PROVE  \E H : /\ PivotSets(cs, n, H)
                  /\ H[Len(cs)] = Slid(n, ToSet(FindPivots(SubSeq(cs, n + 1, Len(cs)))))
<1> DEFINE N == Len(cs)
           tail == SubSeq(cs, n + 1, N)
           t == Len(tail)
<1>1. /\ N \in Nat /\ n \in Nat /\ n <= N /\ tail \in Seq(S) /\ t = N - n /\ t \in Nat
      /\ \A i \in 1..t : tail[i] = cs[n + i]
  OBVIOUS
<1> HIDE DEF tail
<1>2. PICK F : PivotSets(tail, 0, F) /\ F[t] = ToSet(FindPivots(tail))
  BY <1>1, PivotSetsOf
<1>3. /\ F[0] = {}
      /\ \A j \in 1..t : F[j] \subseteq 1..j /\ PivotsMove(tail, 0, F[j - 1], F[j], j)
  <2>1. 0 + 1 = 1
    OBVIOUS
  <2> QED
    BY <1>2, <2>1 DEF PivotSets
<1>4. /\ n \in 0..Len(cs) /\ Len(tail) = Len(cs) - n
      /\ \A i \in 1..Len(tail) : tail[i] = cs[n + i]
  BY <1>1
<1>5. ASSUME NEW j \in 1..t
      PROVE  PivotsMove(cs, n, Slid(n, F[j - 1]), Slid(n, F[j]), n + j)
  <2>1. F[j] \in SUBSET Int /\ PivotsMove(tail, 0, F[j - 1], F[j], j)
    BY <1>3
  <2>2. F[j - 1] \in SUBSET (1..j)
    <3>1. CASE j = 1
      BY <1>3, <3>1
    <3>2. CASE j # 1
      <4>1. j - 1 \in 1..t
        BY <1>1, <3>2
      <4>2. F[j - 1] \subseteq 1..(j - 1)
        BY <1>3, <4>1
      <4> QED
        BY <4>2
    <3> QED
      BY <3>1, <3>2
  <2>3. j \in 1..Len(tail)
    OBVIOUS
  <2> HIDE DEF t
  <2> QED
    BY <1>1, <1>4, <2>1, <2>2, <2>3, PivotsMoveSlid
<1> HIDE DEF N, t
<1> DEFINE H == [k \in n..N |-> Slid(n, F[k - n])]
<1>6. H[n] = {} /\ H[N] = Slid(n, ToSet(FindPivots(tail)))
  <2>1. n \in n..N /\ N \in n..N /\ n - n = 0 /\ N - n = t
    BY <1>1
  <2>2. Slid(n, {}) = {}
    BY DEF Slid
  <2> QED
    BY <1>2, <1>3, <2>1, <2>2
<1>7. ASSUME NEW k \in (n + 1)..N
      PROVE  H[k] \subseteq (n + 1)..k /\ PivotsMove(cs, n, H[k - 1], H[k], k)
  <2> DEFINE j == k - n
  <2>1. /\ k \in n..N /\ k - 1 \in n..N /\ j \in 1..t /\ n + j = k
        /\ (k - 1) - n = j - 1 /\ k \in Int
    BY <1>1
  <2>2. H[k] = Slid(n, F[j]) /\ H[k - 1] = Slid(n, F[j - 1])
    BY <2>1
  <2>3. F[j] \subseteq 1..j
    BY <1>3, <2>1
  <2>4. \A x \in F[j] : n + x \in (n + 1)..k
    BY <1>1, <2>1, <2>3
  <2>5. Slid(n, F[j]) \subseteq (n + 1)..k
    BY <2>4 DEF Slid
  <2> HIDE DEF H, j
  <2> QED
    BY <1>5, <2>1, <2>2, <2>5
<1> HIDE DEF H
<1>8. PivotSets(cs, n, H)
  BY <1>6, <1>7 DEF PivotSets, N
<1> QED
  BY <1>6, <1>8 DEF N, tail

\* A pivot that is there in the end has been there since its own position.
LEMMA PivotStays ==
    ASSUME NEW cs, NEW N \in Nat, Len(cs) = N, NEW n \in 0..N, NEW F, PivotSets(cs, n, F),
           NEW p \in F[N]
    PROVE  /\ p \in (n + 1)..N /\ PivotAt(cs, n, p)
           /\ \A k \in p..N : p \in F[k]
<1>1. /\ F[n] = {}
      /\ \A i \in (n + 1)..N : F[i] \subseteq (n + 1)..i /\ PivotsMove(cs, n, F[i - 1], F[i], i)
  BY DEF PivotSets
<1>2. n \in Nat /\ n <= N /\ N # n /\ p \in (n + 1)..N /\ p \in Int
  <2>1. N # n
    BY <1>1
  <2>2. N \in (n + 1)..N
    BY <2>1
  <2> QED
    BY <1>1, <2>1, <2>2
<1> DEFINE R == {d \in 0..(N - p) : p \in F[N - d]}
<1>3. 0 \in R
  <2>1. N - 0 = N /\ 0 \in 0..(N - p)
    BY <1>2
  <2> QED
    BY <2>1
<1>4. ASSUME NEW d \in 1..(N - p), d - 1 \in R PROVE d \in R
  <2> DEFINE k == N - (d - 1)
  <2>1. k \in (n + 1)..N /\ k > p /\ k - 1 = N - d /\ d \in 0..(N - p) /\ k # p
    BY <1>2
  <2>2. p \in F[k] /\ PivotsMove(cs, n, F[k - 1], F[k], k)
    BY <1>1, <1>4, <2>1
  <2>3. p \in F[k - 1]
    <3> HIDE DEF k
    <3> QED
      BY <2>1, <2>2 DEF PivotsMove
  <2> QED
    BY <2>1, <2>3
<1>5. 0..(N - p) \subseteq R
  <2>1. N - p \in Nat
    BY <1>2
  <2> HIDE DEF R
  <2> QED
    BY <1>3, <1>4, <2>1, SetInduction
<1>6. ASSUME NEW k \in p..N PROVE p \in F[k]
  <2>1. N - k \in 0..(N - p) /\ N - (N - k) = k
    BY <1>2
  <2> QED
    BY <1>5, <2>1
<1>7. PivotAt(cs, n, p)
  <2>1. p \in F[p] /\ PivotsMove(cs, n, F[p - 1], F[p], p)
    BY <1>1, <1>2, <1>6
  <2>2. p \notin F[p - 1]
    <3>1. CASE p - 1 = n
      BY <1>1, <3>1
    <3>2. CASE p - 1 # n
      <4>1. p - 1 \in (n + 1)..N
        BY <1>2, <3>2
      <4>2. F[p - 1] \subseteq (n + 1)..(p - 1)
        BY <1>1, <4>1
      <4> QED
        BY <1>2, <4>2
    <3> QED
      BY <3>1, <3>2
  <2> QED
    BY <2>1, <2>2 DEF PivotsMove
<1> QED
  BY <1>2, <1>6, <1>7

\* Nothing is found in the last PivotRight candles.
LEMMA PivotsSettle ==
    ASSUME NEW cs, NEW N \in Nat, Len(cs) = N, NEW n \in 0..N, NEW F, PivotSets(cs, n, F),
           n <= N - PivotRight
    PROVE  F[N] = F[N - PivotRight]
<1> DEFINE M == N - PivotRight
           R == {d \in 0..PivotRight : F[M + d] = F[M]}
<1>1. \A i \in (n + 1)..N : PivotsMove(cs, n, F[i - 1], F[i], i)
  BY DEF PivotSets
<1>2. PivotRight \in Nat /\ M \in Int /\ n <= M /\ n \in Nat
  BY ZoneRulesAssumption
<1>3. 0 \in R
  BY <1>2
<1>4. ASSUME NEW d \in 1..PivotRight, d - 1 \in R PROVE d \in R
  <2> DEFINE k == M + d
  <2>1. k \in (n + 1)..N /\ k - 1 = M + (d - 1) /\ k > M /\ d \in 0..PivotRight /\ k \in Int
    BY <1>2
  <2>2. ~PivotAt(cs, n, k)
    <3>1. k \notin ((n + PivotLeft) + 1)..M
      BY <1>2, <2>1
    <3> HIDE DEF k
    <3> QED
      BY <3>1 DEF PivotAt
  <2>3. PivotsMove(cs, n, F[k - 1], F[k], k)
    BY <1>1, <2>1
  <2>4. F[k] = F[k - 1]
    <3> HIDE DEF k
    <3> QED
      BY <2>2, <2>3 DEF PivotsMove
  <2>5. F[k - 1] = F[M]
    BY <1>4, <2>1
  <2> QED
    BY <2>1, <2>4, <2>5
<1>5. PivotRight \in R
  <2> HIDE DEF R
  <2>1. 0..PivotRight \subseteq R
    BY <1>2, <1>3, <1>4, SetInduction
  <2> QED
    BY <1>2, <2>1
<1>6. M + PivotRight = N
  BY <1>2
<1> QED
  BY <1>5, <1>6

\* From a pivot p on, P and A have the same ones.
AlikeFrom(P, A, p) == p \in P /\ p \in A /\ \A x \in Int : x >= p => (x \in P <=> x \in A)

\* Two runs that agree from a pivot on continue to agree.
LEMMA MovesAlike ==
    ASSUME NEW a, NEW b, NEW n, NEW k \in Int, NEW p \in Int,
           NEW P \in SUBSET Int, NEW A \in SUBSET Int, NEW Q \in SUBSET Int, NEW B \in SUBSET Int,
           PivotsMove(a, 0, P, Q, k), PivotsMove(b, n, A, B, k),
           PivotAt(a, 0, k) <=> PivotAt(b, n, k),
           b[k] = a[k], \A x \in P : b[x] = a[x],
           AlikeFrom(P, A, p), p \in Q, p \in B
    PROVE  AlikeFrom(Q, B, p)
<1>1. p \in P /\ p \in A /\ \A x \in Int : x >= p => (x \in P <=> x \in A)
  BY DEF AlikeFrom
<1>2. TouchSeparation \in Nat
  BY ZoneRulesAssumption
<1>3. CASE ~PivotAt(a, 0, k)
  BY <1>3 DEF PivotsMove
<1>4. CASE /\ PivotAt(a, 0, k) /\ Q = P \cup {k}
           /\ \A x \in P : x + TouchSeparation <= k
  <2>1. ASSUME NEW m \in A, \A x \in A : x <= m, k < m + TouchSeparation PROVE FALSE
    <3>1. m \in P
      BY <1>1, <2>1
    <3>2. m + TouchSeparation <= k
      BY <1>4, <3>1
    <3> QED
      BY <1>2, <2>1, <3>2
  <2>2. B = A \cup {k}
    BY <1>4, <2>1 DEF PivotsMove
  <2> QED
    BY <1>1, <1>4, <2>2 DEF AlikeFrom
<1>5. ASSUME PivotAt(a, 0, k), NEW m \in P, \A x \in P : x <= m, k < m + TouchSeparation,
             \/ a[k].low < a[m].low /\ Q = (P \ {m}) \cup {k}
             \/ ~(a[k].low < a[m].low) /\ Q = P
      PROVE  AlikeFrom(Q, B, p)
  <2>1. m \in Int /\ m >= p /\ m \in A
    BY <1>1, <1>5
  <2>2. ~(\A x \in A : x + TouchSeparation <= k)
    <3>1. ~(m + TouchSeparation <= k)
      BY <1>2, <1>5, <2>1
    <3> QED
      BY <2>1, <3>1
  <2>3. PICK u \in A : /\ \A x \in A : x <= u
                       /\ \/ b[k].low < b[u].low /\ B = (A \ {u}) \cup {k}
                          \/ ~(b[k].low < b[u].low) /\ B = A
    BY <1>5, <2>2 DEF PivotsMove
  <2>4. u = m
    <3>1. u \in Int /\ m <= u /\ p <= u
      BY <1>1, <2>1, <2>3
    <3>2. u \in P
      BY <1>1, <3>1
    <3>3. u <= m
      BY <1>5, <3>2
    <3> QED
      BY <2>1, <3>1, <3>3
  <2>5. b[k] = a[k] /\ b[u] = a[m]
    BY <2>4
  <2>6. \/ Q = (P \ {m}) \cup {k} /\ B = (A \ {m}) \cup {k}
        \/ Q = P /\ B = A
    BY <1>5, <2>3, <2>4, <2>5
  <2> QED
    BY <1>1, <2>6 DEF AlikeFrom
<1> QED
  BY <1>3, <1>4, <1>5 DEF PivotsMove

\* The batch of the next run has one candle more and lacks the first n: from the
\* first pivot that both runs use they use the same ones, except that the newest
\* may have given way to a lower one.
THEOREM PivotsOfSlidBatch ==
    ASSUME NEW S, NEW cs \in Seq(S), NEW c \in S, NEW n \in 0..Len(cs),
           NEW p \in ToSet(FindPivots(cs)),
           p \in Slid(n, ToSet(FindPivots(SubSeq(Append(cs, c), n + 1, Len(Append(cs, c))))))
    PROVE  LET more == Append(cs, c)
               old == ToSet(FindPivots(cs))
               new == Slid(n, ToSet(FindPivots(SubSeq(more, n + 1, Len(more)))))
           IN /\ \A q \in old : q > p =>
                   \/ q \in new
                   \/ q = Max(old) /\ \E r \in new : r > q /\ more[r].low < cs[q].low
              /\ \A q \in new : p < q /\ q <= Max(old) => q \in old
<1> DEFINE N == Len(cs)
           more == Append(cs, c)
           old == ToSet(FindPivots(cs))
           new == Slid(n, ToSet(FindPivots(SubSeq(more, n + 1, Len(more)))))
           M == N - PivotRight
<1>1. /\ N \in Nat /\ more \in Seq(S) /\ Len(more) = N + 1 /\ n \in Nat /\ n <= N
      /\ \A i \in 1..N : more[i] = cs[i]
  OBVIOUS
<1>2. PivotLeft \in Nat \ {0} /\ PivotRight \in Nat \ {0}
  BY ZoneRulesAssumption
<1>3. PICK F : PivotSets(cs, 0, F) /\ F[N] = old
  BY PivotSetsOf
<1>4. PICK H : PivotSets(more, n, H) /\ H[N + 1] = new
  <2> HIDE DEF more
  <2>1. n \in 0..Len(more)
    BY <1>1
  <2>2. \E H : PivotSets(more, n, H) /\ H[Len(more)] = new
    BY <1>1, <2>1, PivotSetsSlid
  <2> QED
    BY <1>1, <2>2
<1>5. p \in old /\ p \in new /\ Len(cs) = N
  OBVIOUS
<1> HIDE DEF more, old, new, N
<1>6. p \in 1..N /\ PivotAt(cs, 0, p) /\ \A k \in p..N : p \in F[k]
  <2>1. 0 \in 0..N /\ 0 + 1 = 1 /\ p \in F[N]
    BY <1>1, <1>3, <1>5
  <2>2. p \in (0 + 1)..N /\ PivotAt(cs, 0, p) /\ \A k \in p..N : p \in F[k]
    BY <1>1, <1>3, <1>5, <2>1, PivotStays
  <2> QED
    BY <2>1, <2>2
<1>7. PivotAt(more, n, p) /\ \A k \in p..(N + 1) : p \in H[k]
  <2>1. n \in 0..(N + 1) /\ p \in H[N + 1] /\ N + 1 \in Nat
    BY <1>1, <1>4, <1>5
  <2> QED
    BY <1>1, <1>4, <2>1, PivotStays
<1>8. p \in Int /\ p <= M /\ n + PivotLeft < p /\ M \in Nat /\ M < N /\ n < M
  <2>1. p \in (((0 + PivotLeft) + 1)..M) /\ p \in (((n + PivotLeft) + 1)..((N + 1) - PivotRight))
    BY <1>1, <1>5, <1>6, <1>7 DEF PivotAt
  <2> QED
    BY <1>1, <1>2, <2>1
<1>9. /\ F[0] = {} /\ H[n] = {}
      /\ \A i \in 1..N : F[i] \subseteq 1..i /\ PivotsMove(cs, 0, F[i - 1], F[i], i)
      /\ \A i \in (n + 1)..(N + 1) : H[i] \subseteq (n + 1)..i /\ PivotsMove(more, n, H[i - 1], H[i], i)
  <2>1. 0 + 1 = 1
    OBVIOUS
  <2> QED
    BY <1>1, <1>3, <1>4, <1>5, <2>1 DEF PivotSets
<1>10. ASSUME NEW k \in (p + 1)..M PROVE PivotAt(cs, 0, k) <=> PivotAt(more, n, k)
  <2>1. k \in (((0 + PivotLeft) + 1)..M) /\ k \in (((n + PivotLeft) + 1)..((N + 1) - PivotRight))
    BY <1>1, <1>2, <1>8
  <2>2. IsPivot(cs, k) <=> IsPivot(more, k)
    <3>1. ASSUME NEW i \in ((k - PivotLeft)..(k + PivotRight)) PROVE more[i] = cs[i]
      <4>1. i \in 1..N
        BY <1>1, <1>2, <1>8
      <4> QED
        BY <1>1, <4>1
    <3>2. /\ \A i \in (k - PivotLeft)..(k - 1) : i \in (k - PivotLeft)..(k + PivotRight)
          /\ \A i \in (k + 1)..(k + PivotRight) : i \in (k - PivotLeft)..(k + PivotRight)
          /\ k \in (k - PivotLeft)..(k + PivotRight)
      BY <1>2, <1>8
    <3>3. /\ \A i \in (k - PivotLeft)..(k - 1) : more[i] = cs[i]
          /\ \A i \in (k + 1)..(k + PivotRight) : more[i] = cs[i]
          /\ more[k] = cs[k]
      BY <3>1, <3>2
    <3>4. {more[i].low : i \in (k - PivotLeft)..(k - 1)} = {cs[i].low : i \in (k - PivotLeft)..(k - 1)}
      BY <3>3
    <3>5. {more[i].low : i \in (k + 1)..(k + PivotRight)} = {cs[i].low : i \in (k + 1)..(k + PivotRight)}
      BY <3>3
    <3> QED
      BY <3>3, <3>4, <3>5 DEF IsPivot
  <2> QED
    BY <1>1, <1>5, <2>1, <2>2 DEF PivotAt
<1> DEFINE R == {d \in 0..(M - p) : AlikeFrom(F[p + d], H[p + d], p)}
<1>11. 0 \in R
  <2>1. p \in 1..N /\ p \in (n + 1)..(N + 1) /\ p \in p..N /\ p \in p..(N + 1) /\ p + 0 = p
        /\ 0 \in 0..(M - p)
    BY <1>1, <1>2, <1>6, <1>8
  <2>2. /\ F[p] \subseteq 1..p /\ H[p] \subseteq (n + 1)..p /\ p \in F[p] /\ p \in H[p]
    BY <1>6, <1>7, <1>9, <2>1
  <2>3. ASSUME NEW x \in Int, x >= p PROVE x \in F[p] <=> x \in H[p]
    BY <1>1, <1>8, <2>2, <2>3
  <2>4. AlikeFrom(F[p], H[p], p)
    BY <2>2, <2>3 DEF AlikeFrom
  <2> QED
    BY <2>1, <2>4
<1>12. ASSUME NEW d \in 1..(M - p), d - 1 \in R PROVE d \in R
  <2> DEFINE k == p + d
  <2>1. /\ k \in Int /\ k \in (p + 1)..M /\ k \in 1..N /\ k \in (n + 1)..(N + 1)
        /\ k - 1 \in 1..N /\ k - 1 \in (n + 1)..(N + 1) /\ k \in p..N /\ k \in p..(N + 1)
        /\ k - 1 = p + (d - 1) /\ d \in 0..(M - p)
    BY <1>1, <1>2, <1>6, <1>8
  <2>2. AlikeFrom(F[k - 1], H[k - 1], p)
    BY <1>12, <2>1
  <2> HIDE DEF k
  <2>3. /\ F[k] \in SUBSET Int /\ H[k] \in SUBSET Int /\ F[k - 1] \in SUBSET Int
        /\ H[k - 1] \in SUBSET Int /\ \A x \in F[k - 1] : more[x] = cs[x]
        /\ more[k] = cs[k]
    <3>1. /\ F[k] \subseteq 1..k /\ H[k] \subseteq (n + 1)..k /\ F[k - 1] \subseteq 1..(k - 1)
          /\ H[k - 1] \subseteq (n + 1)..(k - 1)
      BY <1>9, <2>1
    <3>2. \A x \in F[k - 1] : x \in 1..N
      BY <1>1, <2>1, <3>1
    <3> QED
      BY <1>1, <2>1, <3>1, <3>2
  <2>4. /\ PivotsMove(cs, 0, F[k - 1], F[k], k) /\ PivotsMove(more, n, H[k - 1], H[k], k)
        /\ PivotAt(cs, 0, k) <=> PivotAt(more, n, k)
    BY <1>9, <1>10, <2>1
  <2>5. p \in F[k] /\ p \in H[k]
    BY <1>6, <1>7, <2>1
  <2>6. AlikeFrom(F[k], H[k], p)
    BY <1>8, <2>1, <2>2, <2>3, <2>4, <2>5, MovesAlike
  <2> QED
    BY <2>1, <2>6 DEF k
<1>13. AlikeFrom(F[M], H[M], p)
  <2>1. M - p \in Nat /\ M - p \in 0..(M - p) /\ p + (M - p) = M
    BY <1>8
  <2>2. M - p \in R
    <3> HIDE DEF R
    <3>1. 0..(M - p) \subseteq R
      BY <1>11, <1>12, <2>1, SetInduction
    <3> QED
      BY <2>1, <3>1
  <2> QED
    BY <2>1, <2>2
<1>14. old = F[M]
  <2>1. 0 \in 0..N /\ 0 <= N - PivotRight
    BY <1>1, <1>8
  <2> QED
    BY <1>1, <1>3, <1>5, <2>1, PivotsSettle
<1> DEFINE i == M + 1
<1>15. new = H[i]
  <2>1. n \in 0..(N + 1) /\ n <= (N + 1) - PivotRight /\ N + 1 \in Nat
    BY <1>1, <1>2, <1>8
  <2>2. H[N + 1] = H[(N + 1) - PivotRight]
    BY <1>1, <1>4, <2>1, PivotsSettle
  <2>3. (N + 1) - PivotRight = i
    BY <1>1, <1>2
  <2> QED
    BY <1>4, <2>2, <2>3
<1>16. PivotsMove(more, n, H[M], new, i)
  <2>1. i \in (n + 1)..(N + 1) /\ i - 1 = M
    BY <1>1, <1>8
  <2>2. PivotsMove(more, n, H[i - 1], H[i], i)
    BY <1>9, <2>1
  <2> QED
    BY <1>15, <2>1, <2>2
<1> DEFINE top == Max(old)
<1>17. /\ old \subseteq 1..M /\ top \in old /\ \A x \in old : x \in Int /\ x <= top
       /\ H[M] \subseteq Int /\ top \in Int /\ top <= M /\ top \in 1..N
  <2>1. M \in 1..N /\ M \in (n + 1)..(N + 1)
    BY <1>1, <1>6, <1>8
  <2>2. old \subseteq 1..M /\ H[M] \subseteq (n + 1)..M
    BY <1>9, <1>14, <2>1
  <2>3. old \subseteq 0..M /\ old # {}
    BY <1>5, <2>2
  <2>4. top \in old /\ \A x \in old : x <= top
    BY <1>8, <2>3, MaxOfBounded
  <2> HIDE DEF top, M
  <2> QED
    BY <1>1, <1>8, <2>1, <2>2, <2>4
<1>18. \A x \in Int : x >= p => (x \in old <=> x \in H[M])
  BY <1>13, <1>14 DEF AlikeFrom
<1>19. i \in Int /\ i > top /\ p <= top /\ top \in H[M] /\ \A x \in old : x < i
  <2>1. i \in Int /\ p <= top
    BY <1>5, <1>8, <1>17
  <2>2. top \in H[M]
    BY <1>8, <1>17, <1>18, <2>1
  <2> HIDE DEF top
  <2>3. \A x \in old : x <= M
    BY <1>17
  <2> QED
    BY <1>8, <1>17, <2>1, <2>2, <2>3
<1> SUFFICES /\ \A q \in old : q > p =>
                   \/ q \in new
                   \/ q = top /\ \E r \in new : r > q /\ more[r].low < cs[q].low
             /\ \A q \in new : p < q /\ q <= top => q \in old
  BY DEF old, new, more
<1> HIDE DEF top, i, M
<1>20. CASE new = H[M]
  <2>1. ASSUME NEW q \in old, q > p PROVE q \in new
    BY <1>8, <1>17, <1>18, <1>20, <2>1
  <2>2. ASSUME NEW q \in new, p < q PROVE q \in old
    BY <1>8, <1>17, <1>18, <1>20, <2>2
  <2> QED
    BY <2>1, <2>2
<1>21. CASE new = H[M] \cup {i}
  BY <1>8, <1>17, <1>18, <1>19, <1>21
<1>22. ASSUME NEW m \in H[M], \A x \in H[M] : x <= m,
              more[i].low < more[m].low, new = (H[M] \ {m}) \cup {i}
       PROVE  /\ \A q \in old : q > p =>
                   \/ q \in new
                   \/ q = top /\ \E r \in new : r > q /\ more[r].low < cs[q].low
              /\ \A q \in new : p < q /\ q <= top => q \in old
  <2>1. m = top
    <3>1. m \in Int /\ top <= m /\ m >= p
      BY <1>8, <1>17, <1>19, <1>22
    <3>2. m \in old
      BY <1>18, <3>1
    <3> QED
      BY <1>17, <3>1, <3>2
  <2>2. i \in new /\ i > top /\ more[i].low < cs[top].low
    BY <1>1, <1>17, <1>19, <1>22, <2>1
  <2>3. ASSUME NEW q \in old, q > p, q # top PROVE q \in new
    BY <1>8, <1>17, <1>18, <1>22, <2>1, <2>3
  <2>4. ASSUME NEW q \in new, p < q, q <= top PROVE q \in old
    BY <1>8, <1>17, <1>18, <1>19, <1>22, <2>4
  <2> QED
    BY <2>2, <2>3, <2>4
<1> QED
  BY <1>16, <1>20, <1>21, <1>22 DEF PivotsMove

----------------------------------------------------------------------------
\* Clusters of positions of X, with none of them in two places.
Clustered(cl, X) ==
    /\ \A c \in 1..Len(cl) : /\ Len(cl[c]) # 0
                             /\ \A k \in 1..Len(cl[c]) : cl[c][k] \in X
    /\ \A c, d \in 1..Len(cl) : \A k \in 1..Len(cl[c]), l \in 1..Len(cl[d]) :
         cl[c][k] = cl[d][l] => c = d /\ k = l

\* A pivot joins the last cluster or begins one.
JoinsCluster(cl, x, new) ==
    /\ Len(cl) # 0 /\ Len(new) = Len(cl) /\ new[Len(cl)] = Append(cl[Len(cl)], x)
    /\ \A c \in 1..(Len(cl) - 1) : new[c] = cl[c]
BeginsCluster(cl, x, new) ==
    /\ Len(new) = Len(cl) + 1 /\ new[Len(cl) + 1] = <<x>>
    /\ \A c \in 1..Len(cl) : new[c] = cl[c]

\* What a step of the loop over the pivots does to the clusters.
LEMMA Joined ==
    ASSUME NEW cs, NEW I, NEW cl \in Seq(Seq(I)), NEW x \in I
    PROVE  /\ JoinCluster(cs, cl, x) \in Seq(Seq(I))
           /\ \/ JoinsCluster(cl, x, JoinCluster(cs, cl, x))
              \/ BeginsCluster(cl, x, JoinCluster(cs, cl, x))
<1> DEFINE new == JoinCluster(cs, cl, x)
           m == Len(cl)
           S == Seq(I)
<1>1. cl \in Seq(S) /\ m \in Nat
  OBVIOUS
<1>2. \/ cl # <<>> /\ new = Append(Front(cl), Append(Last(cl), x))
      \/ new = Append(cl, <<x>>)
  BY DEF JoinCluster
<1>3. CASE new = Append(cl, <<x>>)
  <2>1. <<x>> \in S
    OBVIOUS
  <2> HIDE DEF S, new
  <2>2. /\ new \in Seq(S) /\ Len(new) = m + 1 /\ new[m + 1] = <<x>>
        /\ \A c \in 1..m : new[c] = cl[c]
    BY <1>1, <1>3, <2>1
  <2> QED
    BY <2>2 DEF S, new, BeginsCluster
<1>4. CASE cl # <<>> /\ new = Append(Front(cl), Append(Last(cl), x))
  <2>1. m # 0 /\ m \in 1..m
    BY <1>1, <1>4
  <2>2. Last(cl) = cl[m] /\ cl[m] \in S
    <3>1. Last(cl) = cl[m]
      BY DEF Last
    <3> HIDE DEF S
    <3> QED
      BY <1>1, <2>1, <3>1
  <2>3. Append(cl[m], x) \in S
    BY <2>2
  <2> HIDE DEF S
  <2> DEFINE q == Front(cl)
  <2>4. /\ q \in Seq(S) /\ Len(q) = m - 1 /\ \A c \in 1..(m - 1) : q[c] = cl[c]
    <3>1. /\ SubSeq(cl, 1, m - 1) = [a \in 1..(m - 1) |-> cl[a]]
          /\ m - 1 \in Nat /\ \A a \in 1..(m - 1) : a \in 1..m
      BY <1>1, <2>1
    <3>2. q = [a \in 1..(m - 1) |-> cl[a]]
      BY <3>1 DEF Front
    <3> HIDE DEF q
    <3>3. \A a \in 1..m : cl[a] \in S
      BY <1>1
    <3> HIDE DEF m
    <3> QED
      BY <3>1, <3>2, <3>3
  <2>5. new = Append(q, Append(cl[m], x))
    BY <1>4, <2>2
  <2> HIDE DEF q, new
  <2> DEFINE v == Append(cl[m], x)
  <2>6. v \in S /\ new = Append(q, v)
    BY <2>3, <2>5
  <2> HIDE DEF v
  <2>7. /\ new \in Seq(S) /\ Len(new) = m /\ new[m] = v
        /\ \A c \in 1..(m - 1) : new[c] = cl[c]
    BY <1>1, <2>1, <2>4, <2>6
  <2> QED
    BY <2>1, <2>7 DEF S, new, v, JoinsCluster
<1> QED
  BY <1>2, <1>3, <1>4

\* After the step every pivot seen is in exactly one cluster.
LEMMA JoinKeeps ==
    ASSUME NEW cs, NEW I, NEW cl \in Seq(Seq(I)), NEW X, Clustered(cl, X),
           NEW x \in I, x \notin X
    PROVE  Clustered(JoinCluster(cs, cl, x), X \cup {x})
<1> DEFINE new == JoinCluster(cs, cl, x)
           m == Len(cl)
           S == Seq(I)
           Old(c, k) == c \in 1..m /\ k \in 1..Len(cl[c]) /\ new[c][k] = cl[c][k]
<1>1. new \in Seq(Seq(I)) /\ (JoinsCluster(cl, x, new) \/ BeginsCluster(cl, x, new))
  BY Joined
<1> HIDE DEF new
<1>2. m \in Nat /\ \A c \in 1..m : cl[c] \in Seq(I)
  <2>1. cl \in Seq(S)
    OBVIOUS
  <2> HIDE DEF S
  <2>2. m \in Nat /\ \A c \in 1..m : cl[c] \in S
    BY <2>1
  <2> QED
    BY <2>2 DEF S
<1>3. PICK nc, nk : /\ nc \in 1..Len(new) /\ nk \in 1..Len(new[nc]) /\ new[nc][nk] = x
                    /\ \A c \in 1..Len(new) : /\ Len(new[c]) # 0
                                              /\ \A k \in 1..Len(new[c]) :
                                                   (c = nc /\ k = nk) \/ Old(c, k)
  <2>1. CASE m # 0 /\ Len(new) = m /\ new[m] = Append(cl[m], x)
             /\ \A c \in 1..(m - 1) : new[c] = cl[c]
    <3> DEFINE s == cl[m]
               t == new[m]
    <3>1. m \in 1..m /\ s \in Seq(I) /\ t = Append(s, x) /\ Len(s) \in Nat
      BY <1>2, <2>1
    <3>2. /\ Len(t) = Len(s) + 1 /\ t[Len(s) + 1] = x /\ \A k \in 1..Len(s) : t[k] = s[k]
      BY <3>1
    <3>3. \A k \in 1..(Len(s) + 1) : k = Len(s) + 1 \/ k \in 1..Len(s)
      BY <3>1
    <3>4. ASSUME NEW c \in 1..Len(new)
          PROVE  /\ Len(new[c]) # 0
                 /\ \A k \in 1..Len(new[c]) : (c = m /\ k = Len(s) + 1) \/ Old(c, k)
      <4>1. CASE c = m
        BY <3>1, <3>2, <3>3, <4>1
      <4>2. CASE c # m
        <5>1. c \in 1..(m - 1) /\ c \in 1..m
          BY <1>2, <2>1, <4>2
        <5>2. new[c] = cl[c] /\ Len(cl[c]) # 0
          BY <2>1, <5>1 DEF Clustered
        <5> QED
          BY <5>1, <5>2
      <4> QED
        BY <4>1, <4>2
    <3>5. m \in 1..Len(new) /\ Len(s) + 1 \in 1..Len(new[m]) /\ new[m][Len(s) + 1] = x
      BY <2>1, <3>1, <3>2
    <3> HIDE DEF Old, s, t
    <3> QED
      BY <3>4, <3>5
  <2>2. CASE Len(new) = m + 1 /\ new[m + 1] = <<x>> /\ \A c \in 1..m : new[c] = cl[c]
    <3>1. /\ m + 1 \in 1..Len(new) /\ 1 \in 1..Len(new[m + 1]) /\ new[m + 1][1] = x
          /\ Len(new[m + 1]) = 1
      BY <1>2, <2>2
    <3>2. ASSUME NEW c \in 1..Len(new)
          PROVE  /\ Len(new[c]) # 0
                 /\ \A k \in 1..Len(new[c]) : (c = m + 1 /\ k = 1) \/ Old(c, k)
      <4>1. CASE c = m + 1
        <5>1. \A k \in 1..1 : k = 1
          OBVIOUS
        <5>2. Len(new[c]) = 1
          BY <3>1, <4>1
        <5> HIDE DEF Old
        <5> QED
          BY <4>1, <5>1, <5>2
      <4>2. CASE c # m + 1
        <5>1. c \in 1..m
          BY <1>2, <2>2, <4>2
        <5>2. new[c] = cl[c] /\ Len(cl[c]) # 0
          BY <2>2, <5>1 DEF Clustered
        <5> QED
          BY <5>1, <5>2
      <4> QED
        BY <4>1, <4>2
    <3> HIDE DEF Old
    <3> QED
      BY <3>1, <3>2
  <2> QED
    BY <1>1, <2>1, <2>2 DEF JoinsCluster, BeginsCluster
<1>4. \A c, k : Old(c, k) => new[c][k] \in X
  BY DEF Clustered
<1>5. ASSUME NEW c \in 1..Len(new), NEW d \in 1..Len(new), NEW k \in 1..Len(new[c]),
             NEW l \in 1..Len(new[d]), new[c][k] = new[d][l]
      PROVE  c = d /\ k = l
  <2>1. CASE Old(c, k) /\ Old(d, l)
    <3>1. /\ c \in 1..m /\ k \in 1..Len(cl[c]) /\ d \in 1..m /\ l \in 1..Len(cl[d])
          /\ cl[c][k] = cl[d][l]
      BY <1>5, <2>1
    <3>2. \A a, b \in 1..m : \A i \in 1..Len(cl[a]), j \in 1..Len(cl[b]) :
            cl[a][i] = cl[b][j] => a = b /\ i = j
      BY DEF Clustered
    <3> HIDE DEF m
    <3> QED
      BY <3>1, <3>2, Zenon
  <2>2. CASE c = nc /\ k = nk /\ Old(d, l)
    BY <1>3, <1>4, <1>5, <2>2
  <2>3. CASE d = nc /\ l = nk /\ Old(c, k)
    BY <1>3, <1>4, <1>5, <2>3
  <2> HIDE DEF Old
  <2> QED
    BY <1>3, <2>1, <2>2, <2>3
<1>6. ASSUME NEW c \in 1..Len(new), NEW k \in 1..Len(new[c]) PROVE new[c][k] \in X \cup {x}
  <2> HIDE DEF Old
  <2> QED
    BY <1>3, <1>4
<1> QED
  BY <1>3, <1>5, <1>6 DEF Clustered, new

\* The clusters of sorted pivots.
ClustersOf(cs, q) ==
    FoldLeft(LAMBDA clusters, i : JoinCluster(cs, clusters, i), <<>>, q)

Clusters(f, cs, q) ==
    f[0] = <<>> /\ \A i \in 1..Len(q) : f[i] = JoinCluster(cs, f[i - 1], q[i])

\* _cluster_pivots goes through the sorted pivots one after the other.
LEMMA ClusterSteps ==
    ASSUME NEW cs, NEW I, NEW q \in Seq(I)
    PROVE  \E f \in [0..Len(q) -> Seq(Seq(I))] :
             /\ Clusters(f, cs, q)
             /\ ClustersOf(cs, q) = f[Len(q)]
<1> DEFINE n == Len(q)
           A == Seq(Seq(I))
           Step(clusters, i) == JoinCluster(cs, clusters, i)
           op == [clusters \in A |-> [i \in I |-> Step(clusters, i)]]
           Folds(g) == g = [s \in SUBSET DOMAIN q |->
                              IF s = {} THEN <<>> ELSE Step(g[s \ {Max(s)}], q[Max(s)])]
<1>1. n \in Nat /\ DOMAIN q = 1..n /\ \A i \in 1..n : q[i] \in I
  OBVIOUS
<1>3. \A clusters \in A, i \in I : Step(clusters, i) \in A
  BY Joined
<1> DEFINE g == CHOOSE g : Folds(g)
<1>4. ClustersOf(cs, q) = g[DOMAIN q]
  BY DEF ClustersOf, FoldLeft, MapThenFoldSet
<1>0. <<>> \in A
  OBVIOUS
<1> HIDE DEF Step, A
<1>5. op \in [A -> [I -> A]]
  BY <1>3
<1>6. PICK it \in [SUBSET DOMAIN q -> A] : IsFold(it, <<>>, q, op)
  <2> HIDE DEF op, n
  <2> QED
    BY <1>0, <1>5, FoldExists
<1>7. Folds(it)
  <2>1. ASSUME NEW s \in SUBSET DOMAIN q, s # {}
        PROVE  op[it[s \ {Max(s)}]][q[Max(s)]] = Step(it[s \ {Max(s)}], q[Max(s)])
    <3>1. s \subseteq 0..n
      BY <1>1
    <3>2. Max(s) \in 1..n
      <4> HIDE DEF n
      <4> QED
        BY <1>1, <2>1, <3>1, MaxOfBounded
    <3>3. q[Max(s)] \in I /\ s \ {Max(s)} \in SUBSET DOMAIN q
      BY <1>1, <3>2
    <3>4. it[s \ {Max(s)}] \in A
      BY <3>3
    <3> QED
      BY <3>3, <3>4
  <2> HIDE DEF op
  <2> QED
    BY <1>6, <2>1 DEF IsFold
<1>8. Folds(g)
  <2> HIDE DEF Folds
  <2> QED
    BY <1>7
<1> HIDE DEF g, op
<1> DEFINE f == [i \in 0..n |-> g[1..i]]
<1>9. f[0] = <<>>
  <2>1. g[{}] = <<>>
    BY <1>8
  <2>2. 1..0 = {} /\ 0 \in 0..n
    BY <1>1
  <2> QED
    BY <2>1, <2>2
<1>10. ASSUME NEW i \in 1..n PROVE f[i] = Step(f[i - 1], q[i])
  <2>1. /\ Max(1..i) = i /\ (1..i) \ {i} = 1..(i - 1) /\ i \in 1..i
        /\ 1..i \in SUBSET (1..n)
    <3> HIDE DEF n
    <3> QED
      BY <1>1, PrefixSets
  <2>2. g[1..i] = Step(g[(1..i) \ {Max(1..i)}], q[Max(1..i)])
    BY <1>1, <1>8, <2>1
  <2>3. g[1..i] = Step(g[1..(i - 1)], q[i])
    BY <2>1, <2>2
  <2>4. i \in 0..n /\ i - 1 \in 0..n
    BY <1>1
  <2>5. f[i] = g[1..i] /\ f[i - 1] = g[1..(i - 1)]
    BY <2>4
  <2> QED
    BY <2>3, <2>5
<1>11. f[n] = g[DOMAIN q]
  BY <1>1
<1> DEFINE Lists == {i \in 0..n : f[i] \in A}
<1> HIDE DEF f
<1>12. 0..n \subseteq Lists
  <2>1. f[0] \in A
    BY <1>0, <1>9, Zenon
  <2>2. 0 \in Lists
    BY <1>1, <2>1
  <2>3. ASSUME NEW i \in 1..n, i - 1 \in Lists PROVE i \in Lists
    BY <1>1, <1>3, <1>10, <2>3
  <2> HIDE DEF Lists, n
  <2> QED
    BY <1>1, <2>2, <2>3, SetInduction
<1>13. f \in [0..n -> A]
  <2>1. \A i \in 0..n : f[i] \in A
    BY <1>12
  <2> QED
    BY <2>1 DEF f
<1> QED
  BY <1>4, <1>9, <1>10, <1>11, <1>13 DEF Step, A, Clusters

\* Every cluster is one of pivots, and no pivot is in two.
LEMMA ClustersOfPivots ==
    ASSUME NEW cs, NEW n \in Nat, cs \in Seq(Ohlcv), n = Len(cs), NEW pivots, ToSet(pivots) \subseteq 1..n, 
           IsFiniteSet(ToSet(pivots))
    PROVE  LET cl == ClusterPivots(cs, pivots)
           IN cl \in Seq(Seq(1..n)) /\ Clustered(cl, ToSet(pivots))
<1> DEFINE P == ToSet(pivots)
           m == Cardinality(P)
           I == 1..n
           cheaper(i, k) == \/ cs[i].low < cs[k].low
                            \/ cs[i].low = cs[k].low /\ i < k
           R == {r \in P \X P : cheaper(r[1], r[2])}
           Sorts(p) == \A i, k \in 1..m : i < k => ~cheaper(p[k], p[i])
           q == InOrder(P, cheaper)
<1> HIDE DEF P
<1>1. P \subseteq I /\ IsFiniteSet(P)
  BY DEF P
<1>2. \A x \in P : x \in Int /\ cs[x].low \in Int
  <2>1. \A x \in I : cs[x] \in Ohlcv
    OBVIOUS
  <2> QED
    BY <1>1, <2>1 DEF Ohlcv
<1>3. Precedence(R, P)
  <2>1. \A x, y \in P : <<x, y>> \in R <=> cheaper(x, y)
    OBVIOUS
  <2>2. \A x \in P : ~cheaper(x, x)
    BY <1>2
  <2>3. \A x, y, z \in P : cheaper(x, y) /\ cheaper(y, z) => cheaper(x, z)
    BY <1>2
  <2> HIDE DEF R, cheaper
  <2> QED
    BY <2>1, <2>2, <2>3 DEF Precedence
<1>4. \E p \in Bijection(1..m, P) : Sorts(p)
  <2>1. PICK p \in Bijection(1..m, P) : \A i, k \in 1..m : i < k => <<p[k], p[i]>> \notin R
    <3>1. m = Cardinality(P)
      OBVIOUS
    <3> HIDE DEF R, m, I
    <3> QED
      BY <1>1, <1>3, <3>1, Ranked
  <2>2. \A i \in 1..m : p[i] \in P
    BY <2>1 DEF Bijection, Injection
  <2>3. Sorts(p)
    BY <2>1, <2>2
  <2> QED
    BY <2>1, <2>3
<1>5. q \in Bijection(1..m, P)
  <2>1. q = CHOOSE p \in Bijection(1..m, P) : Sorts(p)
    BY DEF InOrder
  <2> HIDE DEF Sorts, q
  <2> QED
    BY <1>4, <2>1
<1> DEFINE cl == ClustersOf(cs, q)
<1>6. ClusterPivots(cs, pivots) = cl
  BY DEF ClusterPivots, ClustersOf, P
<1> HIDE DEF q, Sorts, R, cheaper
<1>7. m \in Nat
  BY <1>1, FS_CardinalityType
<1> HIDE DEF m
<1>8. /\ q \in [1..m -> P] /\ \A i, k \in 1..m : q[i] = q[k] => i = k
  BY <1>5 DEF Bijection, Injection, IsInjective
<1> HIDE DEF I
<1>9. q \in Seq(I) /\ Len(q) = m
  BY <1>1, <1>7, <1>8
<1>10. PICK f \in [0..m -> Seq(Seq(I))] : Clusters(f, cs, q) /\ cl = f[m]
  BY <1>9, ClusterSteps
<1> HIDE DEF cl
<1>11. f[0] = <<>> /\ \A i \in 1..m : f[i] = JoinCluster(cs, f[i - 1], q[i])
  BY <1>9, <1>10 DEF Clusters
<1> DEFINE First(i) == {q[k] : k \in 1..i}
           D == {i \in 0..m : Clustered(f[i], First(i))}
<1>12. 0 \in D
  BY <1>7, <1>11 DEF Clustered
<1>13. ASSUME NEW i \in 1..m, i - 1 \in D PROVE i \in D
  <2>1. i \in 0..m /\ i - 1 \in 0..m /\ q[i] \in I
    BY <1>7, <1>9
  <2>2. q[i] \notin First(i - 1)
    BY <1>7, <1>8
  <2>3. First(i) = First(i - 1) \cup {q[i]}
    <3>1. \A k \in 1..i : k = i \/ k \in 1..(i - 1)
      BY <1>7
    <3>2. \A k \in 1..(i - 1) : k \in 1..i
      BY <1>7
    <3>3. i \in 1..i
      BY <1>7
    <3> QED
      BY <3>1, <3>2, <3>3
  <2>4. f[i - 1] \in Seq(Seq(I)) /\ Clustered(f[i - 1], First(i - 1))
    BY <1>10, <1>13, <2>1
  <2> HIDE DEF First
  <2>5. Clustered(JoinCluster(cs, f[i - 1], q[i]), First(i - 1) \cup {q[i]})
    BY <2>1, <2>2, <2>4, JoinKeeps
  <2> QED
    BY <1>11, <2>1, <2>3, <2>5
<1>14. m \in D
  <2> HIDE DEF D
  <2>1. 0..m \subseteq D
    BY <1>7, <1>12, <1>13, SetInduction
  <2> QED
    BY <1>7, <2>1
<1>15. First(m) = P
  BY <1>5 DEF Bijection, Surjection
<1>16. Clustered(cl, P) /\ cl \in Seq(Seq(I))
  <2>1. m \in 0..m
    BY <1>7
  <2> HIDE DEF First
  <2> QED
    BY <1>10, <1>14, <1>15, <2>1
<1> QED
  BY <1>6, <1>16 DEF P, I

\* Candles of one interval: they close in the order in which they opened.
ClosesInOrder(cs) ==
    \A i, k \in 1..Len(cs) : i < k => cs[i].close_time < cs[k].close_time

\* The padding is less than the price and at least a tick.
Padded(cs) ==
    ZonePadding < 10000 /\ \A i \in 1..Len(cs) : cs[i].low * ZonePadding >= 10000

\* Such a padding is positive and leaves a positive price.
LEMMA PaddingOf ==
    ASSUME NEW v \in Nat, NEW part \in Nat, part < 10000, v * part >= 10000
    PROVE  Bps(v, part) \in Nat /\ 0 < Bps(v, part) /\ Bps(v, part) < v
<1> DEFINE w == v * part
           b == Bps(v, part)
<1>1. w \in Nat /\ w >= 10000
  OBVIOUS
<1>2. v # 0
  OBVIOUS
<1>3. w <= v * 9999
  <2>1. (9999 - part) \in Nat
    OBVIOUS
  <2>2. v * (9999 - part) \in Nat
    BY <2>1
  <2>3. v * (9999 - part) = v * 9999 - v * part
    OBVIOUS
  <2> QED
    BY <2>2, <2>3
<1>4. b = w \div 10000
  BY DEF Bps
<1> HIDE DEF w
<1>5. b \in Nat /\ 10000 * b <= w /\ w < 10000 * b + 10000
  BY <1>1, <1>4
<1> HIDE DEF b
<1> QED
  BY <1>1, <1>2, <1>3, <1>5 DEF b

\* The bounds of a zone hold the lows it is made of.
LEMMA BoundsHold ==
    ASSUME NEW cs, Chronicle(cs), Padded(cs), NEW T, T # {}, T \subseteq 1..Len(cs)
    PROVE  LET lows == {cs[i].low : i \in T}
               low == Min(lows) - Bps(Min(lows), ZonePadding)
               high == Max(lows) + Bps(Max(lows), ZonePadding)
           IN /\ low \in Int /\ high \in Int /\ 0 < low
              /\ \A i \in T : low < cs[i].low /\ cs[i].low < high
<1> DEFINE n == Len(cs)
           lows == {cs[i].low : i \in T}
           a == Min(lows)
           b == Max(lows)
<1>0. n \in Nat
  BY DEF Chronicle
<1>1. \A i \in T : cs[i].low \in Nat /\ 0 < cs[i].low /\ cs[i].low * ZonePadding >= 10000
  BY CandleFields DEF Padded
<1>2. lows \subseteq Nat /\ lows # {}
  <2>1. PICK i \in T : TRUE
    OBVIOUS
  <2>2. cs[i].low \in lows
    OBVIOUS
  <2> QED
    BY <1>1, <2>2
<1>3. a \in lows /\ \A v \in lows : a <= v
  <2> HIDE DEF lows
  <2> QED
    BY <1>2, MinOfNaturals
<1>4. b \in lows /\ \A v \in lows : v <= b
  <2>1. PICK k \in Nat : \A v \in lows : v <= k
    <3>1. IsFiniteSet(lows)
      <4>1. IsFiniteSet(1..n)
        BY <1>0, FS_Interval
      <4>2. IsFiniteSet(T)
        BY <4>1, FS_Subset
      <4> DEFINE g == [i \in T |-> cs[i].low]
      <4>3. g \in Surjection(T, lows)
        BY DEF Surjection
      <4> HIDE DEF g, lows
      <4> QED
        BY <4>2, <4>3, FS_Surjection
    <3>2. PICK m \in Nat : ExistsBijection(1..m, lows)
      <4> HIDE DEF lows
      <4> QED
        BY <3>1, FS_NatBijection
    <3>3. PICK h : h \in Bijection(1..m, lows)
      BY <3>2 DEF ExistsBijection
    <3>4. h \in [1..m -> lows] /\ \A v \in lows : \E i \in 1..m : h[i] = v
      BY <3>3 DEF Bijection, Injection, Surjection
    <3> HIDE DEF lows
    <3>5. h \in [1..m -> Int] /\ m # 0
      <4>1. PICK v \in lows : TRUE
        BY <1>2
      <4>2. PICK i \in 1..m : h[i] = v
        BY <3>4
      <4>3. lows \subseteq Int
        BY <1>2
      <4>4. h \in [1..m -> Int]
        BY <3>4, <4>3
      <4>5. m # 0
        BY <3>2, <4>2
      <4> QED
        BY <4>4, <4>5
    <3>6. {h[i] : i \in 1..m} = lows
      BY <3>4
    <3>7. Max(lows) \in lows /\ \A v \in lows : v <= Max(lows)
      BY <3>2, <3>5, <3>6, GreatestOf
    <3> QED
      BY <1>2, <3>7
  <2>2. lows \subseteq 0..k
    <3> HIDE DEF lows
    <3> QED
      BY <1>2, <2>1
  <2> HIDE DEF lows
  <2> QED
    BY <1>2, <2>2, MaxOfBounded
<1>5. /\ a \in Nat /\ a * ZonePadding >= 10000 /\ b \in Nat /\ b * ZonePadding >= 10000
  BY <1>1, <1>3, <1>4
<1>6. \A i \in T : a <= cs[i].low /\ cs[i].low <= b /\ cs[i].low \in Nat
  BY <1>1, <1>3, <1>4
<1> HIDE DEF a, b
<1>7. ZonePadding \in Nat /\ ZonePadding < 10000
  BY ZoneRulesAssumption DEF Padded
<1> DEFINE pa == Bps(a, ZonePadding)
           pb == Bps(b, ZonePadding)
<1>8. pa \in Nat /\ 0 < pa /\ pa < a /\ pb \in Nat /\ 0 < pb
  BY <1>5, <1>7, PaddingOf
<1> HIDE DEF pa, pb
<1>9. /\ a - pa \in Int /\ b + pb \in Int /\ 0 < a - pa
      /\ \A i \in T : a - pa < cs[i].low /\ cs[i].low < b + pb
  BY <1>5, <1>6, <1>8
<1> QED
  BY <1>9 DEF a, b, pa, pb

\* A score is at most 100.
Scored(s) == s \in 0..10000

\* A strength that the code caps is a score.
LEMMA StrengthBounded ==
    ASSUME NEW v \in Nat
    PROVE  Scored(Min({10000, v})) /\ Min({10000, v}) \in Int
<1> DEFINE S == {10000, v}
<1>1. S \subseteq Nat /\ S # {}
  OBVIOUS
<1>2. Min(S) \in S /\ \A y \in S : Min(S) <= y
  <2> HIDE DEF S
  <2> QED
    BY <1>1, MinOfNaturals
<1> DEFINE m == Min(S)
<1>3. m \in S /\ m <= 10000
  BY <1>2
<1> HIDE DEF m
<1>4. m \in Nat
  BY <1>1, <1>3
<1>5. m \in 0..10000
  BY <1>3, <1>4
<1>6. Scored(m)
  BY <1>5 DEF Scored
<1> QED
  BY <1>4, <1>6 DEF m

\* The positions of a zone's evidence, and the windows of a position.
EvidenceOf(cs, z) == {i \in DOMAIN cs : cs[i].open_time \in z.evidence}
Window(i) == (i - PivotLeft)..(i + PivotRight)

\* A zone is backed by lows of their whole windows, which were closed when it was
\* confirmed, apart from each other and inside its bounds.
BackedZone(cs, z) ==
    /\ IsSupportZone(z) /\ z.low \in Int /\ z.high \in Int
    /\ Cardinality(EvidenceOf(cs, z)) = z.touch_count
    /\ z.confirmed_at <= Last(cs).close_time
    /\ \A i \in EvidenceOf(cs, z) :
         /\ Window(i) \subseteq DOMAIN cs
         /\ \A k \in Window(i) : /\ cs[i].low <= cs[k].low
                                 /\ cs[k].close_time <= z.confirmed_at
         /\ z.low < cs[i].low /\ cs[i].low < z.high
         /\ \A k \in EvidenceOf(cs, z) \ {i} : Magnitude(i - k) >= TouchSeparation

\* A cluster of at least two different pivots.
PivotCluster(cs, c) ==
    /\ c \in Seq(1..Len(cs)) /\ Len(c) >= 2 /\ Pivotal(cs, ToSet(c))
    /\ \A k, l \in 1..Len(c) : c[k] = c[l] => k = l

\* The positions of a cluster.
LEMMA ClusterPositions ==
    ASSUME NEW cs, Chronicle(cs), NEW c, PivotCluster(cs, c)
    PROVE  /\ ToSet(c) \subseteq 1..Len(cs) /\ IsFiniteSet(ToSet(c)) /\ ToSet(c) # {}
           /\ Cardinality(ToSet(c)) = Len(c) /\ Len(c) \in Nat
           /\ Min(ToSet(c)) \in ToSet(c) /\ Max(ToSet(c)) \in ToSet(c)
           /\ \A i \in ToSet(c) : Min(ToSet(c)) <= i /\ i <= Max(ToSet(c))
<1> DEFINE n == Len(cs)
           I == 1..n
           m == Len(c)
           T == ToSet(c)
<1>1. n \in Nat /\ c \in Seq(I)
  BY DEF Chronicle, PivotCluster
<1> HIDE DEF n
<1>2. I \subseteq 0..n /\ I \subseteq Nat
  BY <1>1
<1> HIDE DEF I
<1>3. m \in Nat /\ m >= 2 /\ DOMAIN c = 1..m /\ \A k \in 1..m : c[k] \in I
  BY <1>1 DEF PivotCluster
<1>4. T = {c[k] : k \in 1..m}
  BY <1>3 DEF ToSet
<1>5. T \subseteq I /\ c[1] \in T
  BY <1>3, <1>4
<1>6. c \in Bijection(1..m, T)
  <2>1. c \in [1..m -> T]
    BY <1>1, <1>3, <1>4
  <2>2. \A k, l \in 1..m : c[k] = c[l] => k = l
    BY DEF PivotCluster
  <2> QED
    BY <1>4, <2>1, <2>2 DEF Bijection, Injection, Surjection, IsInjective
<1>7. ExistsBijection(1..m, T)
  BY <1>6 DEF ExistsBijection
<1> HIDE DEF T, m
<1>8. IsFiniteSet(T) /\ Cardinality(T) = m
  BY <1>3, <1>7, FS_NatBijection, FS_CountingElements
<1>9. T \subseteq 0..n /\ T \subseteq Nat /\ T # {}
  BY <1>2, <1>5
<1>10. Min(T) \in T /\ \A i \in T : Min(T) <= i
  BY <1>9, MinOfNaturals
<1>11. Max(T) \in T /\ \A i \in T : i <= Max(T)
  BY <1>1, <1>9, MaxOfBounded
<1> QED
  BY <1>3, <1>5, <1>8, <1>9, <1>10, <1>11 DEF T, m, I, n

\* The times of a zone are those of its first and last touch.
LEMMA ZoneTimes ==
    ASSUME NEW cs, Chronicle(cs), ClosesInOrder(cs), NEW c, PivotCluster(cs, c)
    PROVE  LET z == ZoneOf(cs, c)
           IN /\ z.created_at <= z.confirmed_at /\ z.created_at <= z.last_test_at
              /\ z.last_test_at \in Int /\ z.confirmed_at <= Last(cs).close_time
              /\ \A i \in ToSet(c) :
                   /\ Window(i) \subseteq DOMAIN cs
                   /\ \A k \in Window(i) : /\ cs[i].low <= cs[k].low
                                           /\ cs[k].close_time <= z.confirmed_at
<1> DEFINE n == Len(cs)
           T == ToSet(c)
           z == ZoneOf(cs, c)
           a == Min(T)
           b == Max(T)
<1>1. /\ n \in Nat /\ DOMAIN cs = 1..n /\ Last(cs) = cs[n]
  BY DEF Chronicle, Last
<1>2. /\ T \subseteq 1..n /\ a \in T /\ b \in T /\ \A i \in T : a <= i /\ i <= b
  BY ClusterPositions
<1>3. /\ z.created_at = cs[a].close_time /\ z.confirmed_at = cs[b + PivotRight].close_time
      /\ z.last_test_at = cs[b].close_time
  BY DEF ZoneOf, Confirmation
<1>4. PivotLeft \in Nat /\ PivotRight \in Nat
  BY ZoneRulesAssumption
<1>5. \A i \in T : PivotLeft + 1 <= i /\ i <= n - PivotRight /\ IsPivot(cs, i) /\ i \in Int
  BY <1>1, <1>2, <1>4 DEF PivotCluster, Pivotal, PivotPositions
<1>6. \A i \in 1..n : cs[i].close_time \in Int /\ cs[i].low \in Int
  BY CandleFields
<1> HIDE DEF n, T, a, b, z
<1>7. ASSUME NEW i \in 1..n, NEW k \in 1..n, i <= k PROVE cs[i].close_time <= cs[k].close_time
  <2>1. CASE i = k
    BY <1>6, <2>1
  <2>2. CASE i < k
    BY <1>6, <2>2 DEF ClosesInOrder, n
  <2> QED
    BY <1>7, <2>1, <2>2
<1>8. a \in 1..n /\ b \in 1..n /\ b + PivotRight \in 1..n /\ n \in 1..n /\ a <= b
  BY <1>1, <1>2, <1>4, <1>5
<1>9. /\ cs[a].close_time <= cs[b + PivotRight].close_time
      /\ cs[a].close_time <= cs[b].close_time
      /\ cs[b + PivotRight].close_time <= cs[n].close_time
  <2>1. a <= b + PivotRight /\ b + PivotRight <= n
    BY <1>1, <1>4, <1>8
  <2> QED
    BY <1>7, <1>8, <2>1
<1>10. ASSUME NEW i \in T
       PROVE  /\ Window(i) \subseteq 1..n
              /\ \A k \in Window(i) : /\ cs[i].low <= cs[k].low
                                      /\ cs[k].close_time <= cs[b + PivotRight].close_time
  <2>1. Window(i) \subseteq 1..n
    BY <1>1, <1>4, <1>5 DEF Window
  <2>2. i \in 1..n
    BY <1>2
  <2>3. ASSUME NEW k \in Window(i)
        PROVE  cs[i].low <= cs[k].low /\ cs[k].close_time <= cs[b + PivotRight].close_time
    <3>1. k \in 1..n /\ k <= i + PivotRight /\ i <= b
      BY <1>2, <2>1, <1>5, <1>4 DEF Window
    <3>2. k <= b + PivotRight
      BY <1>4, <1>8, <2>2, <3>1
    <3>3. cs[k].close_time <= cs[b + PivotRight].close_time
      BY <1>7, <1>8, <3>1, <3>2
    <3>4. k = i \/ k \in (i - PivotLeft)..(i - 1) \/ k \in (i + 1)..(i + PivotRight)
      BY <1>4, <1>5 DEF Window
    <3>5. cs[i].low <= cs[k].low
      <4>1. CASE k = i
        BY <1>6, <2>2, <4>1
      <4>2. CASE k # i
        BY <1>5, <3>4, <4>2 DEF IsPivot
      <4> QED
        BY <4>1, <4>2
    <3> QED
      BY <3>3, <3>5
  <2> QED
    BY <2>1, <2>3
<1> QED
  BY <1>1, <1>3, <1>6, <1>8, <1>9, <1>10 DEF T, z

\* The evidence of a zone are the candles of its cluster.
LEMMA ZoneEvidence ==
    ASSUME NEW cs, Chronicle(cs), NEW c, PivotCluster(cs, c)
    PROVE  LET z == ZoneOf(cs, c)
           IN /\ EvidenceOf(cs, z) = ToSet(c)
              /\ Cardinality(z.evidence) = z.touch_count
              /\ z.touch_count = Len(c)
<1> DEFINE n == Len(cs)
           T == ToSet(c)
           z == ZoneOf(cs, c)
           E == {cs[i].open_time : i \in T}
<1>1. n \in Nat /\ DOMAIN cs = 1..n
  BY DEF Chronicle
<1>2. T \subseteq 1..n /\ IsFiniteSet(T) /\ Cardinality(T) = Len(c)
  BY ClusterPositions
<1>3. z.evidence = E /\ z.touch_count = Len(c)
  BY DEF ZoneOf, Confirmation
<1> HIDE DEF T, z
<1>4. \A i, k \in 1..n : cs[i].open_time = cs[k].open_time => i = k
  <2>1. \A i \in 1..n : cs[i].open_time \in Int
    BY CandleFields
  <2>2. \A i, k \in 1..n : i < k => cs[i].open_time < cs[k].open_time
    BY DEF Chronicle
  <2>3. \A i, k \in 1..n : i = k \/ i < k \/ k < i
    OBVIOUS
  <2> QED
    BY <2>1, <2>2, <2>3
<1>5. EvidenceOf(cs, z) = T
  BY <1>1, <1>2, <1>3, <1>4 DEF EvidenceOf
<1> DEFINE g == [i \in T |-> cs[i].open_time]
<1>6. g \in Bijection(T, E)
  BY <1>2, <1>4 DEF Bijection, Injection, Surjection, IsInjective
<1>7. ExistsBijection(T, E)
  BY <1>6 DEF ExistsBijection
<1> HIDE DEF E, g
<1>8. Cardinality(E) = Cardinality(T)
  BY <1>2, <1>7, FS_Bijection
<1> QED
  BY <1>2, <1>3, <1>5, <1>8 DEF T, z

\* The score and the rejections that a zone counts.
Counted(z, count) ==
    Scored(z.strength) /\ z.strength \in Int /\ z.rejection_count \in 0..count

\* A zone counts no more rejections than it has touches.
LEMMA ZoneCounts ==
    ASSUME NEW cs, Chronicle(cs), NEW c, PivotCluster(cs, c)
    PROVE  Counted(ZoneOf(cs, c), Len(c))
<1> DEFINE n == Len(cs)
           m == Len(c)
           T == ToSet(c)
           b == Max(T)
           Rejected(i) == AtLeastBps(cs[i].close - cs[i].low, cs[i].low, ZoneRejection)
           rejections == {i \in T : Rejected(i)}
           r == Cardinality(rejections)
           x == 1500 * b
           v == 2500 + 1200 * m + 600 * r + Quantized(x, n)
           s == Min({10000, v})
<1>1. ZoneOf(cs, c).rejection_count = r /\ ZoneOf(cs, c).strength = s
  BY DEF ZoneOf
<1>2. n \in Nat
  BY DEF Chronicle
<1>3. /\ T \subseteq 1..n /\ IsFiniteSet(T) /\ Cardinality(T) = m /\ m \in Nat /\ b \in T
  BY ClusterPositions
<1> HIDE DEF n, T, Rejected, b, m
<1>4. r \in Nat /\ r <= m
  <2>1. rejections \in SUBSET T
    OBVIOUS
  <2> HIDE DEF rejections
  <2>2. IsFiniteSet(rejections) /\ Cardinality(rejections) <= Cardinality(T)
    BY <1>3, <2>1, FS_Subset
  <2>3. Cardinality(rejections) \in Nat
    BY <2>2, FS_CardinalityType
  <2> QED
    BY <1>3, <2>2, <2>3
<1> HIDE DEF r
<1>5. x \in Nat /\ n \in Nat \ {0}
  BY <1>2, <1>3
<1> HIDE DEF x
<1>6. Quantized(x, n) \in Nat
  BY <1>5, QuantizedIsNatural
<1>7. v \in Nat
  BY <1>3, <1>4, <1>6
<1> HIDE DEF v
<1>8. Scored(s) /\ s \in Int
  BY <1>7, StrengthBounded
<1> HIDE DEF s
<1>9. r \in 0..m
  BY <1>3, <1>4
<1> QED
  BY <1>1, <1>8, <1>9, Zenon DEF Counted, m

\* What SupportZone.__post_init__ asks for, with the score kept folded.
LEMMA Recorded ==
    ASSUME NEW z, 0 < z.low, z.low < z.high, z.created_at <= z.confirmed_at,
           z.created_at <= z.last_test_at, z.touch_count >= 2,
           z.rejection_count \in 0..z.touch_count, Scored(z.strength),
           Cardinality(z.evidence) = z.touch_count
    PROVE  IsSupportZone(z)
BY DEF IsSupportZone, Scored

\* The zone of a cluster is backed by it.
LEMMA ZoneOfCluster ==
    ASSUME NEW cs, Chronicle(cs), ClosesInOrder(cs), Padded(cs), NEW c, PivotCluster(cs, c)
    PROVE  LET z == ZoneOf(cs, c)
           IN /\ BackedZone(cs, z) /\ EvidenceOf(cs, z) = ToSet(c)
              /\ z.strength \in Int /\ z.last_test_at \in Int
<1> DEFINE n == Len(cs)
           T == ToSet(c)
           z == ZoneOf(cs, c)
           lows == {cs[i].low : i \in T}
<1>1. /\ z.low = Min(lows) - Bps(Min(lows), ZonePadding)
      /\ z.high = Max(lows) + Bps(Max(lows), ZonePadding)
  BY DEF ZoneOf
<1>2. n \in Nat
  BY DEF Chronicle
<1>3. /\ T \subseteq 1..n /\ IsFiniteSet(T) /\ T # {} /\ Cardinality(T) = Len(c) /\ Len(c) \in Nat
      /\ Max(T) \in T
  BY ClusterPositions
<1>4. /\ EvidenceOf(cs, z) = T /\ Cardinality(z.evidence) = z.touch_count
      /\ z.touch_count = Len(c)
  BY ZoneEvidence
<1>5. /\ z.created_at <= z.confirmed_at /\ z.created_at <= z.last_test_at
      /\ z.last_test_at \in Int /\ z.confirmed_at <= Last(cs).close_time
      /\ \A i \in T : /\ Window(i) \subseteq DOMAIN cs
                      /\ \A k \in Window(i) : /\ cs[i].low <= cs[k].low
                                              /\ cs[k].close_time <= z.confirmed_at
  BY ZoneTimes
<1> HIDE DEF z, T
<1>6. /\ z.low \in Int /\ z.high \in Int /\ 0 < z.low
      /\ \A i \in T : z.low < cs[i].low /\ cs[i].low < z.high
  <2> DEFINE low == Min(lows) - Bps(Min(lows), ZonePadding)
             high == Max(lows) + Bps(Max(lows), ZonePadding)
  <2>1. /\ low \in Int /\ high \in Int /\ 0 < low
        /\ \A i \in T : low < cs[i].low /\ cs[i].low < high
    BY <1>3, BoundsHold
  <2>2. z.low = low /\ z.high = high
    BY <1>1
  <2> HIDE DEF low, high
  <2> QED
    BY <2>1, <2>2
<1>7. z.low < z.high
  <2>1. PICK i \in T : TRUE
    BY <1>3
  <2>2. cs[i].low \in Int
    BY <1>3, CandleFields
  <2> QED
    BY <1>6, <2>1, <2>2
<1>8. Counted(z, Len(c))
  BY ZoneCounts DEF z
<1>9. Scored(z.strength) /\ z.strength \in Int /\ z.rejection_count \in 0..Len(c)
  BY <1>8, Zenon DEF Counted
<1>10. ASSUME NEW i \in T, NEW k \in T, i # k PROVE Magnitude(i - k) >= TouchSeparation
  <2>1. /\ i \in Int /\ k \in Int
        /\ i < k => i + TouchSeparation <= k
        /\ k < i => k + TouchSeparation <= i
    BY <1>2, <1>3 DEF PivotCluster, Pivotal, T
  <2> QED
    BY <1>10, <2>1, ZoneRulesAssumption DEF Magnitude
<1>11. IsSupportZone(z)
  <2>1. Len(c) >= 2
    BY DEF PivotCluster
  <2>2. z.rejection_count \in 0..z.touch_count
    BY <1>4, <1>9, Zenon
  <2> QED
    BY <1>4, <1>5, <1>6, <1>7, <1>9, <2>1, <2>2, Recorded
<1>12. BackedZone(cs, z)
  BY <1>3, <1>4, <1>5, <1>6, <1>10, <1>11 DEF BackedZone
<1> QED
  BY <1>4, <1>5, <1>9, <1>12, Zenon DEF T, z

\* The zones of a batch are those of its clusters that qualify, each once, sorted
\* and cut off.
LEMMA ZonesOfClusters ==
    ASSUME NEW cs, Chronicle(cs), ClosesInOrder(cs)
    PROVE  LET zones == DeriveSupportZones(cs)
               cl == ClusterPivots(cs, FindPivots(cs))
           IN /\ Len(zones) \in 0..MaxZones /\ DOMAIN zones = 1..Len(zones)
              /\ \A i \in DOMAIN zones :
                   /\ IsZone(zones[i])
                   /\ \E x \in 1..Len(cl) : zones[i] = ZoneOf(cs, cl[x]) /\ PivotCluster(cs, cl[x])
              /\ \A i, k \in DOMAIN zones : zones[i] = zones[k] => i = k
<1> DEFINE n == Len(cs)
           pivots == FindPivots(cs)
           P == ToSet(pivots)
           cl == ClusterPivots(cs, pivots)
           Z == {z \in {ZoneOf(cs, cl[i]) : i \in DOMAIN cl} : IsZone(z)}
           m == Cardinality(Z)
           R == {r \in Z \X Z : Stronger(r[1], r[2])}
           Sorts(p) == \A i, k \in 1..m : i < k => ~Stronger(p[k], p[i])
           q == InOrder(Z, Stronger)
           zones == Take(q, MaxZones)
<1>1. n \in Nat /\ cs \in Seq(Ohlcv)
  BY DEF Chronicle
<1>2. P \subseteq 1..n /\ IsFiniteSet(P) /\ Pivotal(cs, P)
  BY <1>1, PivotsFound
<1>3. DeriveSupportZones(cs) = zones
  BY DEF DeriveSupportZones
<1> DEFINE S == Seq(1..n)
<1>4. cl \in Seq(S) /\ Clustered(cl, P)
  <2> HIDE DEF n, pivots
  <2> QED
    BY <1>1, <1>2, ClustersOfPivots DEF n
<1> HIDE DEF S, cl, P, pivots, n
<1>5. Len(cl) \in Nat /\ DOMAIN cl = 1..Len(cl) /\ \A i \in 1..Len(cl) : cl[i] \in S
  BY <1>4
<1>6. ASSUME NEW i \in 1..Len(cl), Len(cl[i]) >= 2 PROVE PivotCluster(cs, cl[i])
  <2> DEFINE c == cl[i]
  <2>1. c \in Seq(1..n)
    BY <1>5 DEF S
  <2>2. \A k \in 1..Len(c) : c[k] \in P
    BY <1>4 DEF Clustered
  <2>3. \A k, l \in 1..Len(c) : c[k] = c[l] => k = l
    BY <1>4 DEF Clustered
  <2> HIDE DEF c
  <2>4. ToSet(c) \subseteq P
    <3>1. DOMAIN c = 1..Len(c)
      BY <2>1
    <3> QED
      BY <2>2, <3>1 DEF ToSet
  <2>5. Pivotal(cs, ToSet(c))
    BY <1>2, <2>4 DEF Pivotal
  <2> QED
    BY <1>6, <2>1, <2>3, <2>5 DEF PivotCluster, c, n
<1>7. ASSUME NEW z \in Z
      PROVE  /\ IsZone(z) /\ z.strength \in Int /\ z.last_test_at \in Int
             /\ \E i \in 1..Len(cl) : z = ZoneOf(cs, cl[i]) /\ PivotCluster(cs, cl[i])
  <2>1. PICK i \in 1..Len(cl) : z = ZoneOf(cs, cl[i])
    BY <1>5
  <2>2. IsZone(z) /\ z.touch_count = Len(cl[i])
    BY <2>1 DEF ZoneOf
  <2>3. Len(cl[i]) >= 2
    <3>1. Len(cl[i]) >= MinTouches
      BY <2>2 DEF IsZone
    <3>2. Len(cl[i]) \in Nat
      BY <1>5 DEF S
    <3> QED
      BY <3>1, <3>2, ZoneRulesAssumption
  <2>4. PivotCluster(cs, cl[i])
    BY <1>6, <2>3
  <2> QED
    BY <2>1, <2>2, <2>4, ZoneTimes, ZoneCounts DEF Counted
<1>8. IsFiniteSet(Z) /\ m \in Nat
  <2> DEFINE g == [i \in 1..Len(cl) |-> ZoneOf(cs, cl[i])]
             Y == {ZoneOf(cs, cl[i]) : i \in DOMAIN cl}
  <2>1. g \in Surjection(1..Len(cl), Y)
    BY <1>5 DEF Surjection
  <2>2. IsFiniteSet(1..Len(cl))
    BY <1>5, FS_Interval
  <2>3. Z \in SUBSET Y
    OBVIOUS
  <2> HIDE DEF Z, g, Y
  <2>4. IsFiniteSet(Y)
    BY <2>1, <2>2, FS_Surjection
  <2>5. IsFiniteSet(Z)
    BY <2>3, <2>4, FS_Subset
  <2> QED
    BY <2>5, FS_CardinalityType
<1> HIDE DEF Z
<1>9. Precedence(R, Z)
  <2>1. \A x, y \in Z : <<x, y>> \in R <=> Stronger(x, y)
    OBVIOUS
  <2>2. \A x \in Z : ~Stronger(x, x)
    BY <1>7 DEF Stronger
  <2>3. \A x, y, z \in Z : Stronger(x, y) /\ Stronger(y, z) => Stronger(x, z)
    BY <1>7 DEF Stronger
  <2> HIDE DEF R
  <2> QED
    BY <2>1, <2>2, <2>3 DEF Precedence
<1>10. \E p \in Bijection(1..m, Z) : Sorts(p)
  <2>1. PICK p \in Bijection(1..m, Z) : \A i, k \in 1..m : i < k => <<p[k], p[i]>> \notin R
    <3>1. m = Cardinality(Z)
      OBVIOUS
    <3> HIDE DEF R, m
    <3> QED
      BY <1>8, <1>9, <3>1, Ranked
  <2>2. \A i \in 1..m : p[i] \in Z
    BY <2>1 DEF Bijection, Injection
  <2>3. Sorts(p)
    BY <2>1, <2>2
  <2> QED
    BY <2>1, <2>3
<1>11. q \in Bijection(1..m, Z)
  <2>1. q = CHOOSE p \in Bijection(1..m, Z) : Sorts(p)
    BY DEF InOrder
  <2> HIDE DEF Sorts, q
  <2> QED
    BY <1>10, <2>1
<1> HIDE DEF q, R, Sorts, m
<1>12. q \in [1..m -> Z] /\ \A i, k \in 1..m : q[i] = q[k] => i = k
  BY <1>11 DEF Bijection, Injection, IsInjective
<1>13. q \in Seq(Z) /\ Len(q) = m
  BY <1>8, <1>12
<1> DEFINE t == IF m < MaxZones THEN m ELSE MaxZones
<1>14. t \in 0..MaxZones /\ t <= m /\ t \in Nat
  BY <1>8, ZoneRulesAssumption
<1>15. zones = [i \in 1..t |-> q[i]]
  <2>1. zones = SubSeq(q, 1, t)
    BY <1>13 DEF Take
  <2> HIDE DEF t
  <2> QED
    BY <1>13, <1>14, <2>1
<1> HIDE DEF t, zones
<1>16. /\ DOMAIN zones = 1..t /\ Len(zones) = t
       /\ \A i \in 1..t : zones[i] = q[i] /\ i \in 1..m
  BY <1>8, <1>13, <1>14, <1>15
<1>17. ASSUME NEW i \in 1..t
       PROVE  /\ IsZone(zones[i])
              /\ \E x \in 1..Len(cl) : zones[i] = ZoneOf(cs, cl[x]) /\ PivotCluster(cs, cl[x])
  <2>1. zones[i] \in Z
    BY <1>12, <1>16
  <2> QED
    BY <1>7, <2>1
<1>18. \A i, k \in 1..t : zones[i] = zones[k] => i = k
  BY <1>12, <1>16
<1> QED
  BY <1>3, <1>14, <1>16, <1>17, <1>18 DEF cl, pivots

\* Every support zone of a batch is one that its record accepts and is backed by
\* lows of their whole windows, closed when it was confirmed, apart from each
\* other and inside its bounds; it is not too wide, and no low backs two zones.
THEOREM ZonesBacked ==
    ASSUME NEW cs, Chronicle(cs), ClosesInOrder(cs), Padded(cs)
    PROVE  LET zones == DeriveSupportZones(cs)
           IN /\ Len(zones) \in 0..MaxZones /\ DOMAIN zones = 1..Len(zones)
              /\ \A i \in DOMAIN zones :
                   /\ BackedZone(cs, zones[i]) /\ IsZone(zones[i])
                   /\ \A k \in DOMAIN zones :
                        k # i => zones[i].evidence \cap zones[k].evidence = {}
<1> DEFINE n == Len(cs)
           pivots == FindPivots(cs)
           P == ToSet(pivots)
           cl == ClusterPivots(cs, pivots)
           zones == DeriveSupportZones(cs)
           t == Len(zones)
<1>1. n \in Nat /\ cs \in Seq(Ohlcv)
  BY DEF Chronicle
<1>2. P \subseteq 1..n /\ IsFiniteSet(P)
  BY <1>1, PivotsFound
<1> DEFINE S == Seq(1..n)
<1>3. cl \in Seq(S) /\ Clustered(cl, P)
  <2> HIDE DEF n, pivots
  <2> QED
    BY <1>1, <1>2, ClustersOfPivots DEF n
<1>4. /\ t \in 0..MaxZones /\ DOMAIN zones = 1..t
      /\ \A i \in 1..t :
           /\ IsZone(zones[i])
           /\ \E x \in 1..Len(cl) : zones[i] = ZoneOf(cs, cl[x]) /\ PivotCluster(cs, cl[x])
      /\ \A i, k \in 1..t : zones[i] = zones[k] => i = k
  BY ZonesOfClusters
<1> HIDE DEF S, cl, P, pivots, n, zones
<1>5. \A x \in 1..Len(cl) : cl[x] \in S
  BY <1>3
<1>6. ASSUME NEW i \in 1..t
      PROVE  /\ BackedZone(cs, zones[i])
             /\ \E x \in 1..Len(cl) :
                  zones[i] = ZoneOf(cs, cl[x]) /\ EvidenceOf(cs, zones[i]) = ToSet(cl[x])
  <2>1. PICK x \in 1..Len(cl) : zones[i] = ZoneOf(cs, cl[x]) /\ PivotCluster(cs, cl[x])
    BY <1>4
  <2> QED
    BY <2>1, ZoneOfCluster
<1>7. ASSUME NEW i \in 1..t, NEW k \in 1..t, k # i
      PROVE  zones[i].evidence \cap zones[k].evidence = {}
  <2>1. zones[i] # zones[k]
    BY <1>4, <1>7
  <2>2. PICK a \in 1..Len(cl) :
          zones[i] = ZoneOf(cs, cl[a]) /\ EvidenceOf(cs, zones[i]) = ToSet(cl[a])
    BY <1>6
  <2>3. PICK b \in 1..Len(cl) :
          zones[k] = ZoneOf(cs, cl[b]) /\ EvidenceOf(cs, zones[k]) = ToSet(cl[b])
    BY <1>6
  <2>4. a # b
    BY <2>1, <2>2, <2>3
  <2>5. ToSet(cl[a]) \cap ToSet(cl[b]) = {}
    <3>1. DOMAIN cl[a] = 1..Len(cl[a]) /\ DOMAIN cl[b] = 1..Len(cl[b])
      BY <1>5 DEF S
    <3>2. \A k1 \in 1..Len(cl[a]), k2 \in 1..Len(cl[b]) : cl[a][k1] # cl[b][k2]
      BY <1>3, <2>4 DEF Clustered
    <3> QED
      BY <3>1, <3>2 DEF ToSet
  <2> SUFFICES ASSUME NEW e \in zones[i].evidence, e \in zones[k].evidence PROVE FALSE
    OBVIOUS
  <2>6. zones[i].evidence = {cs[x].open_time : x \in ToSet(cl[a])}
    BY <2>2 DEF ZoneOf
  <2>7. PICK x \in ToSet(cl[a]) : e = cs[x].open_time
    BY <2>6
  <2>8. x \in DOMAIN cs
    BY <2>2, <2>7 DEF EvidenceOf
  <2>9. x \in EvidenceOf(cs, zones[k])
    BY <2>7, <2>8 DEF EvidenceOf
  <2> QED
    BY <2>3, <2>5, <2>7, <2>9
<1> QED
  BY <1>4, <1>6, <1>7 DEF zones
----------------------------------------------------------------------------
(* What a zone's candles tell, as more of them close.                       *)

\* part is what follows in list from position lo on, to its position hi.
IsRun(part, list, lo, hi) ==
    /\ Len(part) = hi - lo + 1
    /\ \A k \in 1..Len(part) : part[k] = list[lo + k - 1]

\* Where the positions follow each other, it leaves a run.
LEMMA KeptRun ==
    ASSUME NEW S, NEW list \in Seq(S), NEW positions,
           NEW hi \in 0..Len(list), NEW lo \in 1..(hi + 1),
           \A i \in 1..Len(list) : i \in positions <=> lo <= i /\ i <= hi
    PROVE  IsRun(Kept(list, positions), list, lo, hi)
<1> DEFINE n == Len(list)
<1>0. PICK f \in [0..n -> Seq(S)] : Keeps(f, list, positions) /\ Kept(list, positions) = f[n]
  BY KeptSteps
<1>1. /\ f[0] = <<>>
      /\ \A i \in 1..n :
           f[i] = IF i \in positions THEN Append(f[i - 1], list[i]) ELSE f[i - 1]
      /\ Kept(list, positions) = f[n]
  BY <1>0 DEF Keeps
<1>2. n \in Nat /\ hi \in 0..n /\ \A i \in 1..n : list[i] \in S
  OBVIOUS
<1> DEFINE size(i) == IF i < lo THEN 0 ELSE IF i <= hi THEN i - lo + 1 ELSE hi - lo + 1
           Holds(i) == Len(f[i]) = size(i) /\ \A k \in 1..size(i) : f[i][k] = list[lo + k - 1]
           Done == {i \in 0..n : Holds(i)}
<1>3. 0 \in Done
  BY <1>1, <1>2
<1>4. ASSUME NEW i \in 1..n, i - 1 \in Done PROVE i \in Done
  <2>1. f[i - 1] \in Seq(S) /\ i \in 0..n /\ i - 1 \in 0..n /\ list[i] \in S
    BY <1>2
  <2>2. Len(f[i - 1]) = size(i - 1) /\ \A k \in 1..size(i - 1) : f[i - 1][k] = list[lo + k - 1]
    BY <1>4
  <2>3. CASE i \in positions
    <3>1. lo <= i /\ i <= hi /\ f[i] = Append(f[i - 1], list[i])
      BY <1>1, <2>3
    <3>2. size(i) = i - lo + 1 /\ size(i - 1) = i - lo /\ size(i) \in Nat
      BY <1>2, <3>1
    <3> DEFINE g == f[i - 1]
               s == i - lo
    <3>3. g \in Seq(S) /\ Len(g) = s /\ s \in Nat
      BY <2>1, <2>2, <3>1, <3>2
    <3>4. /\ Len(f[i]) = s + 1 /\ f[i][s + 1] = list[i]
          /\ \A k \in 1..s : f[i][k] = g[k]
      <4> HIDE DEF g, s
      <4> QED
        BY <2>1, <3>1, <3>3 DEF g
    <3>5. \A k \in 1..s : f[i][k] = list[lo + k - 1]
      BY <2>2, <3>2, <3>4
    <3>6. lo + (s + 1) - 1 = i
      BY <1>2
    <3>7. \A k \in 1..(s + 1) : k \in 1..s \/ k = s + 1
      BY <3>3
    <3>8. \A k \in 1..(s + 1) : f[i][k] = list[lo + k - 1]
      BY <3>4, <3>5, <3>6, <3>7
    <3>9. size(i) = s + 1
      BY <3>2
    <3> HIDE DEF s, size
    <3> QED
      BY <2>1, <3>4, <3>8, <3>9
  <2>4. CASE i \notin positions
    <3>1. f[i] = f[i - 1] /\ (i < lo \/ hi < i)
      BY <1>1, <2>4
    <3>2. size(i) = size(i - 1)
      BY <1>2, <3>1
    <3> HIDE DEF size
    <3> QED
      BY <2>1, <2>2, <3>1, <3>2
  <2> QED
    BY <2>3, <2>4
<1>5. n \in Done
  <2> HIDE DEF Done, n
  <2>1. 0..n \subseteq Done
    BY <1>2, <1>3, <1>4, SetInduction
  <2> QED
    BY <1>2, <2>1
<1>6. size(n) = hi - lo + 1
  BY <1>2
<1> HIDE DEF size
<1> QED
  BY <1>1, <1>5, <1>6 DEF IsRun

\* The candles that open at t or later begin at position lo.
BeginsAt(cs, t, lo) ==
    lo \in 1..(Len(cs) + 1) /\ \A i \in 1..Len(cs) : cs[i].open_time >= t <=> lo <= i

\* Candles in order have such a position.
LEMMA Beginning ==
    ASSUME NEW cs, Chronicle(cs), NEW t \in Int
    PROVE  \E lo : BeginsAt(cs, t, lo)
<1> DEFINE n == Len(cs)
           T == {i \in 1..n : cs[i].open_time >= t}
<1>1. n \in Nat
  BY DEF Chronicle
<1>2. CASE T = {}
  <2>1. BeginsAt(cs, t, n + 1)
    BY <1>1, <1>2 DEF BeginsAt
  <2> QED
    BY <2>1
<1>3. CASE T # {}
  <2> DEFINE lo == Min(T)
  <2>1. lo \in T /\ \A i \in T : lo <= i
    <3>1. T \subseteq Nat
      BY <1>1
    <3> HIDE DEF T
    <3> QED
      BY <1>3, <3>1, MinOfNaturals
  <2> HIDE DEF lo
  <2>2. ASSUME NEW i \in 1..n, lo <= i PROVE cs[i].open_time >= t
    <3>1. lo \in 1..n /\ cs[lo].open_time >= t
      BY <2>1
    <3>2. lo < i => cs[lo].open_time < cs[i].open_time
      BY <3>1 DEF Chronicle
    <3>3. cs[lo].open_time \in Int /\ cs[i].open_time \in Int
      BY <3>1, CandleFields
    <3> QED
      BY <1>1, <2>2, <3>1, <3>2, <3>3
  <2>3. BeginsAt(cs, t, lo)
    BY <1>1, <2>1, <2>2 DEF BeginsAt
  <2> QED
    BY <2>3
<1> QED
  BY <1>2, <1>3

\* There the bars of a zone begin.
LEMMA RelevantRun ==
    ASSUME NEW cs, Chronicle(cs), NEW zone, NEW lo, BeginsAt(cs, zone.confirmed_at, lo)
    PROVE  /\ Relevant(zone, cs) \in Seq(Ohlcv)
           /\ IsRun(Relevant(zone, cs), cs, lo, Len(cs))
<1> DEFINE late == Indices(cs, LAMBDA c : c.open_time >= zone.confirmed_at)
           n == Len(cs)
<1>1. cs \in Seq(Ohlcv) /\ n \in Nat /\ DOMAIN cs = 1..n
  BY DEF Chronicle
<1>2. Relevant(zone, cs) = Kept(cs, late)
  BY DEF Relevant
<1>3. late = {i \in 1..n : cs[i].open_time >= zone.confirmed_at}
  BY <1>1 DEF Indices
<1> HIDE DEF late
<1>4. \A i \in 1..n : i \in late <=> lo <= i /\ i <= n
  BY <1>1, <1>3 DEF BeginsAt
<1>5. n \in 0..n /\ lo \in 1..(n + 1)
  BY <1>1 DEF BeginsAt
<1>6. Kept(cs, late) \in Seq(Ohlcv)
  BY <1>1, KeptElements
<1>7. IsRun(Kept(cs, late), cs, lo, n)
  BY <1>1, <1>4, <1>5, KeptRun
<1> QED
  BY <1>2, <1>6, <1>7

\* What the bars after its confirmation say about a zone.
Story(zone, bars) ==
    {EventTelling(zone, bars, h) :
        h \in {f \in Facts(Len(bars)) : Occurs(f, BelowBars(zone, bars), BreakBars(zone, bars),
                                               AboveBars(zone, bars))}}

\* That is what build_structure_events reports.
LEMMA StoryOfBatch ==
    ASSUME NEW zone, NEW S, NEW candles \in Seq(S)
    PROVE  ToSet(BuildStructureEvents(zone, candles)) = Story(zone, Relevant(zone, candles))
<1> DEFINE bars == Relevant(zone, candles)
           events == BuildStructureEvents(zone, candles)
           n == Len(bars)
           occurs(h) == Occurs(h, BelowBars(zone, bars), BreakBars(zone, bars),
                               AboveBars(zone, bars))
<1>1. /\ events \in Seq(EventsOf(zone, bars))
      /\ \E hs : Telling(hs, zone, bars, events, n)
  BY EventsTell
<1>2. PICK hs : Telling(hs, zone, bars, events, n)
  BY <1>1
<1>3. bars \in Seq(S)
  BY KeptElements DEF Relevant
<1> HIDE DEF bars, events
<1>4. n \in Nat
  BY <1>3
<1>5. /\ hs \in Seq(Facts(n)) /\ Len(events) = Len(hs)
      /\ \A m \in 1..Len(hs) : events[m] = EventTelling(zone, bars, hs[m])
      /\ \A h \in Facts(n) : (h.at <= n /\ occurs(h)) <=> \E m \in 1..Len(hs) : h = hs[m]
  BY <1>2 DEF Telling
<1>6. \A h \in Facts(n) : h.at <= n
  BY <1>4 DEF Facts
<1>7. ToSet(events) = {events[m] : m \in 1..Len(hs)}
  <2>1. DOMAIN events = 1..Len(hs)
    BY <1>1, <1>5
  <2> QED
    BY <2>1 DEF ToSet
<1>8. \A m \in 1..Len(hs) : hs[m] \in Facts(n)
  BY <1>5
<1>9. \A h \in Facts(n) : occurs(h) <=> \E m \in 1..Len(hs) : h = hs[m]
  BY <1>5, <1>6
<1>10. Story(zone, bars) = {EventTelling(zone, bars, h) : h \in {f \in Facts(n) : occurs(f)}}
  BY DEF Story
<1> HIDE DEF occurs, n
<1>11. ToSet(events) = {EventTelling(zone, bars, h) : h \in {f \in Facts(n) : occurs(f)}}
  <2>1. ASSUME NEW m \in 1..Len(hs)
        PROVE  events[m] \in {EventTelling(zone, bars, h) : h \in {f \in Facts(n) : occurs(f)}}
    BY <1>5, <1>8, <1>9
  <2>2. ASSUME NEW h \in Facts(n), occurs(h)
        PROVE  EventTelling(zone, bars, h) \in {events[m] : m \in 1..Len(hs)}
    BY <1>5, <1>9, <2>2
  <2> QED
    BY <1>7, <2>1, <2>2
<1> QED
  BY <1>10, <1>11 DEF bars, events

\* Facts are decided by the bars up to them.
LEMMA OccursEarly ==
    ASSUME NEW n \in Nat, NEW B, NEW K, NEW A, NEW B2, NEW K2, NEW A2,
           \A i \in 1..n : /\ i \in B <=> i \in B2 
                           /\ i \in K <=> i \in K2
                           /\ i \in A <=> i \in A2,
           NEW h \in Facts(n), Occurs(h, B, K, A)
    PROVE  Occurs(h, B2, K2, A2)
<1>1. h.at \in 1..n /\ h.to \in 0..n
  BY DEF Facts
<1>2. \A i \in 1..n : Ages(B, K, i) <=> Ages(B2, K2, i)
  BY DEF Ages
<1>3. \A i \in 1..n : Open(B, K, i) <=> Open(B2, K2, i)
  BY <1>2 DEF Open
<1>4. \A i \in 1..n : Broke(B, K, i) <=> Broke(B2, K2, i)
  BY <1>3 DEF Broke
<1>5. \A i, k \in 1..n : TakesBack(B, K, A, i, k) <=> TakesBack(B2, K2, A2, i, k)
  BY <1>4 DEF TakesBack
<1>6. \A m \in 1..(h.at - 1) : m \in 1..n
  BY <1>1
<1>7. h.to # 0 => h.to \in 1..n
  BY <1>1
<1> QED
  BY <1>1, <1>2, <1>3, <1>4, <1>5, <1>6, <1>7, Zenon DEF Occurs

\* One sequence of bars goes on where another ends.
Continues(longer, bars) ==
    /\ Len(bars) \in Nat /\ Len(longer) \in Nat /\ Len(bars) <= Len(longer)
    /\ \A i \in 1..Len(bars) : longer[i] = bars[i]

\* More bars add to a story and revise nothing.
LEMMA StoryGrows ==
    ASSUME NEW zone, NEW bars, NEW longer, Continues(longer, bars)
    PROVE  Story(zone, bars) \subseteq Story(zone, longer)
<1> DEFINE n == Len(bars)
           m == Len(longer)
           B == BelowBars(zone, bars)
           K == BreakBars(zone, bars)
           A == AboveBars(zone, bars)
           B2 == BelowBars(zone, longer)
           K2 == BreakBars(zone, longer)
           A2 == AboveBars(zone, longer)
<1>1. n \in Nat /\ m \in Nat /\ n <= m /\ \A i \in 1..n : i \in 1..m /\ longer[i] = bars[i]
  BY DEF Continues
<1>2. \A i \in 1..n : (i \in B <=> i \in B2) /\ (i \in K <=> i \in K2) /\ (i \in A <=> i \in A2)
  BY <1>1 DEF BelowBars, BreakBars, AboveBars
<1> HIDE DEF n, m, B, K, A, B2, K2, A2
<1> SUFFICES ASSUME NEW h \in Facts(n), Occurs(h, B, K, A)
             PROVE  EventTelling(zone, bars, h) \in Story(zone, longer)
  BY DEF Story, n, B, K, A
<1>3. Occurs(h, B2, K2, A2)
  BY <1>1, <1>2, OccursEarly
<1>4. h.at \in 1..n /\ h.to \in 0..n /\ h \in Facts(m)
  BY <1>1 DEF Facts
<1>5. EventTelling(zone, longer, h) = EventTelling(zone, bars, h)
  <2>1. longer[h.at] = bars[h.at]
    BY <1>1, <1>4
  <2>2. h.to # 0 => longer[h.to] = bars[h.to]
    BY <1>1, <1>4
  <2> QED
    BY <2>1, <2>2, Zenon DEF EventTelling
<1>6. EventTelling(zone, longer, h) \in Story(zone, longer)
  BY <1>3, <1>4 DEF Story, m, B2, K2, A2
<1> QED
  BY <1>5, <1>6

\* What a story needs of its zone.
Alike(zone, other) ==
    zone.id = other.id /\ zone.low = other.low /\ zone.high = other.high

\* Zones that agree in that have the same story.
LEMMA StoryOfAlike ==
    ASSUME NEW zone, NEW other, Alike(zone, other), NEW bars
    PROVE  Story(zone, bars) = Story(other, bars)
<1>1. \A c : /\ ClosesBelow(zone, c) <=> ClosesBelow(other, c)
             /\ ClosesAbove(zone, c) <=> ClosesAbove(other, c)
             /\ ConfirmsBreak(zone, c) <=> ConfirmsBreak(other, c)
  BY Zenon DEF Alike, ClosesBelow, ClosesAbove, ConfirmsBreak
<1>2. /\ BelowBars(zone, bars) = BelowBars(other, bars)
      /\ BreakBars(zone, bars) = BreakBars(other, bars)
      /\ AboveBars(zone, bars) = AboveBars(other, bars)
  BY <1>1, Zenon DEF BelowBars, BreakBars, AboveBars
<1>3. \A h : EventTelling(zone, bars, h) = EventTelling(other, bars, h)
  BY Zenon DEF Alike, EventTelling, Event, EventId
<1> QED
  BY <1>2, <1>3, Zenon DEF Story

\* A zone is named by its bounds, its confirmation, which is the close of a candle
\* of the batch, and its evidence.
LEMMA ZoneNames ==
    ASSUME NEW cs, Chronicle(cs), NEW c, PivotCluster(cs, c)
    PROVE  LET z == ZoneOf(cs, c)
           IN /\ z.id = <<z.low, z.high, z.confirmed_at, z.evidence>>
              /\ \E k \in 1..Len(cs) : z.confirmed_at = cs[k].close_time
<1> DEFINE n == Len(cs)
           T == ToSet(c)
           z == ZoneOf(cs, c)
           b == Max(T)
<1>1. n \in Nat
  BY DEF Chronicle
<1>2. T \subseteq 1..n /\ b \in T
  BY ClusterPositions
<1>3. z.confirmed_at = cs[b + PivotRight].close_time
  BY DEF ZoneOf, Confirmation
<1>4. z.id = <<z.low, z.high, z.confirmed_at, z.evidence>>
  BY DEF ZoneOf
<1>5. PivotLeft \in Nat /\ PivotRight \in Nat
  BY ZoneRulesAssumption
<1>6. b \in PivotPositions(cs)
  BY <1>2 DEF PivotCluster, Pivotal
<1>7. PivotLeft + 1 <= b /\ b <= n - PivotRight /\ b \in Int
  BY <1>1, <1>2, <1>5, <1>6 DEF PivotPositions
<1> HIDE DEF n, b
<1>8. b + PivotRight \in 1..n
  BY <1>1, <1>5, <1>7
<1> HIDE DEF z
<1> QED
  BY <1>3, <1>4, <1>8 DEF n, z

\* The bars of a zone in a longer batch continue those in a shorter one.
LEMMA RelevantGrows ==
    ASSUME NEW cs, Chronicle(cs), NEW longer, Chronicle(longer), Continues(longer, cs),
           NEW zone, zone.confirmed_at \in Int
    PROVE  Continues(Relevant(zone, longer), Relevant(zone, cs))
<1> DEFINE n == Len(cs)
           m == Len(longer)
           t == zone.confirmed_at
           R == Relevant(zone, cs)
           Q == Relevant(zone, longer)
<1>1. n \in Nat /\ m \in Nat /\ n <= m /\ \A i \in 1..n : i \in 1..m /\ longer[i] = cs[i]
  BY DEF Continues
<1>2. PICK a : BeginsAt(cs, t, a)
  BY Beginning
<1>3. PICK b : BeginsAt(longer, t, b)
  BY Beginning
<1>4. R \in Seq(Ohlcv) /\ IsRun(R, cs, a, n)
  BY <1>2, RelevantRun
<1>5. Q \in Seq(Ohlcv) /\ IsRun(Q, longer, b, m)
  BY <1>3, RelevantRun
<1> HIDE DEF R, Q, t
<1>6. a \in 1..(n + 1) /\ \A i \in 1..n : cs[i].open_time >= t <=> a <= i
  BY <1>2 DEF BeginsAt
<1>7. b \in 1..(m + 1) /\ \A i \in 1..m : longer[i].open_time >= t <=> b <= i
  BY <1>3 DEF BeginsAt
<1>8. \A i \in 1..n : a <= i <=> b <= i
  BY <1>1, <1>6, <1>7
<1>9. Len(R) = n - a + 1 /\ \A k \in 1..Len(R) : R[k] = cs[a + k - 1]
  BY <1>4 DEF IsRun
<1>10. Len(Q) = m - b + 1 /\ \A k \in 1..Len(Q) : Q[k] = longer[b + k - 1]
  BY <1>5 DEF IsRun
<1> HIDE DEF n, m
<1>11. CASE a = n + 1
  <2>1. Len(R) = 0 /\ Len(Q) \in Nat
    BY <1>1, <1>7, <1>9, <1>10, <1>11
  <2> QED
    BY <2>1 DEF Continues, R, Q
<1>12. CASE a <= n
  <2>1. a \in 1..n
    BY <1>1, <1>6, <1>12
  <2>2. b <= a
    BY <1>8, <2>1
  <2>3. b \in 1..n
    BY <1>1, <1>7, <2>1, <2>2
  <2>4. a = b
    BY <1>8, <2>1, <2>2, <2>3
  <2>5. Len(R) \in Nat /\ Len(Q) \in Nat /\ Len(R) <= Len(Q)
    BY <1>1, <1>9, <1>10, <2>1, <2>4
  <2>6. \A k \in 1..Len(R) : k \in 1..Len(Q) /\ a + k - 1 \in 1..n
    BY <1>1, <1>9, <2>1, <2>5
  <2>7. \A k \in 1..Len(R) : Q[k] = R[k]
    BY <1>1, <1>9, <1>10, <2>4, <2>6
  <2> QED
    BY <2>5, <2>7 DEF Continues, R, Q
<1> QED
  BY <1>1, <1>6, <1>11, <1>12

\* Nor do candles before a zone's confirmation matter to its bars.
LEMMA RelevantOfLast ==
    ASSUME NEW cs, Chronicle(cs), NEW part, Chronicle(part),
           NEW d \in 0..Len(cs), IsRun(part, cs, d + 1, Len(cs)),
           NEW zone, NEW k \in 1..Len(part), zone.confirmed_at = part[k].close_time
    PROVE  Relevant(zone, part) = Relevant(zone, cs)
<1> DEFINE n == Len(cs)
           p == Len(part)
           t == zone.confirmed_at
           R == Relevant(zone, part)
           Q == Relevant(zone, cs)
<1>1. n \in Nat /\ d \in 0..n
  BY DEF Chronicle
<1>2. p = n - d /\ \A i \in 1..p : part[i] = cs[d + i]
  BY <1>1 DEF IsRun
<1>3. part[k].open_time < t /\ part[k].open_time \in Int /\ t \in Int
  BY CandleFields
<1>4. PICK a : BeginsAt(part, t, a)
  BY <1>3, Beginning
<1>5. R \in Seq(Ohlcv) /\ IsRun(R, part, a, p)
  BY <1>4, RelevantRun
<1>6. a \in 1..(p + 1) /\ \A i \in 1..p : part[i].open_time >= t <=> a <= i
  BY <1>4 DEF BeginsAt
<1>7. k \in 1..p /\ d + k \in 1..n
  BY <1>1, <1>2
<1> HIDE DEF n, p, t, R
<1>8. a + d \in 1..(n + 1)
  BY <1>1, <1>2, <1>6
<1>9. ASSUME NEW i \in 1..n PROVE cs[i].open_time >= t <=> a + d <= i
  <2>1. CASE i <= d
    <3>1. i < d + k
      BY <1>1, <1>7, <2>1
    <3>2. cs[i].open_time < cs[d + k].open_time
      BY <1>7, <3>1 DEF Chronicle, n
    <3>3. cs[d + k] = part[k] /\ cs[i].open_time \in Int
      BY <1>2, <1>7, CandleFields DEF n
    <3>4. ~(cs[i].open_time >= t)
      BY <1>3, <3>2, <3>3
    <3>5. ~(a + d <= i)
      BY <1>1, <1>6, <1>2, <2>1
    <3> QED
      BY <3>4, <3>5
  <2>2. CASE d < i
    <3> DEFINE j == i - d
    <3>1. j \in 1..p /\ d + j = i
      BY <1>1, <1>2, <2>2
    <3>2. part[j] = cs[i]
      BY <1>2, <3>1
    <3>3. a <= j <=> a + d <= i
      BY <1>1, <1>2, <1>6
    <3> HIDE DEF j
    <3> QED
      BY <1>6, <3>1, <3>2, <3>3
  <2> QED
    BY <1>1, <2>1, <2>2
<1>10. BeginsAt(cs, t, a + d)
  BY <1>8, <1>9 DEF BeginsAt, n
<1>11. Q \in Seq(Ohlcv) /\ IsRun(Q, cs, a + d, n)
  BY <1>10, RelevantRun DEF t, n
<1> HIDE DEF Q
<1>12. Len(R) = p - a + 1 /\ \A i \in 1..Len(R) : R[i] = part[a + i - 1]
  BY <1>5 DEF IsRun
<1>13. Len(Q) = n - (a + d) + 1 /\ \A i \in 1..Len(Q) : Q[i] = cs[a + d + i - 1]
  BY <1>11 DEF IsRun
<1>14. Len(R) = Len(Q) /\ Len(R) \in Nat
  BY <1>1, <1>2, <1>6, <1>12, <1>13
<1>15. ASSUME NEW i \in 1..Len(R) PROVE R[i] = Q[i]
  <2> DEFINE j == a + i - 1
  <2>1. j \in 1..p /\ d + j = a + d + i - 1
    BY <1>1, <1>2, <1>6, <1>12, <1>14
  <2>2. part[j] = cs[d + j]
    BY <1>2, <2>1
  <2>3. R[i] = part[j]
    BY <1>12
  <2>4. Q[i] = cs[a + d + i - 1]
    BY <1>13, <1>14
  <2> QED
    BY <2>1, <2>2, <2>3, <2>4
<1>16. R = Q
  BY <1>5, <1>11, <1>14, <1>15
<1> QED
  BY <1>16 DEF R, Q

\* A zone as its identifier names it.
ZoneNamed(id) == [id |-> id, low |-> id[1], high |-> id[2], confirmed_at |-> id[3]]

\* What candles say about the zone of this name.
Tale(id, cs) == Story(ZoneNamed(id), Relevant(ZoneNamed(id), cs))

\* It tells of that zone.
LEMMA TaleOfZone ==
    ASSUME NEW id, NEW cs, NEW e \in Tale(id, cs)
    PROVE  e.zone = id /\ e.id[1] = id
<1> DEFINE zone == ZoneNamed(id)
           bars == Relevant(zone, cs)
<1>1. zone.id = id
  BY DEF ZoneNamed
<1>2. e \in Story(zone, bars)
  BY DEF Tale
<1> HIDE DEF zone, bars
<1>3. PICK h : e = EventTelling(zone, bars, h)
  BY <1>2 DEF Story
<1> QED
  BY <1>1, <1>3 DEF EventTelling, Event, EventId

\* The events of a zone that the last of the candles yield are what all of them
\* say about it.
LEMMA TaleOfDerived ==
    ASSUME NEW cs, Chronicle(cs), NEW part, Chronicle(part), ClosesInOrder(part),
           NEW d \in 0..Len(cs), IsRun(part, cs, d + 1, Len(cs)),
           NEW z \in ToSet(DeriveSupportZones(part))
    PROVE  z.id[3] \in Int /\ ToSet(BuildStructureEvents(z, part)) = Tale(z.id, cs)
<1> DEFINE zones == DeriveSupportZones(part)
           cl == ClusterPivots(part, FindPivots(part))
<1>1. PICK i \in DOMAIN zones : z = zones[i]
  BY DEF ToSet
<1>2. PICK x \in 1..Len(cl) : z = ZoneOf(part, cl[x]) /\ PivotCluster(part, cl[x])
  BY <1>1, ZonesOfClusters
<1> DEFINE c == cl[x]
<1>3. z = ZoneOf(part, c) /\ PivotCluster(part, c)
  BY <1>2
<1> HIDE DEF c, zones, cl
<1>4. /\ z.id = <<z.low, z.high, z.confirmed_at, z.evidence>>
      /\ \E k \in 1..Len(part) : z.confirmed_at = part[k].close_time
  BY <1>3, ZoneNames
<1>5. PICK k \in 1..Len(part) : z.confirmed_at = part[k].close_time
  BY <1>4
<1>6. z.confirmed_at \in Int
  BY <1>5, CandleFields
<1> DEFINE zone == ZoneNamed(z.id)
<1>7. /\ zone.confirmed_at = z.confirmed_at
      /\ zone.id = z.id /\ zone.low = z.low /\ zone.high = z.high
  BY <1>4 DEF ZoneNamed
<1>8. Alike(z, zone)
  BY <1>7 DEF Alike
<1>9. Tale(z.id, cs) = Story(zone, Relevant(zone, cs))
  BY DEF Tale
<1> HIDE DEF zone
<1>10. Relevant(zone, cs) = Relevant(z, cs)
  BY <1>7 DEF Relevant, Indices
<1>11. Relevant(z, part) = Relevant(z, cs)
  BY <1>5, RelevantOfLast
<1>12. part \in Seq(Ohlcv)
  BY DEF Chronicle
<1>13. ToSet(BuildStructureEvents(z, part)) = Story(z, Relevant(z, part))
  BY <1>12, StoryOfBatch
<1>14. Story(z, Relevant(z, cs)) = Story(zone, Relevant(z, cs))
  BY <1>8, StoryOfAlike
<1>15. z.id[3] \in Int
  BY <1>4, <1>6
<1> QED
  BY <1>9, <1>10, <1>11, <1>13, <1>14, <1>15

\* More candles add to it.
LEMMA TaleGrows ==
    ASSUME NEW cs, Chronicle(cs), NEW longer, Chronicle(longer), Continues(longer, cs),
           NEW id, id[3] \in Int
    PROVE  Tale(id, cs) \subseteq Tale(id, longer)
<1> DEFINE zone == ZoneNamed(id)
<1>1. zone.confirmed_at \in Int
  BY DEF ZoneNamed
<1>2. /\ Tale(id, cs) = Story(zone, Relevant(zone, cs))
      /\ Tale(id, longer) = Story(zone, Relevant(zone, longer))
  BY DEF Tale
<1> HIDE DEF zone
<1>3. Continues(Relevant(zone, longer), Relevant(zone, cs))
  BY <1>1, RelevantGrows
<1> QED
  BY <1>2, <1>3, StoryGrows

\* Where a candle closes above the zone after a confirmed break, a later event
\* says that the break was taken back.
LEMMA TakenBackTold ==
    ASSUME NEW cs, Chronicle(cs), ClosesInOrder(cs), NEW id, id[3] \in Int,
           NEW e \in Tale(id, cs), e.state = "CONFIRMED_BREAK",
           NEW j \in 1..Len(cs), cs[j].open_time > e.id[2], cs[j].close > id[2]
    PROVE  e.observed_at \in Int /\ \E g \in Tale(id, cs) :
             g.observed_at \in Int /\ g.observed_at > e.observed_at
<1> DEFINE zone == ZoneNamed(id)
           bars == Relevant(zone, cs)
           n == Len(bars)
           B == BelowBars(zone, bars)
           K == BreakBars(zone, bars)
           A == AboveBars(zone, bars)
<1>1. zone.confirmed_at = id[3] /\ zone.high = id[2]
  BY DEF ZoneNamed
<1>2. Tale(id, cs) = Story(zone, bars)
  BY DEF Tale
<1> HIDE DEF zone
<1>3. PICK lo : BeginsAt(cs, id[3], lo)
  BY Beginning
<1>4. bars \in Seq(Ohlcv) /\ IsRun(bars, cs, lo, Len(cs))
  BY <1>1, <1>3, RelevantRun
<1>5. /\ lo \in 1..(Len(cs) + 1) /\ Len(cs) \in Nat
      /\ \A i \in 1..Len(cs) : cs[i].open_time >= id[3] <=> lo <= i
  BY <1>3 DEF BeginsAt, Chronicle
<1> HIDE DEF bars
<1>6. /\ n \in Nat /\ n = Len(cs) - lo + 1
      /\ \A k \in 1..n : bars[k] = cs[lo + k - 1]
  BY <1>4 DEF IsRun
<1>7. PICK h \in Facts(n) : Occurs(h, B, K, A) /\ e = EventTelling(zone, bars, h)
  BY <1>2 DEF Story
<1>8. /\ e.state = h.state /\ e.id[2] = bars[h.at].open_time
      /\ e.observed_at = bars[h.at].close_time
  BY <1>7 DEF EventTelling, Event, EventId
<1>9. h.at \in 1..n
  BY DEF Facts
<1>10. Broke(B, K, h.at)
  BY <1>7, <1>8 DEF Occurs, ReclaimState
<1> DEFINE k == j - lo + 1
           a == h.at
<1>11. lo + a - 1 \in 1..Len(cs) /\ bars[a] = cs[lo + a - 1]
  BY <1>5, <1>6, <1>9
<1>12. /\ cs[j].open_time \in Int /\ bars[a].open_time \in Int
       /\ bars[a].close_time \in Int
  BY <1>11, CandleFields
<1>13. lo <= lo + a - 1
  BY <1>5, <1>9
<1>14. bars[a].open_time >= id[3] /\ cs[j].open_time > bars[a].open_time
  BY <1>5, <1>8, <1>11, <1>13
<1>15. lo <= j
  <2>1. cs[j].open_time >= id[3]
    BY <1>12, <1>14
  <2> QED
    BY <1>5, <2>1
<1>16. lo + a - 1 < j
  <2>1. ~(j < lo + a - 1) 
    BY <1>11, <1>12, <1>14 DEF Chronicle
  <2>2. j # lo + a - 1
    BY <1>11, <1>12, <1>14
  <2> QED
    BY <1>5, <1>6, <1>9, <1>11, <2>1, <2>2
<1>17. k \in 1..n /\ a < k /\ bars[k] = cs[j]
  <2>1. k \in 1..n /\ a < k /\ lo + k - 1 = j
    BY <1>5, <1>6, <1>9, <1>15, <1>16
  <2> HIDE DEF k
  <2> QED
    BY <1>6, <2>1
<1> HIDE DEF k
<1>18. k \in A
  BY <1>1, <1>17 DEF AboveBars, ClosesAbove
<1> DEFINE T == {i \in A : a < i}
           b == Min(T)
<1>19. T \subseteq Nat /\ T # {} /\ A \subseteq 1..n
  BY <1>6, <1>17, <1>18 DEF AboveBars
<1>20. b \in T /\ \A i \in T : b <= i
  BY <1>19, MinOfNaturals
<1> HIDE DEF b
<1>21. b \in 1..n /\ a < b /\ b \in A
  BY <1>19, <1>20
<1>22. \A m \in (a + 1)..(b - 1) : m \notin A
  <2> SUFFICES ASSUME NEW m \in (a + 1)..(b - 1), m \in A PROVE FALSE
    OBVIOUS
  <2>1. m \in T
    BY <1>9
  <2>2. b <= m
    BY <1>20, <2>1
  <2> QED
    BY <1>9, <1>21, <2>2
<1>23. TakesBack(B, K, A, a, b)
  BY <1>10, <1>21, <1>22 DEF TakesBack
<1> DEFINE f == Fact(ReclaimState(b - a), b, a)
           g == EventTelling(zone, bars, f)
<1>24. f \in Facts(n) /\ f.at = b /\ f.to = a /\ f.state = ReclaimState(b - a)
  BY <1>9, <1>21 DEF Fact, Facts, ReclaimState, EventStates
<1>25. Occurs(f, B, K, A)
  BY <1>9, <1>23, <1>24 DEF Occurs
<1>26. g \in Tale(id, cs)
  BY <1>2, <1>24, <1>25 DEF Story
<1>27. g.observed_at = bars[b].close_time
  BY <1>24 DEF EventTelling, Event
<1>28. lo + b - 1 \in 1..Len(cs) /\ bars[b] = cs[lo + b - 1] /\ lo + a - 1 < lo + b - 1
  <2>1. a \in 1..n
    BY <1>9
  <2> HIDE DEF a, n, A
  <2>2. lo + b - 1 \in 1..Len(cs) /\ lo + a - 1 < lo + b - 1
    BY <1>5, <1>6, <1>21, <2>1
  <2> QED
    BY <1>6, <1>21, <2>2
<1>29. bars[b].close_time \in Int /\ bars[b].close_time > bars[a].close_time
  BY <1>11, <1>12, <1>28, CandleFields DEF ClosesInOrder
<1> HIDE DEF g
<1> QED
  BY <1>8, <1>12, <1>26, <1>27, <1>29
=============================================================================
