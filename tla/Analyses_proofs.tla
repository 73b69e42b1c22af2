--------------------------- MODULE Analyses_proofs ---------------------------
(***************************************************************************)
(* The pure analyses: the backtest for every plan and every sequence of    *)
(* bars, and what the streams of candles of MCAnalyses make of the         *)
(* backtest, the support zones, the structure events and the verdict, for  *)
(* every bound.                                                            *)
(***************************************************************************)
EXTENDS MCAnalyses, Engines_proofs

(* The backtest *)

Touched(plan, bar) == StopTouched(plan, bar) \/ TargetTouched(plan, bar)

TouchedBars(plan, bars) == {i \in 1..Len(bars) : Touched(plan, bars[i])}

\* The loop of run_backtest ends at the first bar that touches a level.
LEMMA FirstTouchIsFirst ==
    ASSUME NEW case
    PROVE  FirstTouch(case) = FirstOf(TouchedBars(case.plan, case.bars))
BY DEF FirstTouch, SelectInSeq, FirstOf, TouchedBars, Touched

\* A case that reached a level keeps its result when more bars are known, for
\* every plan and every policy; one that reached none has seen every bar.
THEOREM ResolvedCaseStands ==
    ASSUME NEW plan, NEW policy, NEW S, NEW bars \in Seq(S), NEW bar \in S
    PROVE  LET old == RunBacktest(Case(plan, policy, bars))
               new == RunBacktest(Case(plan, policy, Append(bars, bar)))
           IN IF old.outcome = "EXPIRED" THEN new.bars_processed = Len(bars) + 1
              ELSE new = old
<1> DEFINE n == Len(bars)
           more == Append(bars, bar)
           I == TouchedBars(plan, bars)
           J == TouchedBars(plan, more)
           i == FirstOf(I)
           j == FirstOf(J)
<1>1. /\ n \in Nat /\ Len(more) = n + 1
      /\ \A k \in 1..n : more[k] = bars[k]
  OBVIOUS
<1>2. I \subseteq 1..n /\ J \subseteq 1..(n + 1) /\ \A k \in 1..n : k \in I <=> k \in J
  BY <1>1 DEF TouchedBars
<1> HIDE DEF n, more, I, J
<1>3. /\ i # 0 => j = i
      /\ i = 0 => j \in {0, n + 1}
      /\ i \in 0..n
  BY <1>1, <1>2, FirstIndex, FirstIndexStands
<1>4. /\ FirstTouch(Case(plan, policy, bars)) = i
      /\ FirstTouch(Case(plan, policy, more)) = j
  BY FirstTouchIsFirst DEF Case, I, J
<1> HIDE DEF i, j
<1>5. CASE i # 0
  <2>1. j = i /\ i \in 1..n /\ more[i] = bars[i]
    BY <1>1, <1>3, <1>5
  <2>2. RunBacktest(Case(plan, policy, more)) = RunBacktest(Case(plan, policy, bars))
    BY <1>4, <1>5, <2>1 DEF RunBacktest, BuildResult, StopsFirst, Case
  <2>3. RunBacktest(Case(plan, policy, bars)).outcome # "EXPIRED"
    BY <1>4, <1>5 DEF RunBacktest, BuildResult
  <2> QED
    BY <2>2, <2>3 DEF more
<1>6. CASE i = 0
  <2>1. RunBacktest(Case(plan, policy, bars)).outcome = "EXPIRED"
    BY <1>4, <1>6 DEF RunBacktest, BuildResult
  <2>2. RunBacktest(Case(plan, policy, more)).bars_processed = n + 1
    BY <1>1, <1>3, <1>4, <1>6 DEF RunBacktest, BuildResult, Case
  <2> QED
    BY <2>1, <2>2 DEF more, n
<1> QED
  BY <1>5, <1>6

\* The policy matters in a bar that touches both levels and nowhere else: there
\* it moves the exit from the boundary to the objective, at the same time.
THEOREM PolicyInConflicts ==
    ASSUME NEW plan, NEW bars
    PROVE  LET careful == RunBacktest(Case(plan, "CONSERVATIVE", bars))
               hopeful == RunBacktest(Case(plan, "OPTIMISTIC", bars))
           IN /\ careful.conflict = hopeful.conflict
              /\ careful.exit_at = hopeful.exit_at
              /\ IF careful.conflict
                 THEN /\ careful.outcome = "STOP" /\ careful.exit = plan.boundary
                      /\ hopeful.outcome = "TARGET" /\ hopeful.exit = plan.objective
                 ELSE careful = hopeful
<1> DEFINE a == Case(plan, "CONSERVATIVE", bars)
           b == Case(plan, "OPTIMISTIC", bars)
           i == FirstOf(TouchedBars(plan, bars))
           stop == StopTouched(plan, bars[i])
           target == TargetTouched(plan, bars[i])
<1>1. FirstTouch(a) = i /\ FirstTouch(b) = i
  BY FirstTouchIsFirst DEF Case
<1>2. /\ a.plan = plan /\ a.bars = bars /\ a.policy = "CONSERVATIVE"
      /\ b.plan = plan /\ b.bars = bars /\ b.policy = "OPTIMISTIC"
  BY DEF Case
<1>3. /\ StopsFirst(a, bars[i]) <=> stop
      /\ StopsFirst(b, bars[i]) <=> stop /\ ~target
  BY <1>2 DEF StopsFirst
<1> HIDE DEF a, b, i
<1>4. \A o, k, e, c : BuildResult(a, o, k, e, c) = BuildResult(b, o, k, e, c)
  BY <1>2 DEF BuildResult
<1>5. CASE i = 0
  <2>1. /\ RunBacktest(a) = BuildResult(a, "EXPIRED", Len(bars), bars[Len(bars)].close, FALSE)
        /\ RunBacktest(b) = RunBacktest(a)
    BY <1>1, <1>2, <1>4, <1>5 DEF RunBacktest
  <2>2. RunBacktest(a).conflict = FALSE
    BY <2>1 DEF BuildResult
  <2> QED
    BY <2>1, <2>2 DEF a, b
<1>6. CASE i # 0
  <2>1. CASE stop /\ target
    <3>a. (stop /\ target) = TRUE
      BY <2>1
    <3>1. /\ RunBacktest(a) = BuildResult(a, "STOP", i, plan.boundary, TRUE)
          /\ RunBacktest(b) = BuildResult(b, "TARGET", i, plan.objective, TRUE)
      BY <1>1, <1>2, <1>3, <1>6, <2>1, <3>a DEF RunBacktest
    <3>2. /\ RunBacktest(a).conflict = TRUE /\ RunBacktest(b).conflict = TRUE
          /\ RunBacktest(a).outcome = "STOP" /\ RunBacktest(a).exit = plan.boundary
          /\ RunBacktest(b).outcome = "TARGET" /\ RunBacktest(b).exit = plan.objective
          /\ RunBacktest(a).exit_at = bars[i].open_time
          /\ RunBacktest(b).exit_at = bars[i].open_time
      BY <1>2, <2>1, <3>1 DEF BuildResult
    <3> QED
      BY <3>2 DEF a, b
  <2>2. CASE ~(stop /\ target)
    <3>1. RunBacktest(a) = RunBacktest(b)
      BY <1>1, <1>2, <1>3, <1>4, <1>6, <2>2 DEF RunBacktest
    <3>2. (stop /\ target) = FALSE
      BY <2>2
    <3>3. \E o, e : RunBacktest(a) = BuildResult(a, o, i, e, FALSE)
      BY <1>1, <1>2, <1>6, <3>2 DEF RunBacktest
    <3>4. \A o, e : BuildResult(a, o, i, e, FALSE).conflict = FALSE
      BY DEF BuildResult
    <3>5. RunBacktest(a).conflict = FALSE
      BY <3>3, <3>4
    <3> QED
      BY <3>1, <3>5 DEF a, b
  <2> QED
    BY <2>1, <2>2
<1> QED
  BY <1>5, <1>6

\* The streams of closed candles are batches that a backtest accepts.
Sane(b) ==
    /\ 0 < b.low /\ b.low <= b.open /\ b.low <= b.close
    /\ b.open <= b.high /\ b.close <= b.high /\ b.volume >= 0

StreamInv ==
    /\ candles \in Seq(Ohlcv)
    /\ \A i \in 1..Len(candles) :
         /\ Sane(candles[i])
         /\ candles[i].open_time = i - 1 + Offset /\ candles[i].close_time = i + Offset

\* What one more candle makes of the stream.
LEMMA CloseAppends ==
    ASSUME NEW shape \in ZoneShapes \cup EventShapes \cup BreakShapes,
           StreamInv, Close(shape)
    PROVE  /\ \E c \in Ohlcv : candles' = Append(candles, c)
           /\ StreamInv'
<1>1. /\ {shape.open, shape.high, shape.low, shape.close, shape.volume} \subseteq Int
      /\ Sane(shape)
  BY DEF ZoneShapes, EventShapes, BreakShapes, Bar, Sane
<1> DEFINE at == Len(candles) + Offset
           c == [open |-> shape.open, high |-> shape.high, low |-> shape.low,
                 close |-> shape.close, volume |-> shape.volume,
                 open_time |-> at, close_time |-> at + 1]
<1>2. candles \in Seq(Ohlcv) /\ Len(candles) \in Nat /\ Offset \in {0, 1} /\ Offset' = Offset
  BY DEF StreamInv, Offset, Close
<1>3. c \in Ohlcv /\ Sane(c) /\ c.open_time = at /\ c.close_time = at + 1
  BY <1>1, <1>2 DEF Ohlcv, Sane
<1>4. candles' = Append(candles, c)
  BY DEF Close
<1> HIDE DEF c
<1>5. /\ candles' \in Seq(Ohlcv) /\ Len(candles') = Len(candles) + 1
      /\ \A i \in 1..Len(candles) : candles'[i] = candles[i]
      /\ candles'[Len(candles) + 1] = c
  BY <1>2, <1>3, <1>4
<1>6. ASSUME NEW i \in 1..Len(candles')
      PROVE  /\ Sane(candles'[i])
             /\ candles'[i].open_time = i - 1 + Offset /\ candles'[i].close_time = i + Offset
  <2>1. CASE i \in 1..Len(candles)
    BY <1>5, <2>1 DEF StreamInv
  <2>2. CASE i = Len(candles) + 1
    BY <1>2, <1>3, <1>5, <2>2
  <2> QED
    BY <1>2, <1>5, <2>1, <2>2
<1> QED
  BY <1>2, <1>3, <1>4, <1>5, <1>6 DEF StreamInv

\* The streams stay well formed.
THEOREM StreamCorrect == Spec => []StreamInv
<1>1. Init => StreamInv
  BY DEF Init, StreamInv
<1>2. StreamInv /\ [Next]_vars => StreamInv'
  <2> SUFFICES ASSUME StreamInv, [Next]_vars PROVE StreamInv'
    OBVIOUS
  <2>1. CASE Next
    BY <2>1, CloseAppends DEF Next
  <2>2. CASE UNCHANGED vars
    BY <2>2 DEF vars, StreamInv, Offset
  <2> QED
    BY <2>1, <2>2
<1> QED
  BY <1>1, <1>2, PTL DEF Spec

\* A resolved case of the backtest keeps its result, on every stream.
THEOREM ResolvedCorrect == Spec => ResolvedStands
<1> DEFINE Stands(b, c) ==
        \A n \in DOMAIN Plans :
            LET old == Results("CONSERVATIVE", b)[n]
                new == Results("CONSERVATIVE", c)[n]
            IN IF old.outcome = "EXPIRED" THEN new.bars_processed = Len(c) ELSE new = old
<1>1. StreamInv /\ [Next]_vars
        => [subject = "events" /\ candles # <<>> => Stands(candles, candles')]_vars
  <2> SUFFICES ASSUME StreamInv, Next PROVE Stands(candles, candles')
    OBVIOUS
  <2>1. PICK c \in Ohlcv : candles' = Append(candles, c)
    BY CloseAppends DEF Next
  <2>2. candles \in Seq(Ohlcv) /\ Len(candles') = Len(candles) + 1
    BY <2>1 DEF StreamInv
  <2>3. ASSUME NEW n \in DOMAIN Plans
        PROVE  LET old == Results("CONSERVATIVE", candles)[n]
                   new == Results("CONSERVATIVE", candles')[n]
               IN IF old.outcome = "EXPIRED" THEN new.bars_processed = Len(candles')
                  ELSE new = old
    <3>1. \A b : Results("CONSERVATIVE", b)[n] = RunBacktest(Case(Plans[n], "CONSERVATIVE", b))
      BY DEF Results
    <3> QED
      BY <2>1, <2>2, <3>1, ResolvedCaseStands
  <2> QED
    BY <2>3
<1>2. Spec => [][subject = "events" /\ candles # <<>> => Stands(candles, candles')]_vars
  BY <1>1, StreamCorrect, PTL DEF Spec
<1> QED
  BY <1>2 DEF ResolvedStands

\* A stream that has a candle is a case for each of the plans.
LEMMA StreamIsCase ==
    ASSUME StreamInv, candles # <<>>, NEW n \in DOMAIN Plans, NEW policy
    PROVE  IsCase(Case(Plans[n], policy, candles))
<1>1. n \in 1..5
  BY DEF Plans
<1>2. /\ Plans[n].status = "READY"
      /\ 0 < Plans[n].objective /\ Plans[n].objective < Plans[n].entry
      /\ Plans[n].entry < Plans[n].boundary /\ Plans[n].multiplier \in 1..5
  BY <1>1 DEF Plans, Plan
<1>3. Offset \in {0, 1} /\ Len(candles) \in Nat /\ DOMAIN candles = 1..Len(candles)
  BY DEF Offset, StreamInv
<1>4. \A i \in DOMAIN candles : IsCandle(candles[i])
  BY <1>3 DEF StreamInv, Sane, IsCandle
<1>5. \A i \in 1..(Len(candles) - 1) : candles[i].open_time < candles[i + 1].open_time
  BY <1>3 DEF StreamInv
<1> QED
  BY <1>2, <1>4, <1>5 DEF IsCase, IsBatch, Case

\* The policy decides between a loss and a gain in a bar that touches both
\* levels, and is of no consequence in any other.
THEOREM PolicyCorrect == Spec => []PolicyOnlyInConflicts
<1>1. StreamInv => PolicyOnlyInConflicts
  <2> SUFFICES ASSUME StreamInv, candles # <<>>, NEW n \in DOMAIN Plans
               PROVE  LET careful == Results("CONSERVATIVE", candles)[n]
                          hopeful == Results("OPTIMISTIC", candles)[n]
                      IN /\ IsCase(Case(Plans[n], "OPTIMISTIC", candles))
                         /\ careful.conflict = hopeful.conflict
                         /\ IF careful.conflict
                            THEN careful.return < 0 /\ 0 < hopeful.return
                                 /\ careful.exit_at = hopeful.exit_at
                            ELSE careful = hopeful
    BY DEF PolicyOnlyInConflicts
  <2> DEFINE p == Plans[n]
             careful == RunBacktest(Case(p, "CONSERVATIVE", candles))
             hopeful == RunBacktest(Case(p, "OPTIMISTIC", candles))
  <2>1. /\ Results("CONSERVATIVE", candles)[n] = careful
        /\ Results("OPTIMISTIC", candles)[n] = hopeful
    BY DEF Results
  <2>2. IsCase(Case(p, "OPTIMISTIC", candles))
    BY StreamIsCase
  <2>3. /\ careful.conflict = hopeful.conflict /\ careful.exit_at = hopeful.exit_at
        /\ IF careful.conflict
           THEN careful.exit = p.boundary /\ hopeful.exit = p.objective
           ELSE careful = hopeful
    BY PolicyInConflicts
  <2>4. /\ careful.return = ((p.entry - careful.exit) * 10000) \div p.entry
        /\ hopeful.return = ((p.entry - hopeful.exit) * 10000) \div p.entry
    BY DEF RunBacktest, BuildResult, Case
  <2>5. /\ ((p.entry - p.boundary) * 10000) \div p.entry < 0
        /\ 0 < ((p.entry - p.objective) * 10000) \div p.entry
    <3>1. n \in 1..5
      BY DEF Plans
    <3>2. CASE n = 1
      BY <3>2 DEF Plans, Plan
    <3>3. CASE n = 2
      BY <3>3 DEF Plans, Plan
    <3>4. CASE n = 3
      BY <3>4 DEF Plans, Plan
    <3>5. CASE n = 4
      BY <3>5 DEF Plans, Plan
    <3>6. CASE n = 5
      BY <3>6 DEF Plans, Plan
    <3> QED
      BY <3>1, <3>2, <3>3, <3>4, <3>5, <3>6
  <2> HIDE DEF p, careful, hopeful
  <2>6. careful.conflict => careful.return < 0 /\ 0 < hopeful.return
    BY <2>3, <2>4, <2>5
  <2> QED
    BY <2>1, <2>2, <2>3, <2>6 DEF p
<1> QED
  BY <1>1, StreamCorrect, PTL

----------------------------------------------------------------------------
(* The verdict on a break *)

VerdictInv == verdict = Judged(candles)

\* The verdict is always the one on all candles so far.
THEOREM VerdictCurrent == Spec => []VerdictInv
<1>1. Init => VerdictInv
  BY DEF Init, VerdictInv
<1>2. VerdictInv /\ [Next]_vars => VerdictInv'
  <2> SUFFICES ASSUME VerdictInv, [Next]_vars PROVE VerdictInv'
    OBVIOUS
  <2>1. ASSUME NEW shape, Close(shape) PROVE VerdictInv'
    <3>1. subject' = subject /\ verdict' = Judged(candles')
      BY <2>1 DEF Close
    <3> QED
      BY <3>1 DEF VerdictInv, Judged
  <2>2. CASE UNCHANGED vars
    BY <2>2 DEF vars, VerdictInv, Judged
  <2> QED
    BY <2>1, <2>2 DEF Next
<1> QED
  BY <1>1, <1>2, PTL DEF Spec

\* All candles of a stream for a break close after it.
LEMMA StreamIsAfterBreak ==
    ASSUME StreamInv, ForBreak
    PROVE  /\ Chronicle(candles)
           /\ Judged(candles) = JudgeBreak(Zone, Break, Broken, subject, candles)
<1> DEFINE late == Indices(candles, LAMBDA c : c.close_time > Break.observed_at)
<1>1. candles \in Seq(Ohlcv) /\ Len(candles) \in Nat /\ DOMAIN candles = 1..Len(candles)
  BY DEF StreamInv
<1>2. Offset = 1
  BY DEF Offset, ForBreak
<1>3. DOMAIN candles \subseteq late
  <2>1. Break.observed_at = 1
    BY DEF Break
  <2> QED
    BY <1>1, <1>2, <2>1 DEF StreamInv, Indices
<1>4. Kept(candles, late) = candles
  <2> HIDE DEF late
  <2> QED
    BY <1>1, <1>3, KeptAll
<1>5. AfterBreak(Break, candles) = candles
  BY <1>4 DEF AfterBreak
<1>6. Judged(candles) = JudgeBreak(Zone, Break, Broken, subject, candles)
  BY <1>5 DEF Judged, ForBreak, AnalyzeReclaimAttempt
<1>7. \A i \in DOMAIN candles : IsCandle(candles[i])
  BY <1>1, <1>2 DEF StreamInv, Sane, IsCandle
<1>8. \A i \in 1..(Len(candles) - 1) : candles[i].open_time < candles[i + 1].open_time
  BY <1>1, <1>2 DEF StreamInv
<1>9. Chronicle(candles)
  BY <1>1, <1>7, <1>8, BatchIsChronicle DEF IsBatch
<1> QED
  BY <1>6, <1>9

JudgedInv == ForBreak => verdict = JudgeBreak(Zone, Break, Broken, subject, candles)

\* In every state the verdict is the one on the break and all candles.
THEOREM VerdictIsJudgement == Spec => []JudgedInv
<1>1. StreamInv /\ VerdictInv => JudgedInv
  BY StreamIsAfterBreak DEF VerdictInv, JudgedInv
<1> QED
  BY <1>1, StreamCorrect, VerdictCurrent, PTL

\* With the required closes of ReclaimRules the setup is cancelled exactly when
\* the zone was reclaimed.
THEOREM CancelledCorrect ==
    ASSUME SuccessfulH4Closes = 1, SuccessfulM15Closes = 2
    PROVE  Spec => []CancelledIffReclaimed
<1>1. StreamInv /\ JudgedInv => CancelledIffReclaimed
  <2> SUFFICES ASSUME StreamInv, JudgedInv, ForBreak
               PROVE  verdict.readiness = "CANCELLED" <=> Reclaimed
    BY DEF CancelledIffReclaimed
  <2> DEFINE n == RequiredCloses(subject)
  <2>1. candles \in Seq(Ohlcv) /\ Len(candles) \in Nat /\ DOMAIN candles = 1..Len(candles)
    BY DEF StreamInv
  <2>2. verdict = JudgeBreak(Zone, Break, Broken, subject, candles)
    BY DEF JudgedInv
  <2>3. verdict.readiness = "CANCELLED" <=>
          \E i \in n..Len(candles) : \A k \in (i - n + 1)..i : candles[k].close > Zone.high
    BY <2>1, <2>2, CancelledExactly
  <2>4. CASE subject = "H4"
    <3>1. n = 1 /\ \A i \in 1..Len(candles) : (i - 1 + 1)..i = {i}
      BY <2>1, <2>4 DEF RequiredCloses
    <3>2. verdict.readiness = "CANCELLED" <=> \E i \in 1..Len(candles) : Above(i)
      BY <2>3, <3>1 DEF Above
    <3> QED
      BY <2>1, <2>4, <3>2 DEF Reclaimed
  <2>5. CASE subject = "M15"
    <3>1. n = 2 /\ \A i \in 2..Len(candles) : (i - 2 + 1)..i = {i - 1, i}
      BY <2>1, <2>5 DEF RequiredCloses
    <3>2. verdict.readiness = "CANCELLED" <=>
            \E i \in 2..Len(candles) : Above(i - 1) /\ Above(i)
      BY <2>3, <3>1 DEF Above
    <3> QED
      BY <2>1, <2>5, <3>2 DEF Reclaimed
  <2> QED
    BY <2>4, <2>5 DEF ForBreak
<1> QED
  BY <1>1, StreamCorrect, VerdictIsJudgement, PTL

\* A verdict that decides the attempt is not revised by later candles.
THEOREM DecisionsCorrect == Spec => DecisionsStand
<1> DEFINE Stands ==
        /\ verdict.outcome = "SUCCESSFUL_RECLAIM" => verdict' = verdict
        /\ verdict.outcome \in {"FAILED_PULLBACK", "INVALIDATED"}
             => verdict' = verdict \/ verdict'.outcome = "SUCCESSFUL_RECLAIM"
<1>1. StreamInv /\ JudgedInv /\ JudgedInv' /\ [Next]_vars
        => [ForBreak => Stands]_vars
  <2> SUFFICES ASSUME StreamInv, JudgedInv, JudgedInv', Next, ForBreak
               PROVE  Stands
    OBVIOUS
  <2>1. /\ \E c \in Ohlcv : candles' = Append(candles, c)
        /\ subject' = subject
    BY CloseAppends DEF Next, Close
  <2>2. PICK c \in Ohlcv : candles' = Append(candles, c)
    BY <2>1
  <2>3. verdict = JudgeBreak(Zone, Break, Broken, subject, candles)
    BY DEF JudgedInv
  <2>4. verdict' = JudgeBreak(Zone, Break, Broken, subject, candles')
    <3>1. ForBreak'
      BY <2>1 DEF ForBreak
    <3> QED
      BY <2>1, <3>1 DEF JudgedInv, Zone
  <2>5. candles \in Seq(Ohlcv)
    BY DEF StreamInv
  <2> QED
    BY <2>2, <2>3, <2>4, <2>5, VerdictStands
<1>2. Spec => [][ForBreak => Stands]_vars
  BY <1>1, StreamCorrect, VerdictIsJudgement, PTL DEF Spec
<1> QED
  BY <1>2 DEF DecisionsStand

\* With the minimum_attempt_penetration_bps of ReclaimRules every verdict is
\* accepted by its record, and a qualified one has its evidence in the stream.
THEOREM VerdictEvidencedCorrect ==
    ASSUME MinAttempt = 5
    PROVE  Spec => []VerdictEvidenced
<1>1. StreamInv /\ JudgedInv => VerdictEvidenced
  <2> SUFFICES ASSUME StreamInv, JudgedInv, ForBreak
               PROVE  /\ IsAttempt(verdict)
                      /\ verdict.readiness = "QUALIFIED" => verdict.trigger # None
                      /\ PullbackEvidenced
    BY DEF VerdictEvidenced
  <2>1. /\ candles \in Seq(Ohlcv) /\ Len(candles) \in Nat /\ DOMAIN candles = 1..Len(candles)
        /\ Chronicle(candles)
    BY StreamIsAfterBreak DEF StreamInv
  <2>2. verdict = JudgeBreak(Zone, Break, Broken, subject, candles)
    BY DEF JudgedInv
  <2>3. /\ Zone.low = 2000 /\ Zone.high = 2010 /\ Break.observed_at = 1
        /\ Broken.volume = 2 /\ Broken.low = 1990
    BY DEF Zone, Break, Broken
  <2>4. Accepted(verdict, candles)
    <3>1. /\ Zone.low \in Nat \ {0} /\ Zone.high \in Int /\ Break.observed_at \in Int
          /\ Broken.volume \in Nat /\ Broken.low \in Int
      BY <2>3
    <3> QED
      BY <2>1, <2>2, <3>1, VerdictAccepted
  <2>5. ASSUME NEW i \in 1..Len(candles) PROVE At(candles[i].open_time) = i
    <3>1. \A m \in DOMAIN candles : candles[m].open_time = candles[i].open_time => m = i
      BY <2>1 DEF StreamInv, Offset
    <3>2. i \in DOMAIN candles
      BY <2>1
    <3> QED
      BY <3>1, <3>2 DEF At
  <2>6. verdict.readiness = "QUALIFIED" => verdict.trigger # None
    <3> SUFFICES ASSUME verdict.readiness = "QUALIFIED" PROVE verdict.trigger # None
      OBVIOUS
    <3>1. PICK k \in 1..Len(candles) : verdict.trigger = candles[k].open_time
      BY <2>4 DEF Accepted, Evidenced
    <3>2. candles[k].open_time \in Int
      BY <2>1, CandleFields
    <3> QED
      BY <3>1, <3>2, NoneAssumption
  <2>7. PullbackEvidenced
    <3> SUFFICES ASSUME verdict.outcome = "FAILED_PULLBACK" PROVE PullbackEvidenced
      BY DEF PullbackEvidenced
    <3>1. PICK i \in 1..Len(candles), j \in 1..Len(candles), k \in 1..Len(candles) :
            /\ i <= j /\ j < i + MaxPullback /\ j < k
            /\ AttemptsZone(Zone, candles[i]) /\ Rejects(Zone, candles[j])
            /\ candles[k].close < candles[j].low
            /\ verdict.started_at = candles[i].open_time
            /\ verdict.rejection = candles[j].open_time
            /\ verdict.trigger = candles[k].open_time
            /\ verdict.observed_at = candles[k].close_time
      BY <2>1, <2>2, PullbackNamesEvidence
    <3>2. At(verdict.started_at) = i /\ At(verdict.rejection) = j /\ At(verdict.trigger) = k
      BY <2>5, <3>1
    <3>3. candles[i].high >= 2001
      <4>1. candles[i].high \in Int
        BY <2>1, CandleFields
      <4>2. candles[i].high * 10000 >= 2000 * (10000 + 5)
        BY <2>3, <3>1 DEF AttemptsZone
      <4> QED
        BY <4>1, <4>2
    <3>4. candles[j].close < Zone.low /\ candles[j].high >= Zone.low
      BY <3>1 DEF Rejects
    <3> QED
      BY <3>1, <3>2, <3>3, <3>4 DEF PullbackEvidenced
  <2> QED
    BY <2>4, <2>6, <2>7 DEF Accepted
<1> QED
  BY <1>1, StreamCorrect, VerdictIsJudgement, PTL

----------------------------------------------------------------------------
(* The metrics of the backtest *)

SumsUp(f, r, counted) ==
    /\ f[0] = 0
    /\ \A i \in 1..Len(r) : f[i] = IF r[i] \in counted THEN f[i - 1] + r[i] ELSE f[i - 1]

\* A sum adds one return after the other.
LEMMA SumSteps ==
    ASSUME NEW r \in Seq(Int), NEW counted
    PROVE  \E f \in [0..Len(r) -> Int] :
             SumsUp(f, r, counted) /\ SumOf(r, counted) = f[Len(r)]
<1> DEFINE Adds(sum, v) == IF v \in counted THEN sum + v ELSE sum
           op == [sum \in Int |-> [v \in Int |-> Adds(sum, v)]]
           n == Len(r)
           Sums(g) == g = [s \in SUBSET DOMAIN r |->
                             IF s = {} THEN 0 ELSE Adds(g[s \ {Max(s)}], r[Max(s)])]
<1>1. n \in Nat /\ DOMAIN r = 1..n /\ \A i \in 1..n : r[i] \in Int
  OBVIOUS
<1>2. \A sum, v \in Int : Adds(sum, v) \in Int
  OBVIOUS
<1> HIDE DEF Adds
<1>3. op \in [Int -> [Int -> Int]]
  BY <1>2
<1>4. PICK it \in [SUBSET DOMAIN r -> Int] : IsFold(it, 0, r, op)
  <2>1. 0 \in Int
    OBVIOUS
  <2> HIDE DEF op, Sums, n
  <2> QED
    BY <1>3, <2>1, FoldExists, Zenon
<1>5. Sums(it)
  <2>1. ASSUME NEW s \in SUBSET DOMAIN r, s # {}
        PROVE  op[it[s \ {Max(s)}]][r[Max(s)]] = Adds(it[s \ {Max(s)}], r[Max(s)])
    <3>1. s \subseteq 0..n
      BY <1>1
    <3>2. Max(s) \in 1..n
      <4> HIDE DEF n
      <4> QED
        BY <1>1, <2>1, <3>1, MaxOfBounded
    <3>3. r[Max(s)] \in Int /\ s \ {Max(s)} \in SUBSET DOMAIN r
      BY <1>1, <3>2
    <3>4. it[s \ {Max(s)}] \in Int
      BY <3>3
    <3> QED
      BY <3>3, <3>4
  <2> HIDE DEF op
  <2> QED
    BY <1>4, <2>1 DEF IsFold
<1> DEFINE g == CHOOSE g : Sums(g)
<1>6. SumOf(r, counted) = g[DOMAIN r]
  BY DEF SumOf, FoldLeft, MapThenFoldSet, Adds
<1>7. Sums(g)
  <2> HIDE DEF Sums
  <2> QED
    BY <1>5
<1> HIDE DEF g, op
<1> DEFINE f == [i \in 0..n |-> g[1..i]]
<1>8. f[0] = 0
  <2>1. g[{}] = 0
    BY <1>7
  <2>2. 1..0 = {} /\ 0 \in 0..n
    BY <1>1
  <2> QED
    BY <2>1, <2>2
<1>9. ASSUME NEW i \in 1..n PROVE f[i] = Adds(f[i - 1], r[i])
  <2>1. /\ Max(1..i) = i /\ (1..i) \ {i} = 1..(i - 1) /\ i \in 1..i
        /\ 1..i \in SUBSET (1..n)
    <3> HIDE DEF n
    <3> QED
      BY <1>1, PrefixSets
  <2>2. g[1..i] = Adds(g[(1..i) \ {Max(1..i)}], r[Max(1..i)])
    BY <1>1, <1>7, <2>1
  <2>3. g[1..i] = Adds(g[1..(i - 1)], r[i])
    BY <2>1, <2>2
  <2>4. i \in 0..n /\ i - 1 \in 0..n
    BY <1>1
  <2> QED
    BY <2>3, <2>4
<1> DEFINE Whole == {i \in 0..n : f[i] \in Int}
<1>10. 0..n \subseteq Whole
  <2>1. 0 \in Whole
    BY <1>1, <1>8
  <2>2. ASSUME NEW i \in 1..n, i - 1 \in Whole PROVE i \in Whole
    <3> HIDE DEF f
    <3>1. r[i] \in Int /\ f[i - 1] \in Int /\ i \in 0..n
      BY <1>1, <2>2
    <3> QED
      BY <1>2, <1>9, <3>1
  <2> HIDE DEF Whole, n
  <2> QED
    BY <1>1, <2>1, <2>2, SetInduction
<1>11. f \in [0..n -> Int]
  BY <1>10
<1>12. SumOf(r, counted) = f[n]
  <2>1. n \in 0..n
    BY <1>1
  <2> QED
    BY <1>1, <1>6, <2>1
<1>13. SumsUp(f, r, counted)
  <2> HIDE DEF f
  <2> QED
    BY <1>8, <1>9 DEF SumsUp, Adds
<1> HIDE DEF f
<1> QED
  BY <1>11, <1>12, <1>13

\* The returns q are the first ones of r.
Begins(q, r) ==
    /\ q \in Seq(Int) /\ r \in Seq(Int) /\ Len(q) <= Len(r)
    /\ \A i \in 1..Len(q) : q[i] = r[i]

\* Two sums that agree on their returns agree.
LEMMA SumsAgree ==
    ASSUME NEW r, NEW q, Begins(q, r), NEW counted,
           NEW f, SumsUp(f, r, counted), NEW g, SumsUp(g, q, counted)
    PROVE  \A i \in 0..Len(q) : f[i] = g[i]
<1> DEFINE n == Len(q)
           Same == {i \in 0..n : f[i] = g[i]}
<1>1. n \in Nat /\ Len(r) \in Nat /\ n <= Len(r) /\ \A i \in 1..n : q[i] = r[i]
  BY DEF Begins
<1>2. 0 \in Same
  BY <1>1 DEF SumsUp
<1>3. ASSUME NEW i \in 1..n, i - 1 \in Same PROVE i \in Same
  <2>1. /\ i \in 1..Len(r) /\ i \in 0..n /\ q[i] = r[i] /\ f[i - 1] = g[i - 1]
    BY <1>1, <1>3
  <2>2. /\ f[i] = IF r[i] \in counted THEN f[i - 1] + r[i] ELSE f[i - 1]
        /\ g[i] = IF q[i] \in counted THEN g[i - 1] + q[i] ELSE g[i - 1]
    BY <2>1 DEF SumsUp
  <2> QED
    BY <2>1, <2>2
<1>4. 0..n \subseteq Same
  <2> HIDE DEF Same, n
  <2> QED
    BY <1>1, <1>2, <1>3, SetInduction
<1> QED
  BY <1>4

\* The equity after each of the returns.
Equities(eq, r) ==
    /\ eq \in [0..Len(r) -> Int] /\ eq[0] = Full
    /\ \A i \in 1..Len(r) : eq[i] = eq[i - 1] + r[i]

\* The equity curve exists, and the sums of the drawdown are on it.
LEMMA EquityOf ==
    ASSUME NEW r \in Seq(Int)
    PROVE  \E eq : /\ Equities(eq, r)
                   /\ \A i \in 0..Len(r) : Full + SumOf(Take(r, i), Int) = eq[i]
<1>1. PICK f \in [0..Len(r) -> Int] : SumsUp(f, r, Int)
  BY SumSteps
<1>2. Full = 10000 /\ Len(r) \in Nat /\ \A i \in 1..Len(r) : r[i] \in Int
  BY DEF Full
<1> DEFINE eq == [i \in 0..Len(r) |-> Full + f[i]]
<1>3. Equities(eq, r)
  <2>1. eq \in [0..Len(r) -> Int] /\ eq[0] = Full
    BY <1>1, <1>2 DEF SumsUp
  <2>2. ASSUME NEW i \in 1..Len(r) PROVE eq[i] = eq[i - 1] + r[i]
    <3>1. i \in 0..Len(r) /\ i - 1 \in 0..Len(r)
      BY <1>2
    <3>2. f[i] = f[i - 1] + r[i] /\ f[i - 1] \in Int /\ r[i] \in Int
      BY <1>1, <1>2, <3>1 DEF SumsUp
    <3> QED
      BY <1>2, <3>1, <3>2
  <2> HIDE DEF eq
  <2> QED
    BY <2>1, <2>2 DEF Equities
<1>4. ASSUME NEW i \in 0..Len(r) PROVE Full + SumOf(Take(r, i), Int) = eq[i]
  <2> DEFINE q == Take(r, i)
  <2>1. i \in Nat /\ q \in Seq(Int) /\ Len(q) = i /\ \A k \in 1..Len(q) : q[k] = r[k]
    <3>1. i \in Nat
      BY <1>2
    <3>2. /\ q \in Seq(Int) /\ Len(q) = IF Len(r) < i THEN Len(r) ELSE i
          /\ \A k \in 1..Len(q) : q[k] = r[k]
      BY <3>1, Slices
    <3> QED
      BY <1>2, <3>1, <3>2
  <2> HIDE DEF q
  <2>2. PICK g \in [0..Len(q) -> Int] : SumsUp(g, q, Int) /\ SumOf(q, Int) = g[Len(q)]
    BY <2>1, SumSteps
  <2>3. Len(q) <= Len(r)
    BY <1>2, <2>1
  <2>4. \A k \in 0..Len(q) : f[k] = g[k]
    <3>1. Begins(q, r)
      BY <2>1, <2>3 DEF Begins
    <3>2. SumsUp(f, r, Int) /\ SumsUp(g, q, Int)
      BY <1>1, <2>2
    <3> QED
      BY <3>1, <3>2, SumsAgree
  <2>5. SumOf(q, Int) = f[i]
    BY <2>1, <2>2, <2>4
  <2> QED
    BY <2>5 DEF q
<1> HIDE DEF eq
<1> QED
  BY <1>3, <1>4

\* Profits and losses are all that moves the equity.
LEMMA ProfitsAndLosses ==
    ASSUME NEW r \in Seq(Int)
    PROVE  SumOf(r, Nat \ {0}) + SumOf(r, Int \ Nat) + Full = Full + SumOf(Take(r, Len(r)), Int)
<1> DEFINE n == Len(r)
<1>1. n \in Nat /\ n \in 0..n /\ \A i \in 1..n : r[i] \in Int
  OBVIOUS
<1>2. PICK eq : Equities(eq, r) /\ \A i \in 0..n : Full + SumOf(Take(r, i), Int) = eq[i]
  BY EquityOf
<1>3. PICK p \in [0..n -> Int] : SumsUp(p, r, Nat \ {0}) /\ SumOf(r, Nat \ {0}) = p[n]
  BY SumSteps
<1>4. PICK l \in [0..n -> Int] : SumsUp(l, r, Int \ Nat) /\ SumOf(r, Int \ Nat) = l[n]
  BY SumSteps
<1> DEFINE Agree == {i \in 0..n : p[i] + l[i] + Full = eq[i]}
<1>5. Full = 10000 /\ eq \in [0..n -> Int]
  BY <1>2 DEF Full, Equities
<1>6. 0 \in Agree
  BY <1>1, <1>2, <1>3, <1>4, <1>5 DEF SumsUp, Equities
<1>7. ASSUME NEW i \in 1..n, i - 1 \in Agree PROVE i \in Agree
  <2>1. i \in 0..n /\ i - 1 \in 0..n /\ r[i] \in Int
    BY <1>1
  <2>2. /\ p[i - 1] \in Int /\ l[i - 1] \in Int /\ eq[i - 1] \in Int
        /\ p[i - 1] + l[i - 1] + Full = eq[i - 1]
    BY <1>5, <1>7, <2>1
  <2>3. /\ p[i] = IF r[i] \in Nat \ {0} THEN p[i - 1] + r[i] ELSE p[i - 1]
        /\ l[i] = IF r[i] \in Int \ Nat THEN l[i - 1] + r[i] ELSE l[i - 1]
        /\ eq[i] = eq[i - 1] + r[i]
    BY <1>2, <1>3, <1>4 DEF SumsUp, Equities
  <2> QED
    BY <1>5, <2>1, <2>2, <2>3
<1>8. 0..n \subseteq Agree
  <2> HIDE DEF Agree, n
  <2> QED
    BY <1>1, <1>6, <1>7, SetInduction
<1>9. p[n] + l[n] + Full = eq[n]
  BY <1>1, <1>8
<1> QED
  BY <1>1, <1>2, <1>3, <1>4, <1>9

\* The local variables of _max_drawdown.
Drawdowns == [equity : Int, peak : Int, maximum : [loss : Int, peak : Int]]

\* An iteration of the loop, in full.
LEMMA DrawdownStepOf ==
    ASSUME NEW s \in Drawdowns, NEW v \in Int
    PROVE  LET t == DrawdownStep(s, v)
               e == [loss |-> t.peak - t.equity, peak |-> t.peak]
           IN /\ t \in Drawdowns
              /\ t.equity = s.equity + v
              /\ t.peak \in {s.peak, t.equity} /\ s.peak <= t.peak /\ t.equity <= t.peak
              /\ t.maximum = Deeper(s.maximum, e)
<1> DEFINE equity == s.equity + v
           peak == Max({s.peak, equity})
           e == [loss |-> peak - equity, peak |-> peak]
           t == DrawdownStep(s, v)
<1>1. s.equity \in Int /\ s.peak \in Int /\ s.maximum \in [loss : Int, peak : Int]
  BY DEF Drawdowns
<1>2. equity \in Int
  BY <1>1
<1> HIDE DEF equity
<1>3. peak \in {s.peak, equity} /\ s.peak <= peak /\ equity <= peak
  BY <1>1, <1>2, MaxOfTwo
<1>4. t = [equity |-> equity, peak |-> peak, maximum |-> Deeper(s.maximum, e)]
  BY DEF DrawdownStep, equity
<1> HIDE DEF peak
<1>5. e \in [loss : Int, peak : Int]
  BY <1>1, <1>2, <1>3
<1>6. Deeper(s.maximum, e) \in [loss : Int, peak : Int]
  <2> HIDE DEF e
  <2> QED
    BY <1>1, <1>5 DEF Deeper
<1> DEFINE m == Deeper(s.maximum, e)
<1> HIDE DEF m
<1>7. t = [equity |-> equity, peak |-> peak, maximum |-> m]
  BY <1>4 DEF m
<1>8. m \in [loss : Int, peak : Int]
  BY <1>6 DEF m
<1> HIDE DEF t
<1>9. t.equity = equity /\ t.peak = peak /\ t.maximum = m
  BY <1>7
<1>10. t \in Drawdowns
  <2>1. peak \in Int
    BY <1>1, <1>2, <1>3
  <2> QED
    BY <1>2, <1>7, <1>8, <2>1 DEF Drawdowns
<1>11. [loss |-> t.peak - t.equity, peak |-> t.peak] = e
  BY <1>9
<1>12. t.maximum = Deeper(s.maximum, [loss |-> t.peak - t.equity, peak |-> t.peak])
  BY <1>9, <1>11 DEF m
<1>13. t.equity = s.equity + v
  BY <1>9 DEF equity
<1> QED
  BY <1>3, <1>9, <1>10, <1>12, <1>13 DEF t

Draws(f, r) ==
    /\ f[0] = DrawdownStart(r)
    /\ \A i \in 1..Len(r) : f[i] = DrawdownStep(f[i - 1], r[i])

\* _max_drawdown goes through the returns one after the other.
LEMMA DrawdownSteps ==
    ASSUME NEW r \in Seq(Int)
    PROVE  \E f \in [0..Len(r) -> Drawdowns] :
             Draws(f, r) /\ MaxDrawdown(r) = f[Len(r)].maximum
<1> DEFINE op == [s \in Drawdowns |-> [v \in Int |-> DrawdownStep(s, v)]]
           n == Len(r)
           start == DrawdownStart(r)
           Folds(g) == g = [s \in SUBSET DOMAIN r |->
                              IF s = {} THEN start
                              ELSE DrawdownStep(g[s \ {Max(s)}], r[Max(s)])]
<1>1. n \in Nat /\ DOMAIN r = 1..n /\ \A i \in 1..n : r[i] \in Int
  OBVIOUS
<1>2. \A s \in Drawdowns, v \in Int : DrawdownStep(s, v) \in Drawdowns
  BY DrawdownStepOf
<1>3. op \in [Drawdowns -> [Int -> Drawdowns]]
  BY <1>2
<1>a. start \in Drawdowns
  BY DEF DrawdownStart, Drawdowns, Full
<1> HIDE DEF start
<1>4. PICK it \in [SUBSET DOMAIN r -> Drawdowns] : IsFold(it, start, r, op)
  <2> HIDE DEF op, Folds, n
  <2> QED
    BY <1>3, <1>a, FoldExists, Zenon
<1>5. Folds(it)
  <2>1. ASSUME NEW s \in SUBSET DOMAIN r, s # {}
        PROVE  op[it[s \ {Max(s)}]][r[Max(s)]] = DrawdownStep(it[s \ {Max(s)}], r[Max(s)])
    <3>1. s \subseteq 0..n
      BY <1>1
    <3>2. Max(s) \in 1..n
      <4> HIDE DEF n
      <4> QED
        BY <1>1, <2>1, <3>1, MaxOfBounded
    <3>3. r[Max(s)] \in Int /\ s \ {Max(s)} \in SUBSET DOMAIN r
      BY <1>1, <3>2
    <3>4. it[s \ {Max(s)}] \in Drawdowns
      BY <3>3
    <3> QED
      BY <3>3, <3>4
  <2> HIDE DEF op
  <2> QED
    BY <1>4, <2>1 DEF IsFold
<1> DEFINE g == CHOOSE g : Folds(g)
<1>6. MaxDrawdown(r) = g[DOMAIN r].maximum
  BY DEF MaxDrawdown, FoldLeft, MapThenFoldSet, start
<1>7. Folds(g)
  <2> HIDE DEF Folds
  <2> QED
    BY <1>5
<1> HIDE DEF g, op
<1> DEFINE f == [i \in 0..n |-> g[1..i]]
<1>8. f[0] = start
  <2>1. g[{}] = start
    BY <1>7
  <2>2. 1..0 = {} /\ 0 \in 0..n
    BY <1>1
  <2> QED
    BY <2>1, <2>2
<1>9. ASSUME NEW i \in 1..n PROVE f[i] = DrawdownStep(f[i - 1], r[i])
  <2>1. /\ Max(1..i) = i /\ (1..i) \ {i} = 1..(i - 1) /\ i \in 1..i
        /\ 1..i \in SUBSET (1..n)
    <3> HIDE DEF n
    <3> QED
      BY <1>1, PrefixSets
  <2>2. g[1..i] = DrawdownStep(g[(1..i) \ {Max(1..i)}], r[Max(1..i)])
    BY <1>1, <1>7, <2>1
  <2>3. g[1..i] = DrawdownStep(g[1..(i - 1)], r[i])
    BY <2>1, <2>2
  <2>4. i \in 0..n /\ i - 1 \in 0..n
    BY <1>1
  <2> QED
    BY <2>3, <2>4
<1> DEFINE Typed == {i \in 0..n : f[i] \in Drawdowns}
<1>10. 0..n \subseteq Typed
  <2>1. 0 \in Typed
    BY <1>1, <1>8, <1>a
  <2>2. ASSUME NEW i \in 1..n, i - 1 \in Typed PROVE i \in Typed
    <3> HIDE DEF f
    <3>1. r[i] \in Int /\ f[i - 1] \in Drawdowns /\ i \in 0..n
      BY <1>1, <2>2
    <3> QED
      BY <1>2, <1>9, <3>1
  <2> HIDE DEF Typed, n
  <2> QED
    BY <1>1, <2>1, <2>2, SetInduction
<1>11. f \in [0..n -> Drawdowns]
  BY <1>10
<1>12. MaxDrawdown(r) = f[n].maximum
  <2>1. n \in 0..n
    BY <1>1
  <2> QED
    BY <1>1, <1>6, <2>1
<1>13. Draws(f, r)
  <2> HIDE DEF f
  <2> QED
    BY <1>8, <1>9 DEF Draws, start
<1> HIDE DEF f
<1> QED
  BY <1>11, <1>12, <1>13

\* The fall from x to y is no deeper, in relation to x, than the drawdown d.
AtMost(d, x, y) == (x - y) * d.peak <= d.loss * x

\* How two falls compare, for equities that are not negative: a fall stays
\* below a drawdown that is replaced by a deeper one, and a fall from the peak
\* is the deepest one to the equity reached.
LEMMA FallsCompare ==
    ASSUME NEW x \in Int, NEW y \in Int, 0 <= x, NEW p \in Int, NEW q \in Int, 0 < p, 0 < q,
           NEW l \in Int, NEW m \in Int, (x - y) * p <= l * x, l * q <= m * p
    PROVE  (x - y) * q <= m * x
<1>1. ((x - y) * p) * q <= (l * x) * q
  OBVIOUS
<1>2. (l * q) * x <= (m * p) * x
  OBVIOUS
<1>3. ((x - y) * q) * p <= (m * x) * p
  <2>1. ((x - y) * q) * p = ((x - y) * p) * q
    OBVIOUS
  <2>2. (l * x) * q = (l * q) * x
    OBVIOUS
  <2>3. (m * p) * x = (m * x) * p
    OBVIOUS
  <2> QED
    BY <1>1, <1>2, <2>1, <2>2, <2>3
<1> QED
  BY <1>3

\* What the loop keeps up to position k.
DeepestAt(k, eq, f) ==
    /\ f[k].equity = eq[k]
    /\ \E i \in 0..k : f[k].peak = eq[i]
    /\ \A i \in 0..k : eq[i] <= f[k].peak
    /\ 0 < f[k].maximum.peak
    /\ \E i, j \in 0..k : /\ i <= j /\ f[k].maximum.peak = eq[i]
                          /\ f[k].maximum.loss = eq[i] - eq[j]
    /\ \A i, j \in 0..k : i <= j => AtMost(f[k].maximum, eq[i], eq[j])

\* One iteration keeps it.
LEMMA DeepestStep ==
    ASSUME NEW r \in Seq(Int), NEW eq, Equities(eq, r), \A i \in 0..Len(r) : 0 <= eq[i],
           NEW f \in [0..Len(r) -> Drawdowns], Draws(f, r),
           NEW k \in 1..Len(r), DeepestAt(k - 1, eq, f)
    PROVE  DeepestAt(k, eq, f)
<1> DEFINE n == Len(r)
           s == f[k - 1]
           t == f[k]
           d == s.maximum
           e == [loss |-> t.peak - t.equity, peak |-> t.peak]
<1>1. /\ n \in Nat /\ k \in 0..n /\ k - 1 \in 0..n /\ r[k] \in Int
      /\ 0..(k - 1) \subseteq 0..n /\ 0..k \subseteq 0..n /\ 0..k = (0..(k - 1)) \cup {k}
  OBVIOUS
<1>2. /\ s \in Drawdowns /\ t = DrawdownStep(s, r[k])
      /\ \A i \in 0..n : eq[i] \in Int /\ 0 <= eq[i]
      /\ eq[k] = eq[k - 1] + r[k]
  BY <1>1 DEF Draws, Equities
<1>3. /\ s.equity = eq[k - 1]
      /\ \E i \in 0..(k - 1) : s.peak = eq[i]
      /\ \A i \in 0..(k - 1) : eq[i] <= s.peak
      /\ 0 < d.peak
      /\ \E i, j \in 0..(k - 1) : i <= j /\ d.peak = eq[i] /\ d.loss = eq[i] - eq[j]
      /\ \A i, j \in 0..(k - 1) : i <= j => AtMost(d, eq[i], eq[j])
  BY DEF DeepestAt
<1>4. /\ t \in Drawdowns
      /\ t.equity = s.equity + r[k]
      /\ t.peak \in {s.peak, t.equity} /\ s.peak <= t.peak /\ t.equity <= t.peak
      /\ t.maximum = Deeper(d, e)
  <2> HIDE DEF s, t
  <2> QED
    BY <1>1, <1>2, DrawdownStepOf
<1>5. /\ s.peak \in Int /\ t.peak \in Int /\ t.equity \in Int
      /\ d.loss \in Int /\ d.peak \in Int
  BY <1>2, <1>4 DEF Drawdowns
<1>6. e.loss = t.peak - t.equity /\ e.peak = t.peak /\ e.loss \in Int /\ e.peak \in Int
  BY <1>5
<1> HIDE DEF s, t, d, e
<1>7. t.equity = eq[k]
  BY <1>2, <1>3, <1>4
<1>8. \E i \in 0..k : t.peak = eq[i]
  <2>1. CASE t.peak = s.peak
    BY <1>1, <1>3, <2>1
  <2>2. CASE t.peak = t.equity
    BY <1>1, <1>7, <2>2
  <2> QED
    BY <1>4, <2>1, <2>2
<1>9. \A i \in 0..k : eq[i] <= t.peak
  <2>1. ASSUME NEW i \in 0..(k - 1) PROVE eq[i] <= t.peak
    <3>1. eq[i] <= s.peak /\ eq[i] \in Int
      BY <1>1, <1>2, <1>3
    <3> QED
      BY <1>4, <1>5, <3>1
  <2>2. eq[k] <= t.peak
    BY <1>4, <1>7
  <2> QED
    BY <1>1, <2>1, <2>2
<1>10. 0 < t.peak /\ d.peak <= t.peak
  <2>1. PICK i \in 0..(k - 1) : d.peak = eq[i]
    BY <1>3
  <2>2. eq[i] <= t.peak
    BY <1>1, <1>9
  <2> QED
    BY <1>3, <1>5, <2>1, <2>2
<1>11. t.maximum = IF e.loss * d.peak > d.loss * e.peak THEN e ELSE d
  BY <1>4 DEF Deeper
<1>12. ASSUME NEW i \in 0..k, NEW j \in 0..k, i <= j
       PROVE  /\ eq[i] \in Int /\ eq[j] \in Int /\ 0 <= eq[i] /\ 0 <= eq[j]
              /\ eq[i] <= t.peak
              /\ j # k => AtMost(d, eq[i], eq[j])
  <2>1. /\ eq[i] \in Int /\ eq[j] \in Int /\ 0 <= eq[i] /\ 0 <= eq[j]
    BY <1>1, <1>2
  <2>2. j # k => i \in 0..(k - 1) /\ j \in 0..(k - 1)
    BY <1>1, <1>12
  <2> QED
    BY <1>3, <1>9, <1>12, <2>1, <2>2
<1>13. CASE e.loss * d.peak > d.loss * e.peak
  <2>1. t.maximum = e
    BY <1>11, <1>13
  <2>2. ASSUME NEW i \in 0..k, NEW j \in 0..k, i <= j PROVE AtMost(e, eq[i], eq[j])
    <3>1. /\ eq[i] \in Int /\ eq[j] \in Int /\ 0 <= eq[i] /\ 0 <= eq[j] /\ eq[i] <= t.peak
          /\ j # k => AtMost(d, eq[i], eq[j])
      BY <1>12, <2>2
    <3>2. CASE j = k
      <4> DEFINE x == eq[i]
                 y == eq[k]
                 top == t.peak
      <4>1. x \in Int /\ y \in Int /\ top \in Int /\ 0 <= y /\ x <= top
        BY <1>5, <3>1, <3>2
      <4> HIDE DEF x, y, top
      <4>2. y * x <= y * top
        BY <4>1
      <4>3. (x - y) * top <= (top - y) * x
        BY <4>1, <4>2
      <4> QED
        BY <1>6, <1>7, <3>2, <4>3 DEF AtMost, x, y, top
    <3>3. CASE j # k
      <4> DEFINE x == eq[i]
                 y == eq[j]
                 p == d.peak
                 q == e.peak
                 l == d.loss
                 m == e.loss
      <4>1. x \in Int /\ y \in Int /\ 0 <= x /\ p \in Int /\ q \in Int /\ 0 < p /\ 0 < q
            /\ l \in Int /\ m \in Int
        BY <1>3, <1>5, <1>6, <1>10, <3>1
      <4>2. (x - y) * p <= l * x
        BY <3>1, <3>3 DEF AtMost
      <4>3. l * q <= m * p
        <5>1. m * p > l * q
          BY <1>13
        <5> HIDE DEF l, q, m, p
        <5>2. m * p \in Int /\ l * q \in Int
          BY <4>1
        <5> QED
          BY <5>1, <5>2
      <4> HIDE DEF x, y, p, q, l, m
      <4>4. (x - y) * q <= m * x
        BY <4>1, <4>2, <4>3, FallsCompare
      <4> QED
        BY <4>4 DEF x, y, q, m, AtMost
    <3> QED
      BY <3>2, <3>3
  <2>3. \E i, j \in 0..k : i <= j /\ e.peak = eq[i] /\ e.loss = eq[i] - eq[j]
    <3>1. PICK i \in 0..k : t.peak = eq[i]
      BY <1>8
    <3>2. k \in 0..k /\ i <= k
      BY <1>1
    <3> QED
      BY <1>6, <1>7, <3>1, <3>2
  <2> QED
    BY <1>6, <1>7, <1>8, <1>9, <1>10, <2>1, <2>2, <2>3 DEF DeepestAt, t
<1>14. CASE ~(e.loss * d.peak > d.loss * e.peak)
  <2>1. t.maximum = d
    BY <1>11, <1>14
  <2>2. (t.peak - eq[k]) * d.peak <= d.loss * t.peak
    <3>1. e.loss * d.peak \in Int /\ d.loss * e.peak \in Int
      BY <1>5, <1>6
    <3>2. e.loss * d.peak <= d.loss * e.peak
      BY <1>14, <3>1
    <3> QED
      BY <1>6, <1>7, <3>2
  <2>3. 0 <= d.peak - d.loss
    <3>1. PICK i \in 0..(k - 1), j \in 0..(k - 1) : d.peak = eq[i] /\ d.loss = eq[i] - eq[j]
      BY <1>3
    <3>2. eq[i] \in Int /\ eq[j] \in Int /\ 0 <= eq[j]
      BY <1>1, <1>2
    <3> QED
      BY <3>1, <3>2
  <2>4. ASSUME NEW i \in 0..k, NEW j \in 0..k, i <= j PROVE AtMost(d, eq[i], eq[j])
    <3>1. /\ eq[i] \in Int /\ eq[j] \in Int /\ 0 <= eq[i] /\ 0 <= eq[j] /\ eq[i] <= t.peak
          /\ j # k => AtMost(d, eq[i], eq[j])
      BY <1>12, <2>4
    <3>2. CASE j = k
      <4> DEFINE x == eq[i]
                 y == eq[k]
                 p == d.peak
                 l == d.loss
                 top == t.peak
      <4>1. /\ x \in Int /\ y \in Int /\ p \in Int /\ l \in Int /\ top \in Int
            /\ x <= top /\ 0 <= p - l /\ (top - y) * p <= l * top
        BY <1>5, <2>2, <2>3, <3>1, <3>2
      <4> HIDE DEF x, y, p, l, top
      <4>2. x * (p - l) <= top * (p - l)
        BY <4>1
      <4>3. top * (p - l) <= y * p
        BY <4>1
      <4>4. (x - y) * p <= l * x
        BY <4>1, <4>2, <4>3
      <4> QED
        BY <3>2, <4>4 DEF x, y, p, l, AtMost
    <3>3. CASE j # k
      BY <3>1, <3>3
    <3> QED
      BY <3>2, <3>3
  <2>5. \E i, j \in 0..k : i <= j /\ d.peak = eq[i] /\ d.loss = eq[i] - eq[j]
    BY <1>1, <1>3
  <2> QED
    BY <1>3, <1>7, <1>8, <1>9, <2>1, <2>4, <2>5 DEF DeepestAt, t
<1> QED
  BY <1>13, <1>14

\* The maximum drawdown is the deepest fall of the equity from an earlier value,
\* the starting one included, for every sequence of returns that never takes
\* the equity below zero.
THEOREM DrawdownIsDeepest ==
    ASSUME NEW r \in Seq(Int), NEW eq, Equities(eq, r), \A i \in 0..Len(r) : 0 <= eq[i]
    PROVE  LET d == MaxDrawdown(r)
           IN /\ \A i, j \in 0..Len(r) : i <= j => AtMost(d, eq[i], eq[j])
              /\ \E i, j \in 0..Len(r) : /\ i <= j /\ d.peak = eq[i]
                                         /\ d.loss = eq[i] - eq[j]
<1> DEFINE n == Len(r)
<1>1. n \in Nat /\ n \in 0..n
  OBVIOUS
<1>2. PICK f \in [0..n -> Drawdowns] : Draws(f, r) /\ MaxDrawdown(r) = f[n].maximum
  BY DrawdownSteps
<1> DEFINE Good == {k \in 0..n : DeepestAt(k, eq, f)}
<1>3. 0 \in Good
  <2>1. f[0].equity = Full /\ f[0].peak = Full /\ f[0].maximum = [loss |-> 0, peak |-> Full]
    BY <1>2 DEF Draws, DrawdownStart
  <2>2. eq[0] = Full /\ Full = 10000 /\ 0..0 = {0} /\ 0 \in 0..n
    BY <1>1 DEF Equities, Full
  <2>3. f[0].maximum.loss = 0 /\ f[0].maximum.peak = 10000
    BY <2>1, <2>2
  <2>4. \A i, j \in 0..0 : i <= j => AtMost(f[0].maximum, eq[i], eq[j])
    BY <2>2, <2>3 DEF AtMost
  <2>5. \E i, j \in 0..0 : /\ i <= j /\ f[0].maximum.peak = eq[i]
                           /\ f[0].maximum.loss = eq[i] - eq[j]
    BY <2>2, <2>3
  <2>6. DeepestAt(0, eq, f)
    BY <2>1, <2>2, <2>3, <2>4, <2>5 DEF DeepestAt
  <2> QED
    BY <2>2, <2>6
<1>4. ASSUME NEW k \in 1..n, k - 1 \in Good PROVE k \in Good
  <2>1. DeepestAt(k - 1, eq, f) /\ k \in 0..n
    BY <1>1, <1>4
  <2>2. DeepestAt(k, eq, f)
    BY <1>2, <2>1, DeepestStep
  <2> QED
    BY <2>1, <2>2
<1>5. 0..n \subseteq Good
  <2> HIDE DEF Good, n
  <2> QED
    BY <1>1, <1>3, <1>4, SetInduction
<1>6. DeepestAt(n, eq, f)
  BY <1>1, <1>5
<1> QED
  BY <1>2, <1>6 DEF DeepestAt

\* No plan loses more than its boundary, of one of five parts of the equity.
LEMMA ResultsBounded ==
    ASSUME StreamInv, candles # <<>>, NEW n \in DOMAIN Plans
    PROVE  LET res == RunBacktest(Case(Plans[n], "CONSERVATIVE", candles))
           IN /\ res.leveraged \in Int /\ -300 <= res.leveraged
              /\ res.outcome \in {"TARGET", "STOP", "EXPIRED"}
<1> DEFINE p == Plans[n]
           case == Case(p, "CONSERVATIVE", candles)
           res == RunBacktest(case)
           i == FirstOf(TouchedBars(p, candles))
           last == Len(candles)
<1>1. n \in 1..5
  BY DEF Plans
<1>2. /\ p.entry = 2000 /\ p.boundary \in Int /\ p.boundary <= 2012
      /\ p.objective \in Int /\ p.objective <= 2012 /\ p.multiplier \in 1..5
  BY <1>1 DEF Plans, Plan
<1> HIDE DEF p
<1>3. /\ last \in Nat \ {0} /\ last \in 1..last
      /\ \A k \in 1..last : /\ candles[k].close \in Int /\ candles[k].high \in Int
                            /\ candles[k].close <= candles[k].high
  <2>1. candles \in Seq(Ohlcv)
    BY DEF StreamInv
  <2>2. \A k \in 1..last : candles[k] \in Ohlcv /\ candles[k].close <= candles[k].high
    BY <2>1 DEF StreamInv, Sane
  <2>3. last \in Nat \ {0}
    BY <2>1
  <2>4. last \in 1..last
    BY <2>3
  <2>5. \A k \in 1..last : candles[k].close \in Int /\ candles[k].high \in Int
    BY <2>2 DEF Ohlcv
  <2> HIDE DEF last
  <2> QED
    BY <2>2, <2>3, <2>4, <2>5
<1>4. case.plan = p /\ case.bars = candles
  BY DEF Case
<1>5. FirstTouch(case) = i
  BY <1>4, FirstTouchIsFirst
<1>6. i = 0 => candles[last].close <= 2012
  <2> SUFFICES ASSUME i = 0 PROVE candles[last].close <= 2012
    OBVIOUS
  <2>1. TouchedBars(p, candles) \subseteq 1..last
    BY DEF TouchedBars
  <2>2. TouchedBars(p, candles) = {}
    BY <1>3, <2>1, FirstIndex
  <2>3. ~(candles[last].high >= p.boundary)
    BY <1>3, <2>2 DEF TouchedBars, Touched, StopTouched
  <2> QED
    BY <1>2, <1>3, <2>3
<1> HIDE DEF case, i
<1>7. \E x \in Int :
        /\ x <= 2012 /\ res.leveraged = (((2000 - x) * 10000) \div 2000) * p.multiplier
        /\ res.outcome \in {"TARGET", "STOP", "EXPIRED"}
  <2>1. CASE i = 0
    <3>1. /\ res.leveraged = (((2000 - candles[last].close) * 10000) \div 2000) * p.multiplier
          /\ res.outcome = "EXPIRED"
      BY <1>2, <1>4, <1>5, <2>1 DEF RunBacktest, BuildResult
    <3>2. candles[last].close \in Int /\ candles[last].close <= 2012
      BY <1>3, <1>6, <2>1
    <3> QED
      BY <3>1, <3>2
  <2>2. CASE i # 0 /\ StopsFirst(case, candles[i])
    <3>1. /\ res.leveraged = (((2000 - p.boundary) * 10000) \div 2000) * p.multiplier
          /\ res.outcome = "STOP"
      BY <1>2, <1>4, <1>5, <2>2 DEF RunBacktest, BuildResult
    <3> QED
      BY <1>2, <3>1
  <2>3. CASE i # 0 /\ ~StopsFirst(case, candles[i])
    <3>1. /\ res.leveraged = (((2000 - p.objective) * 10000) \div 2000) * p.multiplier
          /\ res.outcome = "TARGET"
      BY <1>2, <1>4, <1>5, <2>3 DEF RunBacktest, BuildResult
    <3> QED
      BY <1>2, <3>1
  <2> QED
    BY <2>1, <2>2, <2>3
<1> HIDE DEF res, last
<1>8. PICK x \in Int :
        /\ x <= 2012 /\ res.leveraged = (((2000 - x) * 10000) \div 2000) * p.multiplier
        /\ res.outcome \in {"TARGET", "STOP", "EXPIRED"}
  BY <1>7
<1>10. ((2000 - x) * 10000) \div 2000 = (2000 - x) * 5
  OBVIOUS
<1> DEFINE ret == (2000 - x) * 5
<1>11. ret \in Int /\ -60 <= ret
  BY <1>8
<1> HIDE DEF ret
<1>12. ret * p.multiplier \in Int /\ -300 <= ret * p.multiplier
  <2>1. CASE p.multiplier = 1
    BY <1>11, <2>1
  <2>2. CASE p.multiplier = 2
    BY <1>11, <2>2
  <2>3. CASE p.multiplier = 3
    BY <1>11, <2>3
  <2>4. CASE p.multiplier = 4
    BY <1>11, <2>4
  <2>5. CASE p.multiplier = 5
    BY <1>11, <2>5
  <2> QED
    BY <1>2, <2>1, <2>2, <2>3, <2>4, <2>5
<1>13. res.leveraged = ret * p.multiplier
  BY <1>8, <1>10 DEF ret
<1>14. res.leveraged \in Int /\ -300 <= res.leveraged /\ res.outcome \in {"TARGET", "STOP", "EXPIRED"}
  BY <1>8, <1>12, <1>13
<1> QED
  BY <1>14 DEF res, case, p

\* Every outcome counts once.
LEMMA CountsAddUp ==
    ASSUME NEW n \in Nat, NEW o \in [1..n -> {"TARGET", "STOP", "EXPIRED"}]
    PROVE  Cardinality({i \in 1..n : o[i] = "TARGET"}) + Cardinality({i \in 1..n : o[i] = "STOP"})
             + Cardinality({i \in 1..n : o[i] = "EXPIRED"}) = n
<1> DEFINE A == {i \in 1..n : o[i] = "TARGET"}
           B == {i \in 1..n : o[i] = "STOP"}
           C == {i \in 1..n : o[i] = "EXPIRED"}
<1>1. IsFiniteSet(1..n) /\ Cardinality(1..n) = n
  BY FS_Interval
<1>2. IsFiniteSet(A) /\ IsFiniteSet(B) /\ IsFiniteSet(C) /\ IsFiniteSet(A \cup B)
  <2>1. A \subseteq 1..n /\ B \subseteq 1..n /\ C \subseteq 1..n /\ A \cup B \subseteq 1..n
    OBVIOUS
  <2> HIDE DEF A, B, C
  <2> QED
    BY <1>1, <2>1, FS_Subset
<1>3. A \cap B = {} /\ (A \cup B) \cap C = {} /\ (A \cup B) \cup C = 1..n
  OBVIOUS
<1> HIDE DEF A, B, C
<1>4. /\ Cardinality(A) \in Nat /\ Cardinality(B) \in Nat /\ Cardinality(C) \in Nat
      /\ Cardinality(A \cup B) \in Nat
  BY <1>2, FS_CardinalityType
<1>5. Cardinality(A \cup B) = Cardinality(A) + Cardinality(B) - Cardinality(A \cap B)
  BY <1>2, FS_Union
<1>6. Cardinality((A \cup B) \cup C)
        = Cardinality(A \cup B) + Cardinality(C) - Cardinality((A \cup B) \cap C)
  BY <1>2, FS_Union
<1>7. Cardinality({}) = 0
  BY FS_EmptySet
<1>8. Cardinality(A) + Cardinality(B) + Cardinality(C) = n
  <2>a. Cardinality(A \cap B) = 0 /\ Cardinality((A \cup B) \cap C) = 0
    BY <1>3, <1>7, Zenon
  <2>b. Cardinality((A \cup B) \cup C) = n
    BY <1>1, <1>3, Zenon
  <2>1. Cardinality(A \cup B) = Cardinality(A) + Cardinality(B)
    BY <1>4, <1>5, <2>a
  <2>2. n = Cardinality(A \cup B) + Cardinality(C)
    BY <1>4, <1>6, <2>a, <2>b
  <2> QED
    BY <1>4, <2>1, <2>2
<1> QED
  BY <1>8 DEF A, B, C

\* The equity of few enough plans stays above zero.
LEMMA EquityPositive ==
    ASSUME NEW r \in Seq(Int), Len(r) <= 33, \A i \in 1..Len(r) : -300 <= r[i],
           NEW eq, Equities(eq, r)
    PROVE  \A i \in 0..Len(r) : 0 <= eq[i]
<1> DEFINE n == Len(r)
           Enough == {i \in 0..n : 10000 - 300 * i <= eq[i]}
<1>1. /\ n \in Nat /\ \A i \in 1..n : r[i] \in Int /\ -300 <= r[i]
  OBVIOUS
<1>2. /\ eq \in [0..n -> Int] /\ eq[0] = 10000
      /\ \A i \in 1..n : eq[i] = eq[i - 1] + r[i]
  BY DEF Equities, Full
<1>3. 0 \in Enough
  BY <1>1, <1>2
<1>4. ASSUME NEW i \in 1..n, i - 1 \in Enough PROVE i \in Enough
  <2>1. i \in 0..n /\ i - 1 \in 0..n /\ r[i] \in Int /\ -300 <= r[i]
    BY <1>1
  <2>2. eq[i] = eq[i - 1] + r[i] /\ eq[i - 1] \in Int /\ 10000 - 300 * (i - 1) <= eq[i - 1]
    <3>1. eq[i] = eq[i - 1] + r[i]
      BY <1>2
    <3>2. eq[i - 1] \in Int
      <4>1. \A k \in 0..n : eq[k] \in Int
        <5> HIDE DEF n
        <5> QED
          BY <1>2
      <4> QED
        BY <2>1, <4>1, Zenon
    <3>3. 10000 - 300 * (i - 1) <= eq[i - 1]
      BY <1>4
    <3> QED
      BY <3>1, <3>2, <3>3
  <2>3. 10000 - 300 * i <= eq[i]
    BY <2>1, <2>2
  <2> QED
    BY <2>1, <2>3
<1>5. 0..n \subseteq Enough
  <2> HIDE DEF Enough, n
  <2> QED
    BY <1>1, <1>3, <1>4, SetInduction
<1>6. ASSUME NEW i \in 0..n PROVE 0 <= eq[i]
  <2>1. i \in Enough /\ eq[i] \in Int
    BY <1>2, <1>5
  <2> QED
    BY <1>1, <2>1
<1> QED
  BY <1>6

\* The metrics of the five plans on every stream: the drawdown is the deepest
\* fall and the counts and sums add up.
THEOREM DrawdownCorrect == Spec => []DrawdownIsDeepestFall
<1>1. StreamInv => DrawdownIsDeepestFall
  <2> SUFFICES ASSUME StreamInv, candles # <<>> PROVE DrawdownIsDeepestFall
    BY DEF DrawdownIsDeepestFall
  <2> DEFINE res == Results("CONSERVATIVE", candles)
             r == [i \in DOMAIN res |-> res[i].leveraged]
             o == [i \in 1..5 |-> res[i].outcome]
             m == BuildMetrics(res)
             d == m.max_drawdown
  <2>1. DOMAIN res = 1..5 /\ Len(res) = 5
    BY DEF Results, Plans
  <2>2. ASSUME NEW i \in 1..5
        PROVE  /\ res[i].leveraged \in Int /\ -300 <= res[i].leveraged
               /\ res[i].outcome \in {"TARGET", "STOP", "EXPIRED"}
    <3>1. i \in DOMAIN Plans /\ res[i] = RunBacktest(Case(Plans[i], "CONSERVATIVE", candles))
      BY DEF Results, Plans
    <3> HIDE DEF res
    <3> QED
      BY <3>1, ResultsBounded
  <2> HIDE DEF res
  <2>3. r \in Seq(Int) /\ Len(r) = 5 /\ \A i \in 1..5 : -300 <= r[i]
    BY <2>1, <2>2
  <2>4. o \in [1..5 -> {"TARGET", "STOP", "EXPIRED"}]
    BY <2>2
  <2>5. /\ m.total = 5
        /\ m.targets = Cardinality({i \in 1..5 : res[i].outcome = "TARGET"})
        /\ m.stops = Cardinality({i \in 1..5 : res[i].outcome = "STOP"})
        /\ m.expired = Cardinality({i \in 1..5 : res[i].outcome = "EXPIRED"})
        /\ m.returns = r
        /\ m.gross_profit = SumOf(r, Nat \ {0}) /\ m.gross_loss = -SumOf(r, Int \ Nat)
        /\ m.max_drawdown = MaxDrawdown(r)
    BY <2>1 DEF BuildMetrics
  <2> HIDE DEF r, m
  <2>6. PICK eq : Equities(eq, r) /\ \A i \in 0..Len(r) : Full + SumOf(Take(r, i), Int) = eq[i]
    BY <2>3, EquityOf
  <2>7. \A i \in 0..Len(r) : 0 <= eq[i]
    <3>1. Len(r) <= 33 /\ \A i \in 1..Len(r) : -300 <= r[i]
      BY <2>3
    <3> QED
      BY <2>3, <2>6, <3>1, EquityPositive
  <2>8. /\ \A i, j \in 0..Len(r) : i <= j => AtMost(d, eq[i], eq[j])
        /\ \E i, j \in 0..Len(r) : i <= j /\ d.peak = eq[i] /\ d.loss = eq[i] - eq[j]
    <3> DEFINE x == MaxDrawdown(r)
    <3>1. /\ \A i, j \in 0..Len(r) : i <= j => AtMost(x, eq[i], eq[j])
          /\ \E i, j \in 0..Len(r) : i <= j /\ x.peak = eq[i] /\ x.loss = eq[i] - eq[j]
      BY <2>3, <2>6, <2>7, DrawdownIsDeepest
    <3>2. d = x
      BY <2>5
    <3> HIDE DEF x, d
    <3> QED
      BY <3>1, <3>2
  <2>9. m.targets + m.stops + m.expired = m.total
    <3>1. Cardinality({i \in 1..5 : o[i] = "TARGET"}) + Cardinality({i \in 1..5 : o[i] = "STOP"})
            + Cardinality({i \in 1..5 : o[i] = "EXPIRED"}) = 5
      BY <2>4, CountsAddUp
    <3>2. \A x : {i \in 1..5 : o[i] = x} = {i \in 1..5 : res[i].outcome = x}
      OBVIOUS
    <3> QED
      BY <2>5, <3>1, <3>2
  <2>10. m.gross_profit - m.gross_loss + Full = Full + SumOf(Take(r, m.total), Int)
    <3>1. SumOf(r, Nat \ {0}) + SumOf(r, Int \ Nat) + Full = Full + SumOf(Take(r, Len(r)), Int)
      BY <2>3, ProfitsAndLosses
    <3>2. SumOf(r, Nat \ {0}) \in Int /\ SumOf(r, Int \ Nat) \in Int
      <4>1. \A counted : SumOf(r, counted) \in Int
        <5> TAKE counted
        <5>1. PICK f \in [0..Len(r) -> Int] : SumOf(r, counted) = f[Len(r)]
          BY <2>3, SumSteps
        <5> QED
          BY <2>3, <5>1
      <4> QED
        BY <4>1
    <3> QED
      BY <2>3, <2>5, <3>1, <3>2
  <2> DEFINE equity(i) == Full + SumOf(Take(m.returns, i), Int)
             N == 0..Len(m.returns)
             falls == {p \in N \X N : p[1] <= p[2]}
  <2>11. \A i \in N : equity(i) = eq[i] /\ eq[i] \in Int
    BY <2>3, <2>5, <2>6 DEF Equities
  <2>12. N = 0..Len(r)
    BY <2>5
  <2> HIDE DEF equity, N, d
  <2>13. \A p \in falls : (equity(p[1]) - equity(p[2])) * d.peak <= d.loss * equity(p[1])
    BY <2>8, <2>11, <2>12 DEF AtMost
  <2>14. \E p \in falls : (equity(p[1]) - equity(p[2])) * d.peak = d.loss * equity(p[1])
    <3>1. PICK i \in N, j \in N : i <= j /\ d.peak = eq[i] /\ d.loss = eq[i] - eq[j]
      BY <2>8, <2>12
    <3>2. <<i, j>> \in falls
      BY <3>1
    <3>3. (equity(i) - equity(j)) * d.peak = d.loss * equity(i)
      BY <2>11, <3>1
    <3> QED
      BY <3>2, <3>3
  <2> QED
    BY <2>5, <2>9, <2>10, <2>13, <2>14 DEF DrawdownIsDeepestFall, equity, N, d, m, res
<1> QED
  BY <1>1, StreamCorrect, PTL

----------------------------------------------------------------------------
(* The events of the zone *)

\* The candles of a stream for the events have one of its shapes.
Shaped(c) ==
    \E shape \in EventShapes : /\ c.open = shape.open /\ c.high = shape.high
                               /\ c.low = shape.low /\ c.close = shape.close
ShapedInv == subject = "events" => \A i \in 1..Len(candles) : Shaped(candles[i])

\* Streams keep their shapes.
THEOREM ShapedCorrect == Spec => []ShapedInv
<1>1. Init => ShapedInv
  BY DEF Init, ShapedInv
<1>2. StreamInv /\ ShapedInv /\ [Next]_vars => ShapedInv'
  <2> SUFFICES ASSUME StreamInv, ShapedInv, [Next]_vars, subject' = "events" PROVE ShapedInv'
    BY DEF ShapedInv
  <2>1. CASE Next
    <3>1. subject = "events"
      BY <2>1 DEF Next, Close
    <3>2. PICK shape \in EventShapes : Close(shape)
      BY <2>1, <3>1 DEF Next
    <3> DEFINE c == [open |-> shape.open, high |-> shape.high, low |-> shape.low,
                     close |-> shape.close, volume |-> shape.volume,
                     open_time |-> Len(candles) + Offset,
                     close_time |-> Len(candles) + Offset + 1]
    <3>3. candles' = Append(candles, c)
      BY <3>2 DEF Close
    <3>4. Shaped(c)
      BY DEF Shaped
    <3> HIDE DEF c
    <3>5. candles \in Seq(Ohlcv) /\ Len(candles) \in Nat
      BY DEF StreamInv
    <3>6. /\ Len(candles') = Len(candles) + 1 /\ candles'[Len(candles) + 1] = c
          /\ \A i \in 1..Len(candles) : candles'[i] = candles[i]
      BY <3>3, <3>5
    <3>7. \A i \in 1..Len(candles') : i \in 1..Len(candles) \/ i = Len(candles) + 1
      BY <3>5, <3>6
    <3>8. \A i \in 1..Len(candles') : Shaped(candles'[i])
      BY <3>1, <3>4, <3>6, <3>7 DEF ShapedInv
    <3> QED
      BY <3>8 DEF ShapedInv, Shaped
  <2>2. CASE UNCHANGED vars
    BY <2>2 DEF vars, ShapedInv, Shaped
  <2> QED
    BY <2>1, <2>2
<1> QED
  BY <1>1, <1>2, StreamCorrect, PTL DEF Spec

\* What the run calls strong is what the code confirms, by the rules it is
\* stated for.
LEMMA StrongConfirms ==
    ASSUME MinBreakDistance = 10, MinBreakBody = 4500, NEW c, Shaped(c)
    PROVE  ConfirmsBreak(Zone, c) <=>
                /\ c.close <= 1998
                /\ 100 * (IF c.open > c.close THEN c.open - c.close ELSE c.close - c.open)
                     >= 45 * (c.high - c.low)
<1>1. PICK shape \in EventShapes : /\ c.open = shape.open /\ c.high = shape.high
                                   /\ c.low = shape.low /\ c.close = shape.close
  BY DEF Shaped
<1>2. Zone.low = 2000
  BY DEF Zone
<1>3. ConfirmsBreak(Zone, c) <=> /\ c.close < 2000
                                 /\ (2000 - c.close) * 10000 >= 20000
                                 /\ BodyFraction(c) >= 4500
  BY <1>2 DEF ConfirmsBreak, ClosesBelow, AtLeastBps
<1>4. CASE shape = Bar(2007, 2010, 1990, 1998, 1)
  <2>1. c.open = 2007 /\ c.high = 2010 /\ c.low = 1990 /\ c.close = 1998
    BY <1>1, <1>4 DEF Bar
  <2>2. BodyFraction(c) = Quantized(90000, 20)
    BY <2>1 DEF BodyFraction, Body, Magnitude
  <2>3. Quantized(90000, 20) = 4500
    BY DEF Quantized
  <2> QED
    BY <1>3, <2>1, <2>2, <2>3
<1>5. CASE shape = Bar(1996, 2010, 1990, 1995, 1)
  <2>1. c.open = 1996 /\ c.high = 2010 /\ c.low = 1990 /\ c.close = 1995
    BY <1>1, <1>5 DEF Bar
  <2>2. BodyFraction(c) = Quantized(10000, 20)
    BY <2>1 DEF BodyFraction, Body, Magnitude
  <2>3. Quantized(10000, 20) = 500
    BY DEF Quantized
  <2> QED
    BY <1>3, <2>1, <2>2, <2>3
<1>6. CASE shape \notin {Bar(2007, 2010, 1990, 1998, 1), Bar(1996, 2010, 1990, 1995, 1)}
  <2>1. c.close \in {1999, 2000, 2010, 2011}
    BY <1>1, <1>6 DEF EventShapes, Bar
  <2> QED
    BY <1>3, <2>1
<1> QED
  BY <1>4, <1>5, <1>6

\* The bars are candles of the stream in their order.
LEMMA BarsOfStream ==
    ASSUME StreamInv
    PROVE  /\ Bars \in Seq(Ohlcv) /\ Len(Bars) \in Nat /\ DOMAIN Bars = 1..Len(Bars)
           /\ \A i \in 1..Len(Bars) : /\ \E k \in 1..Len(candles) : Bars[i] = candles[k]
                                      /\ Bars[i].open_time \in Int
           /\ \A i, k \in 1..Len(Bars) : i < k => Bars[i].open_time < Bars[k].open_time
<1> DEFINE late == Indices(candles, LAMBDA c : c.open_time >= Zone.confirmed_at)
<1>1. Bars = Kept(candles, late)
  BY DEF Bars, Relevant
<1>2. candles \in Seq(Ohlcv) /\ Len(candles) \in Nat /\ Offset \in {0, 1}
  BY DEF StreamInv, Offset
<1> HIDE DEF late
<1>3. Bars \in Seq(Ohlcv)
  BY <1>1, <1>2, KeptElements
<1>4. PICK pos \in [1..Len(Bars) -> 1..Len(candles)] :
        /\ \A m \in 1..Len(Bars) : Bars[m] = candles[pos[m]]
        /\ \A l, m \in 1..Len(Bars) : l < m => pos[l] < pos[m]
  BY <1>1, <1>2, KeptElements
<1>5. \A k \in 1..Len(candles) : candles[k].open_time = k - 1 + Offset
  BY DEF StreamInv
<1>6. Len(Bars) \in Nat /\ DOMAIN Bars = 1..Len(Bars)
  BY <1>3
<1> HIDE DEF Bars
<1>7. \A m \in 1..Len(Bars) : Bars[m].open_time = pos[m] - 1 + Offset /\ pos[m] \in Int
  BY <1>4, <1>5
<1>8. \A i \in 1..Len(Bars) : \E k \in 1..Len(candles) : Bars[i] = candles[k]
  BY <1>4
<1>9. \A i, k \in 1..Len(Bars) : i < k => Bars[i].open_time < Bars[k].open_time
  BY <1>2, <1>4, <1>7
<1>10. \A i \in 1..Len(Bars) : Bars[i].open_time \in Int
  BY <1>2, <1>7
<1> QED
  BY <1>3, <1>6, <1>8, <1>9, <1>10

\* The reference of the run says the same as the one of the theorem.
LEMMA HappenedOccurs ==
    ASSUME StreamInv, ShapedInv, subject = "events",
           MinBreakDistance = 10, MinBreakBody = 4500
    PROVE  Happened = {h \in Facts(Len(Bars)) :
                         Occurs(h, BelowBars(Zone, Bars), BreakBars(Zone, Bars),
                                AboveBars(Zone, Bars))}
<1> DEFINE n == Len(Bars)
           N == 1..n
           B == BelowBars(Zone, Bars)
           K == BreakBars(Zone, Bars)
           A == AboveBars(Zone, Bars)
<1>1. n \in Nat /\ DOMAIN Bars = N
  BY BarsOfStream
<1>2. \A i \in N : Shaped(Bars[i])
  BY BarsOfStream DEF ShapedInv
<1>3. /\ \A i \in N : Below(i) <=> i \in B
      /\ \A i \in N : Strong(i) <=> i \in K
      /\ \A i \in N : Bars[i].close > Zone.high <=> i \in A
  <2>1. \A i \in N : Strong(i) <=> i \in K
    <3> SUFFICES ASSUME NEW i \in N PROVE Strong(i) <=> i \in K
      OBVIOUS
    <3>1. i \in K <=> ConfirmsBreak(Zone, Bars[i])
      BY DEF BreakBars
    <3>2. Shaped(Bars[i])
      BY <1>2
    <3>3. Strong(i) <=> ConfirmsBreak(Zone, Bars[i])
      BY <3>2, StrongConfirms DEF Strong
    <3> QED
      BY <3>1, <3>3
  <2> QED
    BY <2>1 DEF Below, BelowBars, AboveBars, ClosesBelow, ClosesAbove
<1> HIDE DEF B, K, A
<1>4. \A i \in N : /\ \A k \in 1..i : k \in N
                   /\ \A k \in 1..(i - 1) : k \in N
                   /\ \A j \in N : \A k \in (i + 1)..(j - 1) : k \in N
  BY <1>1
<1>5. \A i \in N : TooOld(i) <=> Ages(B, K, i)
  BY <1>3, <1>4 DEF TooOld, Ages
<1>6. \A i \in N : Undecided(i) <=> Open(B, K, i)
  BY <1>3, <1>4, <1>5 DEF Undecided, Open
<1>7. \A i \in N : Breaks(i) <=> Broke(B, K, i)
  BY <1>3, <1>6 DEF Breaks, Broke
<1>8. \A k \in N : Bars[k].close <= Zone.high <=> k \notin A
  <2>1. \A k \in N : Bars[k].close \in Int
    <3>1. \A k \in N : Bars[k] \in Ohlcv
      BY <1>1, BarsOfStream
    <3> QED
      BY <3>1 DEF Ohlcv
  <2>2. Zone.high \in Int
    BY DEF Zone
  <2> QED
    BY <1>3, <2>1, <2>2
<1>9. \A i, k \in N : Reclaims(i, k) <=> TakesBack(B, K, A, i, k)
  <2> SUFFICES ASSUME NEW i \in N, NEW k \in N
               PROVE  Reclaims(i, k) <=> TakesBack(B, K, A, i, k)
    OBVIOUS
  <2>1. (\A m \in (i + 1)..(k - 1) : Bars[m].close <= Zone.high)
          <=> \A m \in (i + 1)..(k - 1) : m \notin A
    BY <1>4, <1>8
  <2>2. k > i <=> i < k
    BY <1>1
  <2> QED
    BY <1>3, <1>7, <2>1, <2>2 DEF Reclaims, TakesBack
<1> DEFINE P == {Fact("PENDING_BREAK", i, 0) :
                    i \in {k \in N : /\ Below(k) /\ ~Strong(k) /\ Undecided(k)
                                     /\ \A m \in 1..(k - 1) : ~Below(m)}}
           C == {Fact("CONFIRMED_BREAK", i, 0) : i \in {k \in N : Breaks(k)}}
           I == {Fact("INVALIDATED", i, 0) : i \in {k \in N : TooOld(k) /\ Undecided(k)}}
           T == {Fact(IF p[2] - p[1] <= FakeBreakMaxBars THEN "FAKE_BREAK" ELSE "RECLAIMED",
                      p[2], p[1]) : p \in {q \in N \X N : Reclaims(q[1], q[2])}}
<1>10. Happened = P \cup C \cup I \cup T
  BY <1>1 DEF Happened, Fact
<1>11. \A h \in Facts(n) : /\ h.at \in N /\ h.to \in 0..n /\ h.state \in EventStates
                           /\ h = Fact(h.state, h.at, h.to)
  BY DEF Facts, Fact
<1>12. \A state \in EventStates, i \in N, to \in 0..n :
         /\ Fact(state, i, to) \in Facts(n) /\ Fact(state, i, to).at = i
         /\ Fact(state, i, to).state = state /\ Fact(state, i, to).to = to
  BY DEF Facts, Fact
<1>13. /\ {"PENDING_BREAK", "CONFIRMED_BREAK", "INVALIDATED", "FAKE_BREAK", "RECLAIMED"}
             \subseteq EventStates
       /\ 0 \in 0..n /\ \A i \in N : i \in 0..n /\ i # 0
  BY <1>1 DEF EventStates
<1>14. ASSUME NEW h \in P PROVE h \in Facts(n) /\ Occurs(h, B, K, A)
  <2>1. PICK i \in N : /\ h = Fact("PENDING_BREAK", i, 0)
                       /\ Below(i) /\ ~Strong(i) /\ Undecided(i)
                       /\ \A m \in 1..(i - 1) : ~Below(m)
    BY <1>14
  <2> HIDE DEF N
  <2> QED
    BY <1>3, <1>4, <1>6, <1>12, <1>13, <2>1 DEF Occurs
<1>15. ASSUME NEW h \in C PROVE h \in Facts(n) /\ Occurs(h, B, K, A)
  BY <1>7, <1>12, <1>13, <1>15 DEF Occurs
<1>16. ASSUME NEW h \in I PROVE h \in Facts(n) /\ Occurs(h, B, K, A)
  BY <1>5, <1>6, <1>12, <1>13, <1>16 DEF Occurs
<1>17. ASSUME NEW h \in T PROVE h \in Facts(n) /\ Occurs(h, B, K, A)
  <2>1. PICK i \in N, k \in N :
          /\ h = Fact(ReclaimState(k - i), k, i) /\ Reclaims(i, k)
    BY <1>17 DEF ReclaimState
  <2>2. ReclaimState(k - i) \in EventStates
    BY <1>13 DEF ReclaimState
  <2> HIDE DEF N
  <2> QED
    BY <1>9, <1>12, <1>13, <2>1, <2>2 DEF Occurs
<1>18. ASSUME NEW h \in Facts(n), Occurs(h, B, K, A) PROVE h \in P \cup C \cup I \cup T
  <2>1. h.at \in N /\ h = Fact(h.state, h.at, h.to)
    BY <1>11
  <2>2. CASE /\ h.state = "PENDING_BREAK" /\ h.to = 0 /\ h.at \in B \ K
             /\ Open(B, K, h.at) /\ \A m \in 1..(h.at - 1) : m \notin B
    <3>1. /\ Below(h.at) /\ ~Strong(h.at) /\ Undecided(h.at)
          /\ \A m \in 1..(h.at - 1) : ~Below(m)
      BY <1>3, <1>4, <1>6, <2>1, <2>2
    <3>2. h \in P
      BY <2>1, <2>2, <3>1
    <3> QED
      BY <3>2
  <2>3. CASE h.state = "CONFIRMED_BREAK" /\ h.to = 0 /\ Broke(B, K, h.at)
    <3>1. h \in C
      BY <1>7, <2>1, <2>3
    <3> QED
      BY <3>1
  <2>4. CASE h.state = "INVALIDATED" /\ h.to = 0 /\ Ages(B, K, h.at) /\ Open(B, K, h.at)
    <3>1. h \in I
      BY <1>5, <1>6, <2>1, <2>4
    <3> QED
      BY <3>1
  <2>5. CASE /\ h.to # 0 /\ TakesBack(B, K, A, h.to, h.at)
             /\ h.state = ReclaimState(h.at - h.to)
    <3>1. h.to \in N
      BY <1>1, <1>11, <2>5
    <3>2. Reclaims(h.to, h.at)
      BY <1>9, <2>1, <2>5, <3>1
    <3> DEFINE p == <<h.to, h.at>>
    <3>3. p \in N \X N /\ p[1] = h.to /\ p[2] = h.at
      BY <2>1, <3>1
    <3>4. h = Fact(IF p[2] - p[1] <= FakeBreakMaxBars THEN "FAKE_BREAK" ELSE "RECLAIMED",
                   p[2], p[1])
      BY <2>1, <2>5, <3>3 DEF ReclaimState
    <3> HIDE DEF p
    <3>5. h \in T
      BY <3>2, <3>3, <3>4
    <3> QED
      BY <3>5
  <2> QED
    BY <1>18, <2>2, <2>3, <2>4, <2>5 DEF Occurs
<1> HIDE DEF P, C, I, T
<1> QED
  BY <1>10, <1>14, <1>15, <1>16, <1>17, <1>18 DEF B, K, A

\* EventsMatchPrices on every stream, by the rules its strong closes are
\* written for, which are the defaults of StructureEventRules.
THEOREM EventsCorrect ==
    ASSUME MinBreakDistance = 10, MinBreakBody = 4500
    PROVE  Spec => []EventsMatchPrices
<1>1. StreamInv /\ ShapedInv => EventsMatchPrices
  <2> SUFFICES ASSUME StreamInv, ShapedInv, subject = "events" PROVE EventsMatchPrices
    BY DEF EventsMatchPrices
  <2> DEFINE n == Len(Bars)
             events == BuildStructureEvents(Zone, candles)
             bar(time) == CHOOSE i \in DOMAIN Bars : Bars[i].open_time = time
             seen(e) == [state |-> e.state, at |-> bar(e.open_time),
                         to |-> IF e.invalidates = None THEN 0 ELSE bar(e.invalidates[2])]
  <2>1. candles \in Seq(Ohlcv)
    BY DEF StreamInv
  <2>2. /\ events \in Seq(EventsOf(Zone, Bars))
        /\ \E hs : Telling(hs, Zone, Bars, events, n)
    BY <2>1, EventsTell DEF Bars
  <2> HIDE DEF events
  <2>3. PICK hs : Telling(hs, Zone, Bars, events, n)
    BY <2>2
  <2>4. /\ n \in Nat /\ DOMAIN Bars = 1..n
        /\ \A i \in 1..n : Bars[i].open_time \in Int
        /\ \A i, k \in 1..n : i < k => Bars[i].open_time < Bars[k].open_time
    BY BarsOfStream
  <2>5. \A i \in 1..n : bar(Bars[i].open_time) = i
    <3> SUFFICES ASSUME NEW i \in 1..n PROVE bar(Bars[i].open_time) = i
      OBVIOUS
    <3>1. \A k \in 1..n : Bars[k].open_time = Bars[i].open_time => k = i
      BY <2>4
    <3> QED
      BY <2>4, <3>1
  <2>6. /\ hs \in Seq(Facts(n)) /\ Len(events) = Len(hs) /\ Len(hs) \in Nat
        /\ DOMAIN events = 1..Len(hs) /\ \A m \in 1..Len(hs) : hs[m] \in Facts(n)
        /\ \A m \in 1..Len(hs) : events[m] = EventTelling(Zone, Bars, hs[m])
        /\ \A l, m \in 1..Len(hs) : l < m => hs[l].at < hs[m].at
    BY <2>2, <2>3 DEF Telling
  <2>7. Happened = {hs[m] : m \in 1..Len(hs)}
    <3>1. \A h \in Facts(n) :
            Occurs(h, BelowBars(Zone, Bars), BreakBars(Zone, Bars), AboveBars(Zone, Bars))
            <=> \E m \in 1..Len(hs) : h = hs[m]
      <4>1. \A h \in Facts(n) : h.at <= n
        BY <2>4 DEF Facts
      <4> QED
        BY <2>3, <4>1 DEF Telling
    <3> QED
      BY <2>6, <3>1, HappenedOccurs
  <2>8. \A h \in Facts(n) : /\ h.at \in 1..n /\ h.to \in 0..n
                            /\ h = [state |-> h.state, at |-> h.at, to |-> h.to]
    BY DEF Facts
  <2>9. ASSUME NEW h \in Facts(n)
        PROVE  /\ seen(EventTelling(Zone, Bars, h)) = h
               /\ EventTelling(Zone, Bars, h).open_time = Bars[h.at].open_time
    <3> DEFINE e == EventTelling(Zone, Bars, h)
               id == EventId(Zone, Bars[h.to], "CONFIRMED_BREAK")
    <3>1. /\ e.state = h.state /\ e.open_time = Bars[h.at].open_time
          /\ e.invalidates = IF h.to = 0 THEN None ELSE id
      BY DEF EventTelling, Event
    <3>2. bar(e.open_time) = h.at
      BY <2>5, <2>8, <3>1
    <3>3. CASE h.to = 0
      <4>1. e.invalidates = None
        BY <3>1, <3>3
      <4> HIDE DEF e, bar
      <4>2. seen(e) = [state |-> h.state, at |-> h.at, to |-> h.to]
        BY <3>1, <3>2, <3>3, <4>1
      <4> QED
        BY <2>8, <3>1, <4>2 DEF e
    <3>4. CASE h.to # 0
      <4>1. h.to \in 1..n
        BY <2>4, <2>8, <3>4
      <4>2. id = <<"zone", Bars[h.to].open_time, "CONFIRMED_BREAK">>
        BY DEF EventId, Zone
      <4>3. Bars[h.to].open_time \in Int /\ bar(Bars[h.to].open_time) = h.to
        BY <2>4, <2>5, <4>1
      <4>4. id \in {Zone.id} \X Int \X EventStates /\ id[2] = Bars[h.to].open_time
        <5>1. "CONFIRMED_BREAK" \in EventStates
          BY DEF EventStates
        <5>2. Zone.id = "zone"
          BY DEF Zone
        <5> HIDE DEF id
        <5> QED
          BY <4>2, <4>3, <5>1, <5>2
      <4>5. id # None
        BY <4>4, IdAssumption
      <4>6. e.invalidates = id
        BY <3>1, <3>4
      <4> HIDE DEF e, id, bar
      <4>7. seen(e) = [state |-> h.state, at |-> h.at, to |-> h.to]
        BY <3>1, <3>2, <4>3, <4>4, <4>5, <4>6
      <4> QED
        BY <2>8, <3>1, <4>7 DEF e
    <3> QED
      BY <3>3, <3>4
  <2> HIDE DEF seen, n
  <2>10. \A m \in 1..Len(hs) : /\ seen(events[m]) = hs[m]
                               /\ events[m].open_time = Bars[hs[m].at].open_time
    BY <2>6, <2>9
  <2>11. {seen(events[m]) : m \in DOMAIN events} = Happened
    BY <2>6, <2>7, <2>10
  <2>12. \A l, m \in DOMAIN events : l < m => events[l].open_time < events[m].open_time
    <3> SUFFICES ASSUME NEW l \in 1..Len(hs), NEW m \in 1..Len(hs), l < m
                 PROVE  events[l].open_time < events[m].open_time
      BY <2>6
    <3>1. hs[l].at \in 1..n /\ hs[m].at \in 1..n /\ hs[l].at < hs[m].at
      BY <2>6, <2>8
    <3>2. Bars[hs[l].at].open_time < Bars[hs[m].at].open_time
      BY <2>4, <3>1
    <3> QED
      BY <2>10, <3>2
  <2> QED
    BY <2>11, <2>12 DEF EventsMatchPrices, seen, events
<1> QED
  BY <1>1, StreamCorrect, ShapedCorrect, PTL

----------------------------------------------------------------------------
(* The pivots of a stream *)

\* Pivots resume, on every stream and however many candles have left the batch
\* when the next one closes: from the first pivot that both runs of _find_pivots
\* use they use the same ones, but for the newest, which a lower one may replace.
THEOREM PivotsCorrect == Spec => PivotsResume
<1> DEFINE Resumes(a, b) ==
        LET old == ToSet(FindPivots(a))
        IN \A n \in 0..Len(a) :
             LET new == SlidPivots(b, n)
             IN \A p \in old \cap new :
                  /\ \A q \in old : q > p =>
                       \/ q \in new
                       \/ /\ q = Max(old)
                          /\ \E r \in new : r > q /\ b[r].low < a[q].low
                  /\ \A q \in new : p < q /\ q <= Max(old) => q \in old
<1>1. ASSUME NEW a \in Seq(Ohlcv), NEW c \in Ohlcv PROVE Resumes(a, Append(a, c))
  <2> DEFINE b == Append(a, c)
             old == ToSet(FindPivots(a))
  <2> SUFFICES ASSUME NEW n \in 0..Len(a), NEW p \in old \cap SlidPivots(b, n)
               PROVE  LET new == SlidPivots(b, n)
                      IN /\ \A q \in old : q > p =>
                              \/ q \in new
                              \/ q = Max(old) /\ \E r \in new : r > q /\ b[r].low < a[q].low
                         /\ \A q \in new : p < q /\ q <= Max(old) => q \in old
    OBVIOUS
  <2>1. SlidPivots(b, n) = Slid(n, ToSet(FindPivots(SubSeq(b, n + 1, Len(b)))))
    BY DEF SlidPivots, Slid
  <2>2. p \in ToSet(FindPivots(a)) /\ p \in Slid(n, ToSet(FindPivots(SubSeq(b, n + 1, Len(b)))))
    BY <2>1
  <2>3. LET new == Slid(n, ToSet(FindPivots(SubSeq(b, n + 1, Len(b)))))
        IN /\ \A q \in old : q > p =>
                \/ q \in new
                \/ q = Max(old) /\ \E r \in new : r > q /\ b[r].low < a[q].low
           /\ \A q \in new : p < q /\ q <= Max(old) => q \in old
    <3> HIDE DEF old
    <3>1. p \in ToSet(FindPivots(a))
      BY <2>2
    <3>2. p \in Slid(n, ToSet(FindPivots(SubSeq(Append(a, c), n + 1, Len(Append(a, c))))))
      BY <2>2
    <3> QED
      BY <3>1, <3>2, PivotsOfSlidBatch DEF old
  <2> QED
    BY <2>1, <2>3, Zenon
<1> HIDE DEF Resumes
<1>2. StreamInv /\ [Next]_vars => [subject = "zones" => Resumes(candles, candles')]_vars
  <2> SUFFICES ASSUME StreamInv, Next PROVE Resumes(candles, candles')
    OBVIOUS
  <2>1. PICK shape \in ZoneShapes \cup EventShapes \cup BreakShapes : Close(shape)
    BY DEF Next
  <2>2. PICK c \in Ohlcv : candles' = Append(candles, c)
    BY <2>1, CloseAppends
  <2>3. candles \in Seq(Ohlcv)
    BY DEF StreamInv
  <2> QED
    BY <1>1, <2>2, <2>3
<1>3. Spec => [][subject = "zones" => Resumes(candles, candles')]_vars
  BY <1>2, StreamCorrect, PTL DEF Spec
<1> QED
  BY <1>3 DEF PivotsResume, Resumes

----------------------------------------------------------------------------
(* The zones of a stream *)

\* Prices for which any padding is at least a tick.
PricedInv == subject = "zones" => \A i \in 1..Len(candles) : candles[i].low >= 100000

\* The streams for the zones keep their prices.
THEOREM PricedCorrect == Spec => []PricedInv
<1>1. Init => PricedInv
  BY DEF Init, PricedInv
<1>2. StreamInv /\ PricedInv /\ [Next]_vars => PricedInv'
  <2> SUFFICES ASSUME StreamInv, PricedInv, [Next]_vars, subject' = "zones" PROVE PricedInv'
    BY DEF PricedInv
  <2>1. CASE Next
    <3>1. subject = "zones"
      BY <2>1 DEF Next, Close
    <3>2. PICK shape \in ZoneShapes : Close(shape)
      BY <2>1, <3>1 DEF Next
    <3> DEFINE c == [open |-> shape.open, high |-> shape.high, low |-> shape.low,
                     close |-> shape.close, volume |-> shape.volume,
                     open_time |-> Len(candles) + Offset,
                     close_time |-> Len(candles) + Offset + 1]
    <3>3. candles' = Append(candles, c)
      BY <3>2 DEF Close
    <3>4. c.low >= 100000
      BY DEF ZoneShapes, Bar
    <3> HIDE DEF c
    <3>5. candles \in Seq(Ohlcv) /\ Len(candles) \in Nat
      BY DEF StreamInv
    <3>6. /\ Len(candles') = Len(candles) + 1 /\ candles'[Len(candles) + 1] = c
          /\ \A i \in 1..Len(candles) : candles'[i] = candles[i]
      BY <3>3, <3>5
    <3>7. \A i \in 1..Len(candles') : i \in 1..Len(candles) \/ i = Len(candles) + 1
      BY <3>5, <3>6
    <3> QED
      BY <3>1, <3>4, <3>6, <3>7 DEF PricedInv
  <2>2. CASE UNCHANGED vars
    BY <2>2 DEF vars, PricedInv
  <2> QED
    BY <2>1, <2>2
<1> QED
  BY <1>1, <1>2, StreamCorrect, PTL DEF Spec

\* Zones are backed by their evidence, on every stream, for every padding of at
\* least a basis point and less than the price.
THEOREM ZonesCorrect ==
    ASSUME 0 < ZonePadding, ZonePadding < 10000
    PROVE  Spec => []ZoneEvidenced
<1>1. StreamInv /\ PricedInv => ZoneEvidenced
  <2> SUFFICES ASSUME StreamInv, PricedInv, subject = "zones" PROVE ZoneEvidenced
    BY DEF ZoneEvidenced
  <2> DEFINE zones == DeriveSupportZones(candles)
  <2>1. /\ candles \in Seq(Ohlcv) /\ Len(candles) \in Nat
        /\ DOMAIN candles = 1..Len(candles) /\ Offset = 0
    BY DEF StreamInv, Offset
  <2>2. Chronicle(candles)
    <3>1. \A i \in 1..Len(candles) : IsCandle(candles[i])
      BY <2>1 DEF StreamInv, Sane, IsCandle
    <3>2. \A i, k \in 1..Len(candles) : i < k => candles[i].open_time < candles[k].open_time
      BY <2>1 DEF StreamInv
    <3> QED
      BY <2>1, <3>1, <3>2 DEF Chronicle
  <2>3. ClosesInOrder(candles)
    BY <2>1 DEF StreamInv, ClosesInOrder
  <2>4. Padded(candles)
    <3>1. ASSUME NEW i \in 1..Len(candles) PROVE candles[i].low * ZonePadding >= 10000
      <4>1. candles[i].low \in Int /\ candles[i].low >= 100000
        BY <2>2, CandleFields DEF PricedInv
      <4> DEFINE v == candles[i].low
      <4> HIDE DEF v
      <4>2. v \in Nat /\ ZonePadding - 1 \in Nat
        BY <4>1, ZoneRulesAssumption DEF v
      <4>3. v * (ZonePadding - 1) \in Nat /\ v * ZonePadding = v + v * (ZonePadding - 1)
        BY <4>2, ZoneRulesAssumption
      <4>4. v * ZonePadding >= 10000
        BY <4>1, <4>2, <4>3 DEF v
      <4> QED
        BY <4>4 DEF v
    <3> QED
      BY <3>1 DEF Padded
  <2>5. \A n \in DOMAIN zones :
          /\ BackedZone(candles, zones[n]) /\ IsZone(zones[n])
          /\ \A m \in DOMAIN zones : m # n => zones[n].evidence \cap zones[m].evidence = {}
    BY <2>2, <2>3, <2>4, ZonesBacked
  <2> HIDE DEF zones
  <2>6. ASSUME NEW z PROVE Touches(z) = EvidenceOf(candles, z)
    BY DEF Touches, EvidenceOf
  <2>7. \A i : Around(i) = Window(i)
    BY DEF Around, Window
  <2>8. ASSUME NEW z, BackedZone(candles, z), IsZone(z)
        PROVE  (z.high - z.low) * 20000 <= MaxZoneWidth * (z.high + z.low)
    <3>1. z.low \in Int /\ z.high \in Int
      BY <2>8 DEF BackedZone
    <3>2. 2 * (z.high - z.low) * 10000 <= MaxZoneWidth * (z.low + z.high)
      BY <2>8 DEF IsZone
    <3> DEFINE width == z.high - z.low
               room == MaxZoneWidth * (z.low + z.high)
    <3>3. width \in Int /\ room \in Int /\ 2 * width * 10000 <= room
      BY <3>1, <3>2, ZoneRulesAssumption
    <3>4. room = MaxZoneWidth * (z.high + z.low)
      BY <3>1
    <3> HIDE DEF width, room
    <3>5. width * 20000 <= room
      BY <3>3
    <3> QED
      BY <3>4, <3>5 DEF width
  <2>9. ASSUME NEW n \in DOMAIN zones
        PROVE  LET z == zones[n]
               IN /\ IsSupportZone(z) /\ Cardinality(Touches(z)) = z.touch_count
                  /\ z.confirmed_at <= Last(candles).close_time
                  /\ \A i \in Touches(z) :
                       /\ Around(i) \subseteq DOMAIN candles
                       /\ \A k \in Around(i) : /\ candles[i].low <= candles[k].low
                                               /\ candles[k].close_time <= z.confirmed_at
                       /\ z.low < candles[i].low /\ candles[i].low < z.high
                       /\ \A k \in Touches(z) \ {i} : Magnitude(i - k) >= TouchSeparation
                  /\ (z.high - z.low) * 20000 <= MaxZoneWidth * (z.high + z.low)
                  /\ \A m \in DOMAIN zones : m # n => z.evidence \cap zones[m].evidence = {}
    <3>1. BackedZone(candles, zones[n]) /\ IsZone(zones[n])
      BY <2>5
    <3>2. Touches(zones[n]) = EvidenceOf(candles, zones[n])
      BY <2>6
    <3> QED
      BY <2>5, <2>7, <2>8, <3>1, <3>2 DEF BackedZone
  <2> QED
    BY <2>9 DEF ZoneEvidenced, zones
<1> QED
  BY <1>1, StreamCorrect, PricedCorrect, PTL
==============================================================================
