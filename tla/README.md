# Dumpectorist in TLA+

Dumpectorist watches public market data, derives structural evidence for short setups
from closed candles and assembles audited signal reports. It never places an order. This
directory models the parts of `src/app` whose correctness depends on order, failure,
staleness or boundaries; TLC checks them on small instances and TLAPS proves all but a few
of the safety properties for every value of their constants: those of the runtime, the
worker, the cache, the exchange adapters, the lifecycle, the assembly, the backtest and the
engines, and what a request to the evidence tables may rest on.

`PROJECT.json` lists the components, the runs, for every property a mutation of the code
that breaks it, for every definition the source lines it stands for, the hazards and the
theorems.

    tlc -workers 2 -config MC_orchestrator.cfg MCRuntimeOrchestrator
    tlapm RuntimeWorker_proofs.tla

## The system

| Component | State | Operations | Model |
|---|---|---|---|
| Runtime orchestrator (`runtime/scheduler.py`, `runtime/store.py`) | `_next_run_at`, `_in_flight`, the coroutines of each gather; rows of `domain_records` | `run_due`, `_run_job`, `persist_payload`, `persist_failure` | `RuntimeOrchestrator` |
| Worker (`worker.py`, `runtime/supervisor.py`, `telemetry.py`, `retention.py`) | stop event, `_next_cleanup_at`, failure counters | `run_cycle`, `observe`, `cleanup`, signals, restart | `RuntimeWorker` |
| Source cache and discovery adapters (`adapters/source_cache.py`, `discovery_base.py`, `coingecko.py`, `dex_screener.py`) | cache entries, deque of request times | `get`, `set`, `clear`, `acquire`, `request_json`, `fetch_batch`, `load` | `SourceCache` |
| Exchange adapters (`adapters/lbank*.py`, `benchmark_*.py`, the four venues, `http_client.py`) | the requests of a running load | `fetch_snapshot`, `load` | `SnapshotAdapter` |
| Candles (`candles/`, `adapters/bybit_kline.py`) | batches, `ohlcv_candles` | `fetch_batch`, freshness, `upsert_batch`, `list_recent` | `Candles`, `EvidenceStore` |
| Support zones (`structure/support_zones.py`, `htf_engine.py`) | none; zones of one batch | `derive_support_zones`, `analyze_higher_timeframe` | `SupportZones` |
| Structure events (`structure/structure_events.py`) | none; events of one zone | `build_structure_events`, `evidence_from_events` | `StructureEvents` |
| Reclaim engine (`setups/reclaim_engine.py`) | none | `analyze_reclaim_attempt` | `ReclaimEngine` |
| Evidence tables and providers (`setups/runtime_*.py`, `atomic_runtime_store.py`, repositories, `signals/*_provider.py`) | `support_zones`, `structure_events`, `reclaim_attempts` | the H4 and M15 transactions, `load`, `build_request` | `EvidenceStore` |
| Cross-exchange consensus (`execution/`, `adapters/benchmark_health.py`) | none | `validate_lbank_execution`, `evaluate_benchmark_health`, `build_cross_exchange_consensus` | `CrossExchange` |
| Signal assembly (`signals/service.py`, `pipeline.py`, `store.py`) | rows of `domain_records` | `assemble_signal`, `assemble_and_persist` | `SignalAssembly` |
| Planning, flow, classifier, analyzer | none | decision tables of the gates | in `SignalAssembly` |
| Lifecycle (`lifecycle/`) | immutable record | create, advance, activate, close | `Lifecycle` |
| Backtest (`backtest/`) | none | `run_backtest`, `build_metrics` | `Backtest` |
| Registry, overview, API, notifications, ops, watchlist | none or read-only | | not modelled |

How they interact: the worker calls `run_due` in a loop; each due job loads an adapter
(through the cache and the budget for discovery) under a timeout and hands the payload to
the store, which writes all rows of the run in one transaction. For a structure job the
same transaction derives the zones, runs the event and reclaim engines and upserts their
results. Later, and
in another session, the evidence providers read the tables to build a request; the
assembly runs it through eleven gates, stores the report and hands out a lifecycle record.

What is hard about it:

- coroutines interleave at every await: overlapping calls of `run_due`, concurrent cache
  misses, requests of one snapshot answered at different moments, signals that arrive in the
  middle of a gather;
- every external call may fail, hang into its timeout or fail after it took effect;
- the wall clock may step back, and the process may be killed between two steps;
- evidence, the zones it refers to included, is recomputed in every run from a sliding batch
  and merged into tables by identifier, while other jobs and readers see the tables between
  the runs;
- verdicts hinge on boundaries (bars since the break, basis points, ages, medians).

`PROJECT.json` lists the hazards one by one, at their lines.

## The modules

`RuntimeOrchestrator`. A step is what the event loop runs between two awaits. `RunDue` is
the claim under `_state_lock`, which never awaits; `StartLoad`, `StartRaises`,
`LoadReturns`, `LoadFails`, `StoreCommits`, `StoreRaises` and `Release` are the paths
through `_run_job` with both handlers and the `finally` clause; `Return` is the end of the
gather. `run[c][j].pc` says where a coroutine is suspended. A store call may raise before
the commit or after it. Rows carry job, run number, type and state; payloads are left out.
`Tick` and `ClockStepsBack` move the wall clock in any way.

`JobScheduler` is what all this promises, without coroutines, locks, timeouts or
transactions: a job runs at most once at a time, a run is recorded at most once, the
outcome a caller gets is the recorded one or says that recording failed, and every run
ends. `RuntimeOrchestrator` instantiates it with the in-flight set as the running jobs,
the `worker_run` rows as the record (`RecordedRuns`) and the finished coroutines of each
gather as the outcomes not yet given (`WaitingOutcomes`); `ImplementsJobScheduler` is the
refinement of its safety part, `EveryRunEnds` its promise that every run ends.

`RuntimeWorker` extends it with one caller, the supervisor: `StartCycle`, `JobRuns`,
`CycleObserves`, `Cleanup` and `Wake` follow `run_cycle` and `run`; `Signal`, `Crash`,
`Restart` and `Environment`, the wall clock, come from outside. A crash loses everything but
the rows. A transaction is one step, so that a kill between two of its inserts leaves no row
by the promise of the database, not by a check of this model. A row is stamped with the clock
when it is flushed (`created_at`); the cutoff of the cleanup is computed from the reading with
which the cycle began, and the clock may have been set back since. `TrueTime`, which never
goes back, is kept beside it (`written_at`) to say how long a row has really lived.

`SourceCache`: `ServeHit`, `RefuseBudget` and `Send` are what `request_json` does before
its await, `Answer` and `Abort` what it does after it; other clients run in between. A
document is the time at which the service produced it and whether every record of it
parses. `Pruned` is the deque after the `popleft` loop of `acquire`, which drops the old
entries at its head. `ReturnsBatch` and `ReturnsFailure` are the rest of `load`: the batch and its
`fetched_at`, or the state of the failure.

`SnapshotAdapter`: one of the five exchange adapters and the loads the worker makes of it.
`Start` sends the requests of `fetch_snapshot`, `Receive` is an answer in the gather,
`Complete` the last one, with parsing, book, dating and latency; `RequestRaises` ends the
gather while the other requests go on, `Cancel` is the `wait_for` around the load. The HTTP
timeout limits each wait of a request and not the request: every piece of an answer
(`OrphanProgress`) starts it anew, and a request that nobody waits for any more ends
(`OrphanEnds`) when its answer is complete or a piece is overdue. `MaxPieces` bounds how many
pieces an answer has after its load has failed; the code has no such bound. The adapters
differ in the requests they send, in the answers they date the snapshot by and in the contract
size. The snapshot is then judged by the gates of `CrossExchange`, which the module extends.

`Candles`, `SupportZones`, `StructureEvents`, `ReclaimEngine` and `Backtest` are the
algorithms as operators: folds over the candles for pivots, clusters, the event scan and
the drawdown, index searches for the engine and the backtest, as in the code. Prices are
integers, fractions are compared in ten-thousandths with the code's quantization.
`MCAnalyses` feeds all of them one closed candle at a time.

`EvidenceStore` composes zones, events and verdicts with the tables: the market closes
candles, the H4 and the M15 job commit runs whose answers may be older than the market, each
deriving everything again from its batch, and a caller reads the zone, then the event
(`ReadZone`, `LoadHtf`), and in another session the attempts (`BuildRequest`); commits come
between any two of them. The model begins after the first H4 run on the history, with what
that run has stored. `RunM15` is one step, although the code awaits its queries one after the
other: no commit of the H4 job comes between them. The exchange sends the candle that is still
open; the adapter reads its clock after the answer, `MaxDelay` candles later at most, and
drops what is open then; this delay is modelled for the H4 job, the M15 job reads its clock
with the answer. Identifiers are the tuples that the code hashes; where a query's order leaves
a tie, any row is chosen.

`CrossExchange` and `SignalAssembly`: the functions of a request and of `now`, with the
gates as one operator (`GateState`), which of them return (`Returns`) and with which
status (`StatusOf`). `Assemble`, `AssembleRaises`, `Persist` and `PersistRaises` are the
steps of `assemble_and_persist`; a caller that got an exception calls again, at any time.
The record of a returned report goes on through the actions of `Lifecycle`, which the
module extends; that the composition implements the specification of `Lifecycle` is a
property of the run. Ratios are compared without division, twice the median stands for
the median; the rounding of `Decimal` at 28 digits is not modelled.

`Lifecycle` leaves the times of its calls to the callers, so late and out-of-order calls
are included. A call that raises leaves the record alone.

`*_proofs` modules hold the theorems; `MC*` modules and `.cfg` files the instances.

## The runs

| Run | Instance | What it shows |
|---|---|---|
| `orchestrator` | two jobs (intervals 1 and 2, delays 0 and 1), two callers, clock to 1, fair | `JobExclusion`, `InFlightIsActive`, `OutcomeTimesOrdered`, `RunRecordedOnce`, `OutcomeIsStored`, `ClaimsSpaced` over every overlap of two gathers and every failure; `ImplementsJobScheduler` (refinement); `EveryRunEnds` and `DueJobRuns` (liveness) |
| `worker` | one structure job, two runs, one crash, clock to 2 and set back by up to 2, retention 1 | `GracefulExit`, `RecordsWhole`, `RetentionSpares`, `CleanupsSpaced` |
| `worker_stop` | one job, three runs, threshold 1, clock not set back, fair | `AlertOncePerStreak` against a definition over the whole history; `StopTerminates` (liveness) |
| `cache` | two clients, two keys, budget 2 in a window of 2, TTL 2, timeout 1 | `BudgetHolds`, `BatchIsRecent` |
| `snapshots` | all five adapters, three books in any order, two contract sizes, loads every 4, load timeout 2, HTTP timeout 1 per wait, one piece, clock to 5 | `AcceptedIsRecent`, `SnapshotIsItsAnswers`, `OrphansBounded` |
| `assembly` | a sound request, its variations, all sequences of up to three benchmark snapshots, five times, two calls | `ReadyIffBacked`, `GateTrail`, `StoredPairAgrees`, `DatedByWindow`, `OnlyForward`, `ImplementsLifecycle` |
| `analyses` | every stream of eight candles of four shapes (zones), six of six (events, backtest of five plans), six of eight (verdict, H4 and M15) | `ZoneEvidenced`, `PivotsResume` (the batch loses any number of candles when one closes); `EventsMatchPrices` against a definition over closing prices; `PolicyOnlyInConflicts`, `ResolvedStands`, `DrawdownIsDeepestFall`; `CancelledIffReclaimed`, `VerdictEvidenced`, `DecisionsStand` |
| `evidence` | four histories of five or six H4 candles, then four M15 candles of four prices, two of which make an H4 candle, batches of seven H4 candles, answers up to one candle late, lookup of two candles | `ReclaimedBreakNotRequested`, `RequestEvidenced`, `TableIsAnalysis`, `RecentBreakJudged` |
| `evidence_open` | as `evidence`, the clock read up to one candle after the answer | finding 3 |
| `evidence_invalidated` | as `evidence` | finding 1 |
| `evidence_cancel` | six M15 candles, three per H4 candle, M15 batches of three | finding 2 |
| `evidence_window` | as `evidence`, batches of six H4 candles, no lag | finding 4 |

Why the bounds are enough for the cases of interest. Two callers are what an overlap needs,
and two jobs let one caller's gather hold a job the other one is due for; clock 1 lets the job
of interval 1 become due again while it runs; a claim after a longer overrun is left to the
proof of `ClaimsSpaced`. Three runs with threshold 1 hold a streak longer than the threshold,
and two streaks with a reset between them. A window with two requests and four time units sees
requests enter and leave it. Two loads of an adapter fit into the clock of `snapshots`, so
that requests left by the first are still out when the second runs. Six candles hold a break,
an attempt, a rejection, a trigger and what follows, and all eight outcomes of the engine
occur; eight hold pivots that replace each other, and lows that count only once an earlier
pivot has left the batch. Two zones do not fit into eight candles with the separation of
touches of this run: that no low backs two zones is left to the proof of `ZoneEvidenced`. A
row that is older than the retention and one that is not, stamped before and after the clock
is set back, fit into the clock of `worker`, and so does a setback larger than the period
within a cycle. The histories of `evidence` are a zone that is intact, being tested, or just
broken, by a low that joins the zone's pivots in a later run or by one that does not, and
batches of seven candles slide past the first of them: both ways of deriving a zone anew
happen. Candle shapes and prices, quotes and snapshots sit on both sides of, and on, each
threshold. The request times of `assembly` are before, at and after each age limit. The bounds
`MaxTime`, `MaxRuns`, `MaxCrashes`, `MaxSetBack`, `MaxCandles`, `MaxZoneCandles`, `MaxLag`,
`MaxDelay`, `MaxAttempts` and `MaxPieces` cap what is unbounded in the program, and nothing
else. `evidence` has `MaxDelay` 0, since with a delay the tables can hold the prices of an
open candle, which is finding 3.

Deadlock is not checked where the environment's bounded input simply ends (streams of
candles, clocks at their last value, runs, one request) and where a process may exit.

### Fairness

`FairSpec` and `FairWorkerSpec` assume that the event loop runs every coroutine that can
run, that callers keep calling `run_due` (as `run_forever` and the supervisor do), that a
load ends (the code puts `wait_for` around it) and that a database call returns or raises.
The last one is an assumption about the driver: the store calls have no timeout, and a call
that never came back would keep its job in flight and its cycle from ending. There is no
fairness for clocks, signals or crashes. The liveness of `JobScheduler` holds under
the same fairness.

## What is proved

The theorems hold for every value of the constants that satisfies the `ASSUME`s of the
modules, and those say no more than the code does: intervals, windows and limits are
positive, `None` is no value of a type, a request is one that its `__post_init__` accepts.
Each invariant below was checked by TLC before it was proved. The bounds `MaxTime`,
`MaxAttempts` and so on are constants as well, so the results cover every bound.

`RuntimeWorker_proofs`. The orchestrator alone, for any sets of jobs and callers and any
schedule:

- `CoreCorrect`: the inductive invariant `CoreInv`. Exclusion is not inductive alone: that
  two callers do not run one job follows from `InFlightIsActive` (the in-flight set is the
  set of active coroutines), which needs that a coroutine exists only for a job of its
  caller's gather (`CallGathersItsJobs`), and the order of times needs which fields are
  set at each program counter (`Shape`). `TypeCorrect`, `ExclusionCorrect`,
  `InFlightCorrect` and `TimesCorrect` are its parts.
- `CadenceCorrect`: `ClaimsSpaced`, from the invariant that after a claim `next_run_at` is
  the claim plus the interval.
- `RecordedOnceCorrect` and `OutcomeCorrect`: from `RecordsInv`, which says that every row
  is of a run that is over or beyond its store call (`PastRun`), so that a commit never
  meets rows of its own run, and that the rows of a run are one transaction (`Whole`).
  `JobStepEffect` reduces the paths through `_run_job` to three kinds of step: one that
  moves on, one that ends the store call, one that leaves.
- `SchedulerRefinement`: `Spec => ImplementsJobScheduler`. Under `CoreInv` and `RecordsInv`
  a `RunDue` is `Claim`, a commit is `Record`, `Release` is `Finish`, `Return` is `Deliver`,
  and every other step, a store call that raises before its commit included, changes nothing
  that the abstract scheduler sees.

The worker around it, for any jobs, threshold and cleanup interval, with signals, crashes and
restarts at any point:

- `ProcessCorrect`: `ProcessInv`, that is `CoreInv` and that no call of `run_due` is open
  outside of the gather; hence `WorkerExclusionCorrect` and `GracefulExitCorrect`.
- `TableCorrect`: `TableInv`, which makes `RecordsInv` survive crashes and deletion: rows in
  the table and rows that retention took belong to past runs and together are whole
  transactions. Hence `RecordsWholeCorrect`.
- `RetentionCorrect`: `RetentionSpares` from `StampInv`, which relates the stamp of every row
  to the true time of its writing: a row that was there when the cycle began
  was stamped by a clock set back no further than then, and one of this cycle is stamped before
  the cycle's reading by no more than the clock was set back since. A stamp before the cutoff
  then means a life of more than the period, as long as the clock was set back by no more than
  the period within the cycle.
- `CleanupCorrect` from `CleanupInv` (the next attempt is the last one plus the interval,
  set before the outcome is known).
- `AlertsCorrect`: `AlertOncePerStreak` from `MetricsInv`. The counter is the length of the
  run of failures at the end of the history (`Streak`), and one more status adds a position
  to `StreakReaches` exactly when the code alerts (`ReachesAppend`).

`SourceCache_proofs`, for any clients, keys, budget, window, TTL and timeout:

- `BudgetCorrect`: the deque is a suffix of the history of requests and what it has dropped
  is out of the window (`BudgetInv`); so the requests of a window that ends now lie in the
  deque, and a window that ended earlier is not changed by a new request.
- `RecentCorrect`: `RecentInv` bounds the age of a document while it is under way, when it
  is cached and when it is served.

`SnapshotAdapter_proofs`, for all five adapters, any books, intervals and timeouts:

- `AcceptedRecentCorrect`: no answer is older than its load (`LoadInv`), a snapshot's latency
  spans its load (`PayloadInv`), so that the gate on latency and the one on age together
  bound the age of the oldest answer.
- `SnapshotIsItsAnswersCorrect`: `AnswerInv` says that the answers that are in are answers to
  the requests of the running load; a sorted side of a book begins with its extreme price
  (`FirstOfSorted`), in whatever order it was sent.
- `OrphansCorrect`: requests that go on after their load belong to loads that started an
  interval apart, not longer ago than a request lives (`RequestLife`: its load, and then one
  wait for each piece and one more), and the request that failed is not
  among them (`OrphanInv`). The bound is in terms of `MaxPieces`, the one thing that the code
  does not limit. Starts that are apart lie in different intervals, which counts
  them (`FewStarts`).

`SignalAssembly_proofs`. The lifecycle, for any times and windows: `WindowCorrect` from
`LifecycleInv`, and `ForwardCorrect`. The assembly, for any requests, rules, times and number
of calls. `AssemblyInv` says that the report in hand is what `assemble_signal` makes of the
caller's request at one of its calls, and that no record is handed out before the request is
given up.

- `LifecycleRefinement`: `AssemblySpec => ImplementsLifecycle`; returning a report is
  `Create`. By the theorems on the lifecycle, `AssembledWindowCorrect` and
  `AssembledForwardCorrect` follow.
- `GateTrailCorrect`: from `LastGateReturns` (the call returns at the first gate that
  returns), and that structure, classification and flow fail together.
- `StoredPairCorrect`: rows have the number of a call that is over (`RowsOfPastCalls`).
- `ReadyCorrect`: `ReadyIffConfirmed`, which is `ReadyIffBacked` with the consensus in place
  of the arithmetic of the median.
- `ReadyBackedCorrect`: `ReadyIffBacked` itself, for any number of snapshots. The code sorts
  the prices that count and takes the middle; the property counts how many of them lie on
  each side. `MedianAgrees` shows that the two medians are the same number, by counting the
  positions of the sorted sequence on either side of its middle.

`Engines_proofs`, the pure functions, for every zone, break, rules and batch of candles:

- `CancelledExactly`, `VerdictStands`, `PullbackNamesEvidence`: the verdict of
  `analyze_reclaim_attempt` on the candles that follow the break. A search that found
  something finds the same in a longer sequence (`FirstIndexStands` carries most of it).
- `VerdictAccepted`: the record accepts every verdict, the bounds of the quality score and
  the order of its times included, and the filter on the break's time keeps what follows.
- `EventsTell`: what `build_structure_events` reports of a batch is `Occurs`, a definition
  over closing prices that has no scan in it. `ScanTells` is the invariant of the scan:
  its state after i candles says what has occurred by then, and its events are those.
- `PivotsOfLongerBatch`: the scan of `_find_pivots` over a longer batch is the one over the
  shorter batch and one more position, while no candle leaves the batch.
- `PivotsOfSlidBatch`: the same for a batch that also loses its first candles. The scan is
  described by the sets of pivots after each position (`PivotSets`), one of which follows from
  the one before it by `PivotsMove`; two scans that have one pivot in common have the same ones
  from there on (`AlikeFrom`), and a step keeps it so (`MovesAlike`).
- `ZonesBacked`: the zones of `derive_support_zones`. The loop over the pivots keeps every
  pivot seen in exactly one cluster (`JoinKeeps`), so that no low backs two zones, and the
  sort by strength and the limit only select from what the clusters make (`Ranked`). Two
  hypotheses: candles close in the order in which they opened, and the padding is at least a
  tick and less than the price.

`Analyses_proofs`, the same on streams of candles of any length (`StreamInv`), as the
properties of the run state it: `ResolvedCorrect`, `PolicyCorrect`, `DrawdownCorrect` (with
`DrawdownIsDeepest` for any returns), `CancelledCorrect`, `DecisionsCorrect`,
`VerdictEvidencedCorrect`, `EventsCorrect`, `PivotsCorrect` and `ZonesCorrect`.
`ResolvedCaseStands` and `PolicyInConflicts` hold for every plan and every bars. Where a
property has numbers of the rules written into it, its theorem has them as a hypothesis,
always the code's defaults: `SuccessfulH4Closes = 1` and `SuccessfulM15Closes = 2` in
`CancelledCorrect`, `MinAttempt = 5` in `VerdictEvidencedCorrect`, `MinBreakDistance = 10` and
`MinBreakBody = 4500` in `EventsCorrect`. `ZonesCorrect` has `0 < ZonePadding < 10000` (the
code's default is 20): with no padding the record refuses a zone of equal lows, as observed
below.

`EvidenceStore_proofs`, for any histories, prices, limits, lag and any interleaving of the
market, both jobs and the readers:

- `TableCorrect`: `TableInv`. Candles close one after the other in both intervals
  (`MarketInv`), the table of candles has one row per opening time, and the candle of every
  event is in it. `RecentBreakCorrect` follows: the candle of the newest break can be missing
  from `list_recent` only by its limit.
- `EvidenceCorrect`: `EvidenceInv`. Every event has the close of a candle of the market, and
  every qualified attempt is grounded in candles of the market. `RequestCorrect` and
  `ClosedCorrect` follow.
- `StoryCorrect`: `StoryInv`. A zone's identifier names its bounds and its confirmation, so
  that its events are a function (`Tale`) of the identifier and of the closed candles, no
  matter how much of them a batch holds (`TaleOfDerived`), and more candles add to it and
  revise nothing (`TaleGrows`). Every row of `structure_events` is in the tale of its zone at
  the last run, and of the zones which that run derived the tale is in the table. Hence
  `AnalysisCorrect` (`TableIsAnalysis`). A close above the zone after a confirmed break makes
  a later event (`TakenBackTold`), so that the newest event of the table is such a break only
  where there was none (`NewestStands`); the evidence of a caller stays as it was when more
  candles close (`EarlierView`). Hence `ReclaimedCorrect` (`ReclaimedBreakNotRequested`).

`TableCorrect` and `RecentBreakCorrect` hold for every delay. `EvidenceCorrect`,
`RequestCorrect`, `ClosedCorrect`, `StoryCorrect`, `AnalysisCorrect` and `ReclaimedCorrect`
have the hypothesis `MaxDelay = 0`, which the code does not guarantee: with a delay an event
may be of an open candle, as finding 3 shows, and a reclaiming close may be stored with the
price it had before.

`Data_proofs` has the lemmas on least elements, filters, folds and counting that these
proofs share. The library's induction theorems cannot be instantiated by the provers; where a
proof needs induction over data, the set of positions that satisfy the claim is shown to hold
zero and every successor (`SetInduction`), and a fold is described by the function of its
intermediate results (`FoldExists`).

Only model-checked:

- liveness (`EveryRunEnds`, `DueJobRuns`, `StopTerminates`): fairness and `ENABLED` are
  outside of the prover.

## Findings

1. `evidence_invalidated`: `persist_reclaim_from_confirmation` takes the newest
   `CONFIRMED_BREAK` of the H4 events without looking for a later event that invalidates
   it, while docs/RECLAIM_PULLBACK_ENGINE.md:17 says that setup evaluation is rejected when
   the damage is invalidated. The request is still refused as long as the H4 job derives the
   zone (`ReclaimedBreakNotRequested`); finding 4 is what happens when it does not.
2. `evidence_cancel`: a verdict is recomputed from the current batch, each start of an
   attempt has a row of its own and the newest row wins, so that a break whose reclaim was
   recorded as CANCELLED can qualify once the reclaim has left the M15 batch, while
   docs/RECLAIM_PULLBACK_ENGINE.md:109 says that a successful reclaim always cancels.
3. `evidence_open`: `fetch_batch` reads the clock after the answer has arrived and keeps
   every candle that is closed by then. A candle that closes in between is in the answer
   with the prices it had while it was open, while docs/OHLCV.md:50 and docs/RUNTIME.md:237
   admit closed candles only. The next run corrects the candle; an event that its true
   close does not yield stays in the table.
4. `evidence_window`: a run writes the zones and events of its batch and retires nothing,
   and the readers take the newest zone and the newest event of the tables. When the batch
   slides past a touch of a broken zone, or a new low regroups its pivots, the zone is not
   derived any more and an H4 close above it makes no event. Its break stays the latest event
   and a request is built on it, while docs/RECLAIM_PULLBACK_ENGINE.md:63 says that a
   successful reclaim, by (line 65) "one closed 4H candle above the zone high", cancels the
   setup.

Observed while modelling, and neither forbidden nor promised by a document:

- the M15 job fails in every cycle once the newest confirmed break is older than the 500
  candles it looks in, which a batch of up to 1000 H4 candles allows (`RecentBreakJudged`
  shows that it happens for no other reason);
- a low that joins or separates clusters regroups old pivots: a zone can appear late with an
  old `confirmed_at` (lows 10000, 10070, 10130, then 9950), and its events with it;
- when a zone is derived anew under another identifier, a request on the old one is refused
  because the newest zone and the attempt's zone differ (`Linked`), not because a reclaim is
  known;
- `SupportZoneRules` accepts a `zone_padding_bps` of zero, with which a zone of equal lows has
  no height and `SupportZone.__post_init__` raises out of the analysis;
- a CONTINUATION verdict is withdrawn by a later, higher bounce (therefore it is not part of
  `DecisionsStand`), and an EXPIRED setup is revived by a late attempt;
- without a candle after the break both jobs write one and the same row;
- a malformed discovery answer is cached before it is parsed and keeps every load DEGRADED
  until it expires; a batch served from the cache is dated when it is served, so that
  `fetched_at` hides an age of up to the TTL (`BatchIsRecent` is the bound);
- a failed request leaves the other requests of its gather running. `OrphansBounded` bounds
  them if their answers come in a limited number of pieces; the HTTP timeout limits each wait,
  and nothing ends a request whose answer dribbles in;
- a clock that is set back by more than the retention period within one cycle makes the cleanup
  of that cycle delete its own rows (`RetentionSpares` shows that nothing less does);
- a plan entry of zero raises out of `assemble_signal`;
- a request that is refused for the dispersion of its benchmarks can become ready by
  waiting, when the outlier grows stale before the others.

Observed as well, and not what a document says: docs/LIFECYCLE.md:28 has records become
EXPIRED when the current time reaches `expires_at`, while `close_lifecycle` does not look at
the window and makes a record CLOSED that has passed it. The model has such calls
(`DatedByWindow` says nothing of the time of closing). No run states the sentence: taken
literally it fails of every record until somebody calls `advance_lifecycle`, records being
immutable.

## What is not modelled

- The daily evidence: zones and events of its own, which match no attempt.
- The primary zone of an analysis, which only its report names; volume ratios and scores of
  structure evidence, the averages of the backtest's metrics: nothing decides by them.
- The form that records take in JSON and in database columns, connection pools, the wording
  of reasons and messages; the rounding of `Decimal` at 28 digits.
- What exactly a parser rejects: one value stands for all of it.
- The adapters' `health` probes, which nothing in the repository calls (those of the
  discovery adapters are clients of `SourceCache`).
- The watchlist (one stateless classification), the read-only overview and API,
  notifications, operations, and the configuration and job registry, whose result is the
  constants of the models.

## Plan

The models are complete as planned: orchestrator, worker, lifecycle, cache, structure
events, reclaim engine, evidence store, consensus and assembly; then the abstract scheduler,
support zones, the backtest, the evidence store over derived zones, the exchange adapters
and the loads of the discovery adapters, each with its properties before the next. The
proofs followed in the order of the section above, and state every safety property of the
passing runs; the runs stay as the quick check of a changed model, and for liveness.
