--------------------------- MODULE SignalAssembly ---------------------------
(***************************************************************************)
(* assemble_and_persist: the gates of app/signals/service.py with the      *)
(* short decision tables they call (structure/analyzer.py,                 *)
(* setups/classifier.py, flow/runner.py, planning/service.py), the report  *)
(* and its two rows (signals/store.py), and the lifecycle record that the  *)
(* caller is given, which it goes on to advance, activate and close.       *)
(*                                                                         *)
(* A caller that gets an exception may call again with the same request at *)
(* another time.  Reasons are wording and are left out.                    *)
(***************************************************************************)
EXTENDS Lifecycle, CrossExchange, SequencesExt

CONSTANTS
    Requests,            \* the requests that callers make
    MaxDiscoveryRecords, MaxStructureAge,
    MaxEntryDeviation,   \* in hundredths of a percent, which are basis points
    MaxAttempts          \* bound: calls of assemble_and_persist

\* SignalAssemblyRequest after its __post_init__; discovery is the number of
\* records.  Symbols are compared, never built.
IsRequest(r) ==
    /\ r.lbank \in LBankSnapshot
    /\ r.bench \in Seq(BenchmarkSnapshot)
    /\ "BYBIT" \in DOMAIN r.map.benchmark
    /\ r.htf.market_symbol = r.map.benchmark["BYBIT"] /\ r.htf.observed_at \in Int
    /\ {r.structure.current, r.structure.low, r.structure.high} \subseteq Int
    /\ {r.plan.entry, r.plan.boundary, r.plan.ratio, r.plan.multiplier} \subseteq Int
    /\ 0 < r.structure.current /\ 0 < r.structure.low /\ r.structure.low < r.structure.high
    /\ r.discovery \in Nat

ASSUME AssemblyAssumption ==
    /\ \A r \in Requests : IsRequest(r)
    /\ None \notin Requests
    /\ MaxDiscoveryRecords \in 0..500
    /\ {MaxStructureAge, MaxEntryDeviation} \subseteq Nat \ {0}
    /\ MaxAttempts \in Nat

VARIABLES
    request,   \* the request of the caller, until a call returned
    report,    \* the report of the call that is about to persist it
    attempts,  \* calls so far
    rows       \* history: the signal_assembly and signal_lifecycle rows

avars == <<request, report, attempts, rows, record>>
----------------------------------------------------------------------------
(* The gates *)

GateOrder ==
    <<"discovery_context", "symbol_alignment", "higher_timeframe_structure",
      "structure", "setup_classification", "flow", "lbank_execution",
      "cross_exchange_consensus", "entry_alignment", "planning", "lifecycle">>

Gates == Range(GateOrder)
GateStates == {"PASS", "WARN", "FAIL", "SKIP"}
Position(g) == CHOOSE i \in DOMAIN GateOrder : GateOrder[i] = g

PassIf(condition) == IF condition THEN "PASS" ELSE "FAIL"

\* _discovery_gate
DiscoveryGate(r) ==
    CASE r.discovery > MaxDiscoveryRecords -> "FAIL"
      [] r.discovery <= MaxDiscoveryRecords /\ r.discovery = 0 -> "WARN"
      [] OTHER -> "PASS"

\* _symbol_gate
SymbolsAligned(r) ==
    /\ {r.map.canonical, r.htf.symbol, r.structure.symbol, r.plan.symbol} = {r.symbol}
    /\ r.lbank.symbol = r.map.lbank

\* _higher_timeframe_gate
StructureDated(r, now) ==
    ~FromFuture(r.htf.observed_at, now) /\ ~Stale(r.htf.observed_at, now, MaxStructureAge)
Damaged(r) == r.htf.daily /\ r.htf.four_hour

\* analyze_structure; the empty range it raises on is one that StructureInput
\* does not admit
AnalyzeStructure(r) ==
    CASE r.structure.current < r.structure.low -> "ALERT"
      [] /\ r.structure.current >= r.structure.low
         /\ 2 * r.structure.current < r.structure.low + r.structure.high -> "WEAK"
      [] OTHER -> "NEUTRAL"

\* classify_snapshot, and run_flow on the candidate it makes, whose data are
\* never missing
ClassifySnapshot(state) ==
    CASE state = "ALERT" -> "REVIEW" [] state = "WEAK" -> "WATCH" [] OTHER -> "IGNORE"

RunFlow(label) == IF label = "REVIEW" THEN "READY" ELSE "WAIT"

\* _watch_status
WatchStatus(state) ==
    CASE state = "NEUTRAL" -> "HYPE_WATCH"
      [] state = "WEAK" -> "WEAKNESS_WATCH"
      [] OTHER -> "BREAKDOWN_WATCH"

\* _entry_deviation_bps: raises, outside any handler, on an entry that is not
\* positive
EntryRaises(r) == r.plan.entry <= 0
EntryTooFar(r) ==
    Distance(r.plan.entry, r.lbank.mid) * 10000 > MaxEntryDeviation * r.lbank.mid

\* build_plan raises unless all of this holds
Objective(p) == p.entry - (p.boundary - p.entry) * p.ratio
PlanAccepted(p) ==
    /\ p.entry > 0 /\ p.boundary > 0 /\ p.boundary > p.entry
    /\ p.ratio > 0 /\ p.multiplier \in 1..5
    /\ Objective(p) > 0

ConsensusOf(r, now) == Consensus(r.lbank, r.bench, r.map, now)

\* The decision of a gate, where the gates before it let the request through.
GateState(g, r, now) ==
    CASE g = "discovery_context" -> DiscoveryGate(r)
      [] g = "symbol_alignment" -> PassIf(SymbolsAligned(r))
      [] g = "higher_timeframe_structure" -> PassIf(StructureDated(r, now) /\ Damaged(r))
      [] g = "structure" -> PassIf(AnalyzeStructure(r) = "ALERT")
      [] g = "setup_classification" -> PassIf(ClassifySnapshot(AnalyzeStructure(r)) = "REVIEW")
      [] g = "flow" -> PassIf(RunFlow(ClassifySnapshot(AnalyzeStructure(r))) = "READY")
      [] g = "lbank_execution" -> PassIf(ValidateLBank(r.lbank, now) = "OK")
      [] g = "cross_exchange_consensus" ->
           IF ConsensusOf(r, now) = "WARNING" THEN "WARN"
           ELSE PassIf(ConsensusOf(r, now) = "OK")
      [] g = "entry_alignment" -> PassIf(~EntryTooFar(r))
      [] g = "planning" -> PassIf(PlanAccepted(r.plan))
      [] g = "lifecycle" -> "PASS"

\* Which failing gates return at once: a structure that is not ALERT is also
\* classified and run through the flow.
Returns(g, r, now) ==
    g \notin {"structure", "setup_classification"} /\ GateState(g, r, now) = "FAIL"

\* The status a report gets from the gate that returned it.
StatusOf(g, r, now) ==
    CASE g = "higher_timeframe_structure" /\ StructureDated(r, now) -> "BREAKDOWN_WATCH"
      [] g = "flow" -> WatchStatus(AnalyzeStructure(r))
      [] g = "lbank_execution" -> ValidateLBank(r.lbank, now)
      [] g = "cross_exchange_consensus" -> ConsensusOf(r, now)
      [] g = "entry_alignment" -> "EXECUTION_PENDING"
      [] OTHER -> "DATA_DEGRADED"

\* The gate at which assemble_signal returns; the last one if it goes through.
LastGate(r, now) ==
    Min({i \in DOMAIN GateOrder : Returns(GateOrder[i], r, now)} \cup {Len(GateOrder)})

\* assemble_signal raises where it gets as far as the entry.
Raises(r, now) == EntryRaises(r) /\ LastGate(r, now) >= Position("entry_alignment")

\* Mutant: what was not reached counts as passed.
CompleteGatesPassing(r, now) ==
    [g \in Gates |-> IF Position(g) <= LastGate(r, now) THEN GateState(g, r, now) ELSE "PASS"]

\* _complete_gates: what was not reached is SKIP.
CompleteGates(r, now) ==
    [g \in Gates |-> IF Position(g) <= LastGate(r, now) THEN GateState(g, r, now) ELSE "SKIP"]

\* _finish: a plan that was not built is held.
Report(r, now, ttl) ==
    LET last == GateOrder[LastGate(r, now)]
        ready == GateState(last, r, now) # "FAIL"
    IN [status |-> IF ready THEN "SHORT_READY" ELSE StatusOf(last, r, now),
        assembled_at |-> now,
        gates |-> CompleteGates(r, now),
        plan |-> IF ready THEN "READY" ELSE "HOLD",
        lifecycle |-> NewRecord(ready, now, ttl)]
----------------------------------------------------------------------------
(* Actions *)

AssemblyInit ==
    /\ Init
    /\ request = None
    /\ report = None
    /\ attempts = 0
    /\ rows = {}

\* A caller builds a request; its snapshots do not change any more.
Submit(r) ==
    /\ request = None /\ ~Exists
    /\ request' = r
    /\ UNCHANGED <<report, attempts, rows, record>>

Calls == request # None /\ report = None /\ attempts < MaxAttempts

\* assemble_signal returns a report.
Assemble(now, ttl) ==
    /\ Calls /\ ~Raises(request, now)
    /\ report' = Report(request, now, ttl)
    /\ attempts' = attempts + 1
    /\ UNCHANGED <<request, rows, record>>

\* The exception of _entry_deviation_bps reaches the caller.
AssembleRaises(now) ==
    /\ Calls /\ Raises(request, now)
    /\ attempts' = attempts + 1
    /\ UNCHANGED <<request, report, rows, record>>

\* Mutant: the lifecycle row has the status of the report.
ReportRowsOneState ==
    {[id |-> attempts, type |-> t, state |-> report.status,
      expires_at |-> report.lifecycle.expires_at] :
        t \in {"signal_assembly", "signal_lifecycle"}}

\* The two rows of one call of persist.
ReportRows ==
    {[id |-> attempts, type |-> "signal_assembly", state |-> report.status,
      expires_at |-> report.lifecycle.expires_at],
     [id |-> attempts, type |-> "signal_lifecycle", state |-> report.lifecycle.state,
      expires_at |-> report.lifecycle.expires_at]}

\* Mutant: the window is added once more when the report is returned.
ReturnReportExtended ==
    record' = [report.lifecycle EXCEPT !.expires_at = 2 * @ - report.assembled_at]

\* The caller holds the record of the report it was returned.
ReturnReport == record' = report.lifecycle

\* persist commits and the report is returned.
Persist ==
    /\ report # None
    /\ rows' = rows \cup ReportRows
    /\ ReturnReport
    /\ request' = None /\ report' = None
    /\ UNCHANGED attempts

\* persist raises, before the commit or after it: the caller has no report.
PersistRaises(committed) ==
    /\ report # None
    /\ rows' = IF committed THEN rows \cup ReportRows ELSE rows
    /\ report' = None
    /\ UNCHANGED <<request, attempts, record>>

\* The owner of the record goes on with the lifecycle service.
LifecycleCall(now) ==
    /\ Advance(now) \/ Activate(now) \/ Close(now)
    /\ UNCHANGED <<request, report, attempts, rows>>

AssemblyNext ==
    \/ \E r \in Requests : Submit(r)
    \/ \E now \in Times, ttl \in Ttls : Assemble(now, ttl)
    \/ \E now \in Times : AssembleRaises(now) \/ LifecycleCall(now)
    \/ Persist
    \/ \E committed \in BOOLEAN : PersistRaises(committed)

AssemblySpec == AssemblyInit /\ [][AssemblyNext]_avars
----------------------------------------------------------------------------
(* Properties *)

Statuses == {"HYPE_WATCH", "WEAKNESS_WATCH", "BREAKDOWN_WATCH", "EXECUTION_PENDING",
             "DATA_DEGRADED", "AVOID", "SHORT_READY"}

AssemblyTypeOK ==
    /\ TypeOK
    /\ request # None => IsRequest(request)
    /\ report # None =>
         /\ report.status \in Statuses /\ report.plan \in {"READY", "HOLD"}
         /\ report.gates \in [Gates -> GateStates]
         /\ report.lifecycle \in Record
    /\ attempts \in 0..MaxAttempts

\* The reference for the consensus, in terms of the set of sources that count:
\* those whose first snapshot is mapped and healthy, each with one price.
FirstOf(bs, s) == bs[Min({i \in DOMAIN bs : bs[i].source = s})]

Counting(r, now) ==
    {s \in {r.bench[i].source : i \in DOMAIN r.bench} \cap DOMAIN r.map.benchmark :
        LET b == FirstOf(r.bench, s)
        IN /\ b.symbol = r.map.benchmark[s] /\ ~b.slow
           /\ b.source_timestamp # NoTimestamp
           /\ now - b.received_at \in (-FutureTolerance)..MaxReceiveAge
           /\ now - b.source_timestamp \in (-FutureTolerance)..MaxSourceAge}

\* Twice the median of p over S: no price of the lower half is above one of
\* the upper half.
TwiceMedianOf(p, S) ==
    LET lower == CHOOSE L \in SUBSET S :
                    /\ 2 * Cardinality(L) \in {Cardinality(S), Cardinality(S) - 1}
                    /\ \A a \in L, b \in S \ L : p[a] <= p[b]
        above == Min({p[s] : s \in S \ lower})
    IN IF Cardinality(S) % 2 = 0 THEN Max({p[s] : s \in lower}) + above ELSE 2 * above

PricesConfirm(r, now) ==
    LET S == Counting(r, now)
        p == [s \in S |-> FirstOf(r.bench, s).price]
        m == TwiceMedianOf(p, S)
    IN /\ Cardinality(S) >= MinimumFreshSources
       /\ \A s, t \in S : 20000 * (p[s] - p[t]) <= MaxDispersion * m
       /\ 10000 * (2 * r.lbank.mid - m) < DegradedDeviation * m
       /\ 10000 * (m - 2 * r.lbank.mid) < DegradedDeviation * m

\* What docs/ASSEMBLY.md requires of a ready signal beside the benchmarks'
\* prices, read at now.
Eligible(r, now) ==
    /\ r.discovery <= MaxDiscoveryRecords
    /\ \A s \in {r.map.canonical, r.htf.symbol, r.structure.symbol, r.plan.symbol} :
         s = r.symbol
    /\ r.map.reliable /\ r.lbank.symbol = r.map.lbank
    /\ r.htf.daily /\ r.htf.four_hour
    /\ now - r.htf.observed_at \in (-FutureTolerance)..MaxStructureAge
    /\ r.structure.current < r.structure.low
    /\ now - r.lbank.received_at \in (-FutureTolerance)..MaxLBankAge
    /\ ~(r.lbank.slow \/ r.lbank.wide \/ r.lbank.thin_bid \/ r.lbank.thin_ask)
    /\ r.plan.entry > 0
    /\ 10000 * (r.plan.entry - r.lbank.mid) <= MaxEntryDeviation * r.lbank.mid
    /\ 10000 * (r.lbank.mid - r.plan.entry) <= MaxEntryDeviation * r.lbank.mid
    /\ PlanAccepted(r.plan)

Backed(r, now) == Eligible(r, now) /\ PricesConfirm(r, now)

\* A report is SHORT_READY exactly when everything it needs holds of the
\* request as of the time it was assembled: neither an old, repeated, foreign
\* or unhealthy snapshot nor a late call gets a request through, and no gate
\* refuses one that is backed.
ReadyIffBacked ==
    report # None => (report.status = "SHORT_READY" <=> Backed(request, report.assembled_at))

\* The gates account for the status: a report is ready exactly when no gate
\* failed or was skipped; after a failed gate nothing is evaluated but the
\* classification and the flow of a structure that is not ALERT; and only a
\* ready report has a plan and an active lifecycle.
GateTrail ==
    report # None =>
        /\ (report.status = "SHORT_READY") <=>
             \A g \in Gates : report.gates[g] \in {"PASS", "WARN"}
        /\ \A g, h \in Gates :
             /\ Position(g) < Position(h)
             /\ report.gates[g] \in {"FAIL", "SKIP"}
             /\ h \notin {"setup_classification", "flow"}
             => report.gates[h] = "SKIP"
        /\ report.status # "SHORT_READY" => \E g \in Gates : report.gates[g] = "FAIL"
        /\ (report.status = "SHORT_READY") <=> (report.plan = "READY")
        /\ (report.status = "SHORT_READY") <=> (report.lifecycle.state = "ACTIVE")

\* Whatever the database did and however often the call was repeated, a report
\* left both of its rows or none; they expire together, and the lifecycle row
\* is ACTIVE exactly beside a SHORT_READY one.
StoredPairAgrees ==
    \A r \in rows :
        \E a, l \in rows :
            /\ {a, l} = {s \in rows : s.id = r.id}
            /\ a.type = "signal_assembly" /\ l.type = "signal_lifecycle"
            /\ a.expires_at = l.expires_at
            /\ (a.state = "SHORT_READY") <=> (l.state = "ACTIVE")

\* The record that a caller is handed behaves as the lifecycle specification
\* says, from the time of its assembly on.
ImplementsLifecycle == Spec
==============================================================================
