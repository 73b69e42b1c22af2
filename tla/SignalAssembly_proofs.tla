------------------------ MODULE SignalAssembly_proofs ------------------------
(***************************************************************************)
(* Proofs about Lifecycle and SignalAssembly for every set of requests,    *)
(* times, windows and rules.                                               *)
(***************************************************************************)
EXTENDS SignalAssembly, Data_proofs, FiniteSetTheorems, TLAPS

----------------------------------------------------------------------------
(* The lifecycle of a signal, whoever calls it.                              *)

LifecycleInv == TypeOK /\ DatedByWindow

\* create_lifecycle makes a record that is dated by its window.
LEMMA CreateStep ==
    ASSUME LifecycleInv, NEW now \in Times, NEW ready \in BOOLEAN, NEW ttl \in Ttls,
           Create(ready, now, ttl)
    PROVE  LifecycleInv'
<1>1. now \in Int /\ ttl \in Nat \ {0}
  BY LifecycleAssumption
<1> DEFINE r == [state |-> IF ready THEN "ACTIVE" ELSE "PENDING",
                 created_at |-> now, updated_at |-> now, expires_at |-> now + ttl,
                 closed_at |-> None]
<1>2. record' = r
  BY DEF Create, NewRecord
<1>3. /\ r \in Record /\ r.state \in {"ACTIVE", "PENDING"}
      /\ r.created_at = now /\ r.updated_at = now /\ r.expires_at = now + ttl
      /\ r.closed_at = None
  BY <1>1 DEF Record, States
<1> HIDE DEF r
<1> QED
  BY <1>1, <1>2, <1>3 DEF LifecycleInv, TypeOK, DatedByWindow, Exists

\* The three transitions of an existing record, by the record they return.
LEMMA TransitionStep ==
    ASSUME LifecycleInv, NEW now \in Times, Forward(now), ~IsTerminal,
           NEW state \in {"ACTIVE", "EXPIRED", "CLOSED"},
           state = "ACTIVE" => now < record.expires_at,
           state = "EXPIRED" => record.expires_at <= now,
           NEW closed \in Int \cup {None},
           state = "CLOSED" => closed = now, state # "CLOSED" => closed = None,
           record' = [record EXCEPT !.state = state, !.updated_at = now,
                                    !.closed_at = closed]
    PROVE  LifecycleInv'
<1>1. /\ record \in Record /\ now \in Int /\ record.updated_at <= now
      /\ record.created_at <= record.updated_at
      /\ record.created_at < record.expires_at
  BY LifecycleAssumption DEF LifecycleInv, TypeOK, DatedByWindow, Forward
<1>2. /\ record' \in Record /\ record'.state = state /\ record'.updated_at = now
      /\ record'.closed_at = closed /\ record'.created_at = record.created_at
      /\ record'.expires_at = record.expires_at
  BY <1>1 DEF Record, States
<1>3. record.created_at <= now
  BY <1>1 DEF Record
<1> QED
  BY <1>1, <1>2, <1>3 DEF LifecycleInv, TypeOK, DatedByWindow

\* Past the window, EXPIRED keeps the record dated by it.
LEMMA ExpireStep ==
    ASSUME LifecycleInv, NEW now \in Times, Forward(now), ~IsTerminal,
           now >= record.expires_at, Expire(now)
    PROVE  LifecycleInv'
<1>1. record \in Record /\ record.closed_at = None /\ now \in Int
  BY LifecycleAssumption
  DEF LifecycleInv, TypeOK, DatedByWindow, Forward, IsTerminal
<1>2. record' = [record EXCEPT !.state = "EXPIRED", !.updated_at = now,
                               !.closed_at = None]
  BY <1>1 DEF Expire, Record
<1>3. record.expires_at <= now
  BY <1>1 DEF Record
<1> QED
  BY <1>2, <1>3, TransitionStep

\* Every record is dated by its window, for every sequence of calls.
THEOREM LifecycleCorrect == Spec => []LifecycleInv
<1>1. Init => LifecycleInv
  BY DEF Init, LifecycleInv, TypeOK, DatedByWindow, Exists
<1>2. LifecycleInv /\ [Next]_record => LifecycleInv'
  <2> SUFFICES ASSUME LifecycleInv, [Next]_record PROVE LifecycleInv'
    OBVIOUS
  <2>1. ASSUME NEW now \in Times, NEW ready \in BOOLEAN, NEW ttl \in Ttls,
               Create(ready, now, ttl)
        PROVE  LifecycleInv'
    BY <2>1, CreateStep
  <2>2. ASSUME NEW now \in Times, Advance(now) PROVE LifecycleInv'
    BY <2>2, ExpireStep DEF Advance
  <2>3. ASSUME NEW now \in Times, Activate(now) PROVE LifecycleInv'
    <3>1. Forward(now) /\ ~IsTerminal
      BY <2>3 DEF Activate
    <3>2. record \in Record /\ record.closed_at = None /\ now \in Int
      BY <3>1, LifecycleAssumption
      DEF LifecycleInv, TypeOK, DatedByWindow, Forward, IsTerminal
    <3>3. CASE now >= record.expires_at
      BY <2>3, <3>1, <3>3, ExpireStep DEF Activate
    <3>4. CASE ~(now >= record.expires_at)
      <4>1. record' = [record EXCEPT !.state = "ACTIVE", !.updated_at = now]
        BY <2>3, <3>4 DEF Activate
      <4>2. record' = [record EXCEPT !.state = "ACTIVE", !.updated_at = now,
                                     !.closed_at = None]
        BY <3>2, <4>1 DEF Record
      <4>3. now < record.expires_at
        BY <3>2, <3>4 DEF Record
      <4> QED
        BY <3>1, <4>2, <4>3, TransitionStep
    <3> QED
      BY <3>3, <3>4
  <2>4. ASSUME NEW now \in Times, Close(now) PROVE LifecycleInv'
    <3>1. now \in Int
      BY LifecycleAssumption
    <3> QED
      BY <2>4, <3>1, TransitionStep DEF Close
  <2>5. CASE UNCHANGED record
    BY <2>5 DEF LifecycleInv, TypeOK, DatedByWindow, Exists
  <2> QED
    BY <2>1, <2>2, <2>3, <2>4, <2>5 DEF Next
<1> QED
  BY <1>1, <1>2, PTL DEF Spec

\* ACTIVE and PENDING records are dated inside their window, EXPIRED ones past
\* it, and closed_at is set by closing alone.
THEOREM WindowCorrect == Spec => []DatedByWindow
BY LifecycleCorrect, PTL DEF LifecycleInv

\* Terminal states are final and time never runs backwards in a record.
THEOREM ForwardCorrect == Spec => OnlyForward
<1> DEFINE Step == Exists => /\ Exists'
                             /\ ~IsTerminal
                             /\ record'.updated_at >= record.updated_at
                             /\ record'.expires_at = record.expires_at
                             /\ record'.created_at = record.created_at
                             /\ record'.state # "PENDING"
<1>1. LifecycleInv /\ [Next]_record => [Step]_record
  <2> SUFFICES ASSUME LifecycleInv, Next, Exists
               PROVE  Step
    BY DEF Next
  <2>1. PICK now \in Times : Advance(now) \/ Activate(now) \/ Close(now)
    BY DEF Next, Create
  <2>2. /\ record \in Record /\ ~IsTerminal /\ now \in Int /\ record.updated_at <= now
    BY <2>1, LifecycleAssumption
    DEF LifecycleInv, TypeOK, Advance, Activate, Close, Forward
  <2>3. \/ record' = [record EXCEPT !.state = "EXPIRED", !.updated_at = now]
        \/ record' = [record EXCEPT !.state = "ACTIVE", !.updated_at = now]
        \/ record' = [record EXCEPT !.state = "CLOSED", !.updated_at = now,
                                    !.closed_at = now]
    BY <2>1 DEF Advance, Activate, Close, Expire
  <2>4. /\ record' \in Record
        /\ record'.updated_at = now
        /\ record'.expires_at = record.expires_at
        /\ record'.created_at = record.created_at
        /\ record'.state # "PENDING"
    BY <2>2, <2>3 DEF Record, States
  <2>5. record' # None
    BY <2>4, LifecycleAssumption
  <2> QED
    BY <2>2, <2>4, <2>5 DEF Exists, Record
<1>2. Spec => [][Step]_record
  BY <1>1, LifecycleCorrect, PTL DEF Spec
<1> QED
  BY <1>2 DEF OnlyForward
----------------------------------------------------------------------------
(* The assembly of a signal.                                                 *)

\* The report in hand is the one assemble_signal made of the request that the
\* caller still has, at one of its calls; the record is only handed out by the
\* call that gives both up.
AssemblyInv ==
    /\ report # None =>
         /\ request # None
         /\ \E now \in Times, ttl \in Ttls : report = Report(request, now, ttl)
    /\ Exists => request = None /\ report = None
    /\ attempts \in Nat

\* AssemblyInv, for every order of calls, exceptions and commits.
THEOREM AssemblyCorrect == AssemblySpec => []AssemblyInv
<1>1. AssemblyInit => AssemblyInv
  BY DEF AssemblyInit, Init, AssemblyInv, Exists
<1>2. AssemblyInv /\ [AssemblyNext]_avars => AssemblyInv'
  <2> SUFFICES ASSUME AssemblyInv, [AssemblyNext]_avars PROVE AssemblyInv'
    OBVIOUS
  <2>1. ASSUME NEW r \in Requests, Submit(r) PROVE AssemblyInv'
    BY <2>1 DEF Submit, AssemblyInv, Exists
  <2>2. ASSUME NEW now \in Times, NEW ttl \in Ttls, Assemble(now, ttl)
        PROVE  AssemblyInv'
    <3>1. /\ request' = request /\ record' = record /\ request # None
          /\ report' = Report(request, now, ttl) /\ attempts' = attempts + 1
      BY <2>2 DEF Assemble, Calls
    <3>2. ~Exists'
      BY <3>1 DEF AssemblyInv, Exists
    <3> QED
      BY <3>1, <3>2 DEF AssemblyInv
  <2>3. ASSUME NEW now \in Times, AssembleRaises(now) PROVE AssemblyInv'
    BY <2>3 DEF AssembleRaises, AssemblyInv, Exists
  <2>4. ASSUME NEW now \in Times, LifecycleCall(now) PROVE AssemblyInv'
    BY <2>4 DEF LifecycleCall, Advance, Activate, Close, Forward, AssemblyInv, Exists
  <2>5. CASE Persist
    BY <2>5 DEF Persist, AssemblyInv
  <2>6. ASSUME NEW committed \in BOOLEAN, PersistRaises(committed) PROVE AssemblyInv'
    BY <2>6 DEF PersistRaises, AssemblyInv, Exists
  <2>7. CASE UNCHANGED avars
    BY <2>7 DEF avars, AssemblyInv, Exists
  <2> QED
    BY <2>1, <2>2, <2>3, <2>4, <2>5, <2>6, <2>7 DEF AssemblyNext
<1> QED
  BY <1>1, <1>2, PTL DEF AssemblySpec

\* The record that a caller is handed behaves as the lifecycle service says:
\* returning the report is create_lifecycle, and nothing else that the
\* assembly does, not even a commit whose caller sees an exception, touches it.
THEOREM LifecycleRefinement == AssemblySpec => ImplementsLifecycle
<1>1. AssemblyInit => Init
  BY DEF AssemblyInit
<1>2. AssemblyInv /\ [AssemblyNext]_avars => [Next]_record
  <2> SUFFICES ASSUME AssemblyInv, AssemblyNext, record' # record PROVE Next
    BY DEF avars
  <2>1. CASE Persist
    <3>1. PICK now \in Times, ttl \in Ttls : report = Report(request, now, ttl)
      BY <2>1 DEF Persist, AssemblyInv
    <3>2. PICK ready \in BOOLEAN : report.lifecycle = NewRecord(ready, now, ttl)
      BY <3>1 DEF Report
    <3>3. Create(ready, now, ttl)
      BY <2>1, <3>2 DEF Persist, ReturnReport, Create, AssemblyInv
    <3> QED
      BY <3>3 DEF Next
  <2>2. ASSUME NEW now \in Times, LifecycleCall(now) PROVE Next
    BY <2>2 DEF LifecycleCall, Next
  <2> QED
    BY <2>1, <2>2 DEF AssemblyNext, Submit, Assemble, AssembleRaises, PersistRaises
<1> QED
  BY <1>1, <1>2, AssemblyCorrect, PTL DEF AssemblySpec, ImplementsLifecycle, Spec

\* So what is proved of the lifecycle service holds of the records of reports:
\* they are dated by the window of the call that assembled them ...
THEOREM AssembledWindowCorrect == AssemblySpec => []DatedByWindow
BY LifecycleRefinement, WindowCorrect DEF ImplementsLifecycle

\* ... and terminal ones are final.
THEOREM AssembledForwardCorrect == AssemblySpec => OnlyForward
BY LifecycleRefinement, ForwardCorrect DEF ImplementsLifecycle
----------------------------------------------------------------------------
(* The gates of a report *)

\* The eleven gates are distinct, and Position finds each where it is.
LEMMA GatePositions ==
    /\ DOMAIN GateOrder = 1..11 /\ Len(GateOrder) = 11
    /\ \A i \in 1..11 : GateOrder[i] \in Gates /\ Position(GateOrder[i]) = i
    /\ \A g \in Gates : Position(g) \in 1..11 /\ GateOrder[Position(g)] = g
<1>1. /\ GateOrder[1] = "discovery_context" /\ GateOrder[2] = "symbol_alignment"
      /\ GateOrder[3] = "higher_timeframe_structure" /\ GateOrder[4] = "structure"
      /\ GateOrder[5] = "setup_classification" /\ GateOrder[6] = "flow"
      /\ GateOrder[7] = "lbank_execution" /\ GateOrder[8] = "cross_exchange_consensus"
      /\ GateOrder[9] = "entry_alignment" /\ GateOrder[10] = "planning"
      /\ GateOrder[11] = "lifecycle"
      /\ DOMAIN GateOrder = 1..11 /\ Len(GateOrder) = 11
  BY DEF GateOrder
<1>2. \A i, k \in 1..11 : GateOrder[i] = GateOrder[k] => i = k
  BY <1>1
<1>3. \A g \in Gates : \E i \in 1..11 : GateOrder[i] = g
  BY <1>1 DEF Gates, Range
<1>4. \A i \in 1..11 : GateOrder[i] \in Gates
  BY <1>1 DEF Gates, Range
<1>5. ASSUME NEW g \in Gates PROVE Position(g) \in 1..11 /\ GateOrder[Position(g)] = g
  BY <1>1, <1>3 DEF Position
<1> QED
  BY <1>1, <1>2, <1>4, <1>5

\* Every decision is one of three, the last gate always passes, and the
\* structure, the classification and the flow fail together.
LEMMA GateDecisions ==
    ASSUME NEW r, NEW now
    PROVE  /\ \A g \in Gates : GateState(g, r, now) \in {"PASS", "WARN", "FAIL"}
           /\ GateState("lifecycle", r, now) = "PASS"
           /\ \A g \in {"structure", "setup_classification"} :
                GateState(g, r, now) = "FAIL" <=> GateState("flow", r, now) = "FAIL"
<1>1. \A g \in Gates :
        g \in {"discovery_context", "symbol_alignment", "higher_timeframe_structure",
               "structure", "setup_classification", "flow", "lbank_execution",
               "cross_exchange_consensus", "entry_alignment", "planning", "lifecycle"}
  BY DEF Gates, Range, GateOrder
<1>2. DiscoveryGate(r) \in {"PASS", "WARN", "FAIL"}
  BY DEF DiscoveryGate
<1>3. \A g \in {"symbol_alignment", "higher_timeframe_structure", "structure",
                "setup_classification", "flow", "lbank_execution", "entry_alignment",
                "planning"} : GateState(g, r, now) \in {"PASS", "FAIL"}
  BY DEF GateState, PassIf
<1>4. /\ GateState("discovery_context", r, now) = DiscoveryGate(r)
      /\ GateState("cross_exchange_consensus", r, now) \in {"PASS", "WARN", "FAIL"}
      /\ GateState("lifecycle", r, now) = "PASS"
  BY DEF GateState, PassIf
<1>5. /\ GateState("structure", r, now) = "FAIL" <=> AnalyzeStructure(r) # "ALERT"
      /\ GateState("setup_classification", r, now) = "FAIL" <=> AnalyzeStructure(r) # "ALERT"
      /\ GateState("flow", r, now) = "FAIL" <=> AnalyzeStructure(r) # "ALERT"
  BY DEF GateState, PassIf, ClassifySnapshot, RunFlow
<1> QED
  BY <1>1, <1>2, <1>3, <1>4, <1>5

\* Where assemble_signal returns: at a gate that failed, or at the last gate,
\* and it passed by none that returns.
LEMMA LastGateReturns ==
    ASSUME NEW r, NEW now
    PROVE  /\ LastGate(r, now) \in 1..11
           /\ LastGate(r, now) < 11 => Returns(GateOrder[LastGate(r, now)], r, now)
           /\ \A i \in 1..11 : i < LastGate(r, now) => ~Returns(GateOrder[i], r, now)
<1> DEFINE T == {i \in DOMAIN GateOrder : Returns(GateOrder[i], r, now)} \cup {Len(GateOrder)}
<1>1. /\ T \subseteq 1..11 /\ 11 \in T
      /\ \A i \in T : i < 11 => Returns(GateOrder[i], r, now)
      /\ \A i \in 1..11 : Returns(GateOrder[i], r, now) => i \in T
  BY GatePositions
<1>2. LastGate(r, now) = Min(T)
  BY DEF LastGate
<1> HIDE DEF T
<1>3. T \subseteq Nat /\ T # {}
  BY <1>1
<1>4. Min(T) \in T /\ \A y \in T : Min(T) <= y
  BY <1>3, MinOfNaturals
<1> DEFINE L == LastGate(r, now)
<1>5. L \in T /\ L \in 1..11 /\ \A y \in T : L <= y
  BY <1>1, <1>2, <1>4
<1>6. L < 11 => Returns(GateOrder[L], r, now)
  BY <1>1, <1>5
<1>7. ASSUME NEW i \in 1..11, i < L PROVE ~Returns(GateOrder[i], r, now)
  <2>1. i \notin T
    BY <1>5, <1>7
  <2> QED
    BY <1>1, <2>1
<1> QED
  BY <1>5, <1>6, <1>7

\* A report is ready exactly when no gate returned.
LEMMA ReadyAtLastGate ==
    ASSUME NEW r, NEW now
    PROVE  GateState(GateOrder[LastGate(r, now)], r, now) # "FAIL" <=> LastGate(r, now) = 11
<1>1. GateOrder[11] = "lifecycle"
  BY DEF GateOrder
<1>2. CASE LastGate(r, now) = 11
  BY <1>1, <1>2, GateDecisions
<1>3. CASE LastGate(r, now) # 11
  BY <1>3, LastGateReturns DEF Returns
<1> QED
  BY <1>2, <1>3

\* No gate that fails gives a report the status of a ready one.
LEMMA FailedIsNotReady ==
    ASSUME NEW r, NEW now, NEW g \in Gates
    PROVE  StatusOf(g, r, now) # "SHORT_READY"
<1>1. ValidateLBank(r.lbank, now) \in {"DATA_DEGRADED", "EXECUTION_PENDING", "OK"}
  BY DEF ValidateLBank
<1>2. ConsensusOf(r, now)
        \in {"DATA_DEGRADED", "EXECUTION_PENDING", "AVOID", "WARNING", "OK"}
  <2>1. \A m, d : ClassifyDeviation(m, d) \in {"DATA_DEGRADED", "AVOID", "WARNING", "OK"}
    BY DEF ClassifyDeviation
  <2> QED
    BY <1>1, <2>1 DEF ConsensusOf, Consensus
<1>3. WatchStatus(AnalyzeStructure(r)) \in {"HYPE_WATCH", "WEAKNESS_WATCH", "BREAKDOWN_WATCH"}
  BY DEF WatchStatus
<1> QED
  BY <1>1, <1>2, <1>3 DEF StatusOf

\* What assemble_signal reports, whatever the request and the time: the gates
\* account for the status, and the plan and the lifecycle follow it.
LEMMA ReportTrail ==
    ASSUME NEW r, NEW now, NEW ttl, NEW rep, rep = Report(r, now, ttl)
    PROVE  /\ (rep.status = "SHORT_READY") <=> LastGate(r, now) = 11
           /\ (rep.status = "SHORT_READY") <=> (rep.plan = "READY")
           /\ (rep.status = "SHORT_READY") <=> (rep.lifecycle.state = "ACTIVE")
           /\ rep.gates = CompleteGates(r, now)
<1> DEFINE L == LastGate(r, now)
           ready == GateState(GateOrder[L], r, now) # "FAIL"
<1>1. L \in 1..11 /\ GateOrder[L] \in Gates
  BY LastGateReturns, GatePositions
<1>2. StatusOf(GateOrder[L], r, now) # "SHORT_READY"
  BY <1>1, FailedIsNotReady
<1>3. ready <=> L = 11
  BY ReadyAtLastGate
<1>4. /\ rep.status = IF ready THEN "SHORT_READY" ELSE StatusOf(GateOrder[L], r, now)
      /\ rep.plan = IF ready THEN "READY" ELSE "HOLD"
      /\ rep.lifecycle = NewRecord(ready, now, ttl)
      /\ rep.gates = CompleteGates(r, now)
  BY DEF Report
<1>5. rep.lifecycle.state = IF ready THEN "ACTIVE" ELSE "PENDING"
  BY <1>4 DEF NewRecord
<1> HIDE DEF L, ready
<1> QED
  BY <1>2, <1>3, <1>4, <1>5 DEF L

\* After a gate that failed or was skipped, only the classification and the
\* flow can have been evaluated.
LEMMA SkippedAfterFailure ==
    ASSUME NEW r, NEW now, NEW g \in Gates, NEW h \in Gates,
           Position(g) < Position(h),
           CompleteGates(r, now)[g] \in {"FAIL", "SKIP"},
           h \notin {"setup_classification", "flow"}
    PROVE  CompleteGates(r, now)[h] = "SKIP"
<1> DEFINE L == LastGate(r, now)
<1>1. /\ Position(g) \in 1..11 /\ Position(h) \in 1..11 /\ L \in 1..11
      /\ GateOrder[Position(g)] = g /\ GateOrder[Position(h)] = h
  BY GatePositions, LastGateReturns
<1>2. L < Position(h) => CompleteGates(r, now)[h] = "SKIP"
  BY <1>1 DEF CompleteGates
<1>3. CASE L <= Position(g)
  BY <1>1, <1>2, <1>3
<1>4. CASE Position(g) < L
  <2>1. ~Returns(g, r, now)
    BY <1>1, <1>4, LastGateReturns
  <2>2. GateState(g, r, now) = "FAIL"
    <3>1. CompleteGates(r, now)[g] = GateState(g, r, now)
      BY <1>1, <1>4 DEF CompleteGates
    <3> QED
      BY <3>1, GateDecisions
  <2>3. g \in {"structure", "setup_classification"}
    BY <2>1, <2>2 DEF Returns
  <2>4. GateState("flow", r, now) = "FAIL"
    BY <2>2, <2>3, GateDecisions
  <2>5. /\ GateOrder[4] = "structure" /\ GateOrder[5] = "setup_classification"
        /\ GateOrder[6] = "flow"
    BY DEF GateOrder
  <2>6. Returns(GateOrder[6], r, now)
    BY <2>4, <2>5 DEF Returns
  <2>7. L <= 6
    BY <1>1, <2>6, LastGateReturns
  <2>8. Position(g) \in {4, 5} /\ Position(h) \notin {5, 6}
    BY <1>1, <2>3, <2>5, GatePositions
  <2> QED
    BY <1>1, <1>2, <2>7, <2>8
<1> QED
  BY <1>1, <1>3, <1>4

\* A report is ready exactly when every gate passed or warned.
LEMMA ReadyPassesAll ==
    ASSUME NEW r, NEW now
    PROVE  /\ LastGate(r, now) = 11 <=>
                \A g \in Gates : CompleteGates(r, now)[g] \in {"PASS", "WARN"}
           /\ LastGate(r, now) # 11 => \E g \in Gates : CompleteGates(r, now)[g] = "FAIL"
<1> DEFINE L == LastGate(r, now)
<1>1. L \in 1..11 /\ GateOrder[L] \in Gates /\ Position(GateOrder[L]) = L
  BY LastGateReturns, GatePositions
<1>2. CASE L # 11
  <2>1. GateState(GateOrder[L], r, now) = "FAIL"
    BY <1>1, <1>2, LastGateReturns DEF Returns
  <2>2. CompleteGates(r, now)[GateOrder[L]] = "FAIL"
    BY <1>1, <2>1 DEF CompleteGates
  <2> QED
    BY <1>1, <1>2, <2>2
<1>3. CASE L = 11
  <2>1. ASSUME NEW g \in Gates PROVE CompleteGates(r, now)[g] \in {"PASS", "WARN"}
    <3>1. Position(g) \in 1..11 /\ GateOrder[Position(g)] = g
      BY GatePositions
    <3>2. CompleteGates(r, now)[g] = GateState(g, r, now)
      BY <1>3, <3>1 DEF CompleteGates
    <3>3. GateState(g, r, now) # "FAIL"
      <4>1. CASE g = "lifecycle"
        BY <4>1, GateDecisions
      <4>2. CASE g # "lifecycle"
        <5>1. GateOrder[11] = "lifecycle" /\ GateOrder[6] = "flow"
          BY DEF GateOrder
        <5>2. Position(g) < L
          BY <1>3, <3>1, <4>2, <5>1
        <5>3. ~Returns(g, r, now) /\ ~Returns("flow", r, now)
          BY <1>3, <3>1, <5>1, <5>2, LastGateReturns
        <5> QED
          BY <5>3, GateDecisions DEF Returns
      <4> QED
        BY <4>1, <4>2
    <3> QED
      BY <3>2, <3>3, GateDecisions
  <2> QED
    BY <1>3, <2>1
<1> QED
  BY <1>2, <1>3

\* The gates of a report account for its status: it is ready exactly when no
\* gate failed or was skipped, nothing but the classification and the flow is
\* evaluated after a failed gate, and only a ready report has a plan and an
\* active lifecycle.
THEOREM GateTrailCorrect == AssemblySpec => []GateTrail
<1>1. AssemblyInv => GateTrail
  <2> SUFFICES ASSUME AssemblyInv, report # None PROVE GateTrail
    BY DEF GateTrail
  <2>1. PICK now \in Times, ttl \in Ttls : report = Report(request, now, ttl)
    BY DEF AssemblyInv
  <2>2. /\ (report.status = "SHORT_READY") <=> LastGate(request, now) = 11
        /\ (report.status = "SHORT_READY") <=> (report.plan = "READY")
        /\ (report.status = "SHORT_READY") <=> (report.lifecycle.state = "ACTIVE")
        /\ report.gates = CompleteGates(request, now)
    BY <2>1, ReportTrail
  <2>3. \A g, h \in Gates :
            /\ Position(g) < Position(h)
            /\ report.gates[g] \in {"FAIL", "SKIP"}
            /\ h \notin {"setup_classification", "flow"}
            => report.gates[h] = "SKIP"
    BY <2>2, SkippedAfterFailure
  <2>4. /\ (report.status = "SHORT_READY") <=>
             \A g \in Gates : report.gates[g] \in {"PASS", "WARN"}
        /\ report.status # "SHORT_READY" => \E g \in Gates : report.gates[g] = "FAIL"
    BY <2>2, ReadyPassesAll
  <2> QED
    BY <2>2, <2>3, <2>4 DEF GateTrail
<1> QED
  BY <1>1, AssemblyCorrect, PTL
----------------------------------------------------------------------------
(* The rows of the reports *)

\* Every row is of a call that is over: the call that is about to persist has
\* written nothing yet.
RowsOfPastCalls ==
    /\ attempts \in Nat
    /\ \A s \in rows : s.id \in Nat /\ s.id <= attempts
    /\ report # None => \A s \in rows : s.id # attempts

RowsInv == AssemblyInv /\ RowsOfPastCalls /\ StoredPairAgrees

\* The rows of one report agree, and no other row has their id.
LEMMA CommittedPairs ==
    ASSUME RowsInv, report # None, rows' = rows \cup ReportRows, attempts' = attempts
    PROVE  /\ StoredPairAgrees'
           /\ \A s \in rows' : s.id \in Nat /\ s.id <= attempts'
<1> DEFINE a0 == [id |-> attempts, type |-> "signal_assembly", state |-> report.status,
                  expires_at |-> report.lifecycle.expires_at]
           l0 == [id |-> attempts, type |-> "signal_lifecycle",
                  state |-> report.lifecycle.state,
                  expires_at |-> report.lifecycle.expires_at]
<1>1. (report.status = "SHORT_READY") <=> (report.lifecycle.state = "ACTIVE")
  <2>1. PICK now \in Times, ttl \in Ttls : report = Report(request, now, ttl)
    BY DEF RowsInv, AssemblyInv
  <2> QED
    BY <2>1, ReportTrail
<1>2. ReportRows = {a0, l0}
  BY DEF ReportRows
<1>3. /\ a0.id = attempts /\ a0.type = "signal_assembly" /\ a0.state = report.status
      /\ l0.id = attempts /\ l0.type = "signal_lifecycle"
      /\ l0.state = report.lifecycle.state
      /\ a0.expires_at = l0.expires_at
  OBVIOUS
<1> HIDE DEF a0, l0
<1>4. /\ attempts \in Nat
      /\ \A s \in rows : s.id \in Nat /\ s.id <= attempts /\ s.id # attempts
  BY DEF RowsInv, RowsOfPastCalls
<1>5. \A s \in rows' : s.id \in Nat /\ s.id <= attempts'
  BY <1>2, <1>3, <1>4
<1>6. ASSUME NEW r \in rows'
      PROVE  \E a, l \in rows' :
                /\ {a, l} = {s \in rows' : s.id = r.id}
                /\ a.type = "signal_assembly" /\ l.type = "signal_lifecycle"
                /\ a.expires_at = l.expires_at
                /\ (a.state = "SHORT_READY") <=> (l.state = "ACTIVE")
  <2>1. CASE r \in rows
    <3>1. PICK a \in rows, l \in rows :
                /\ {a, l} = {s \in rows : s.id = r.id}
                /\ a.type = "signal_assembly" /\ l.type = "signal_lifecycle"
                /\ a.expires_at = l.expires_at
                /\ (a.state = "SHORT_READY") <=> (l.state = "ACTIVE")
      BY <2>1 DEF RowsInv, StoredPairAgrees
    <3>2. {s \in rows' : s.id = r.id} = {s \in rows : s.id = r.id}
      BY <1>2, <1>3, <1>4, <2>1
    <3>3. a \in rows' /\ l \in rows'
      OBVIOUS
    <3> QED
      BY <3>1, <3>2, <3>3
  <2>2. CASE r \in {a0, l0}
    <3>1. {a0, l0} = {s \in rows' : s.id = r.id}
      BY <1>2, <1>3, <1>4, <2>2
    <3>2. a0 \in rows' /\ l0 \in rows'
      BY <1>2
    <3> QED
      BY <1>1, <1>3, <3>1, <3>2
  <2> QED
    BY <1>2, <2>1, <2>2
<1> QED
  BY <1>5, <1>6 DEF StoredPairAgrees

\* RowsInv, however often persist raised before or after its commit.
LEMMA RowsStep ==
    ASSUME RowsInv, AssemblyInv', [AssemblyNext]_avars
    PROVE  RowsInv'
<1> DEFINE Pairs(R) ==
        \A r \in R :
            \E a, l \in R :
                /\ {a, l} = {s \in R : s.id = r.id}
                /\ a.type = "signal_assembly" /\ l.type = "signal_lifecycle"
                /\ a.expires_at = l.expires_at
                /\ (a.state = "SHORT_READY") <=> (l.state = "ACTIVE")
<1>1. (StoredPairAgrees <=> Pairs(rows)) /\ (StoredPairAgrees' <=> Pairs(rows'))
  BY DEF StoredPairAgrees
<1> HIDE DEF Pairs
<1>2. StoredPairAgrees /\ rows' = rows => StoredPairAgrees'
  BY <1>1
<1>3. ASSUME rows' = rows, attempts' = attempts, report' = None \/ report' = report
      PROVE  RowsOfPastCalls' /\ StoredPairAgrees'
  BY <1>2, <1>3 DEF RowsInv, RowsOfPastCalls
<1>4. ASSUME rows' = rows, attempts' = attempts + 1
      PROVE  RowsOfPastCalls' /\ StoredPairAgrees'
  <2>1. StoredPairAgrees'
    BY <1>2, <1>4 DEF RowsInv
  <2>2. /\ attempts' \in Nat
        /\ \A s \in rows' : s.id \in Nat /\ s.id <= attempts' /\ s.id # attempts'
    BY <1>4 DEF RowsInv, RowsOfPastCalls
  <2> QED
    BY <2>1, <2>2 DEF RowsOfPastCalls
<1>5. ASSUME rows' = rows \cup ReportRows, attempts' = attempts, report # None,
             report' = None
      PROVE  RowsOfPastCalls' /\ StoredPairAgrees'
  BY <1>5, CommittedPairs DEF RowsInv, RowsOfPastCalls
<1>6. \/ /\ rows' = rows /\ attempts' = attempts /\ (report' = None \/ report' = report)
      \/ rows' = rows /\ attempts' = attempts + 1
      \/ /\ rows' = rows \cup ReportRows /\ attempts' = attempts
         /\ report # None /\ report' = None
  BY DEF AssemblyNext, avars, Submit, Assemble, AssembleRaises, LifecycleCall, Persist,
         PersistRaises
<1> QED
  BY <1>3, <1>4, <1>5, <1>6 DEF RowsInv

\* However often the database raised, before the commit or after it, and the
\* call was repeated: a report left both of its rows or none, they expire
\* together, and the lifecycle row is ACTIVE exactly beside a SHORT_READY one.
THEOREM StoredPairCorrect == AssemblySpec => []StoredPairAgrees
<1>1. AssemblyInit => RowsOfPastCalls /\ StoredPairAgrees
  BY DEF AssemblyInit, RowsOfPastCalls, StoredPairAgrees
<1>2. AssemblyInv /\ RowsOfPastCalls /\ StoredPairAgrees /\ AssemblyInv'
        /\ [AssemblyNext]_avars
        => (RowsOfPastCalls /\ StoredPairAgrees)'
  BY RowsStep DEF RowsInv
<1> QED
  BY <1>1, <1>2, AssemblyCorrect, PTL DEF AssemblySpec
----------------------------------------------------------------------------
(* Types *)

\* A report is well formed, whatever the request: in particular the status of
\* the gate that returned it is one of the statuses, not an OK or a WARNING of
\* a check that let the request through.
LEMMA ReportTyping ==
    ASSUME NEW r, NEW now \in Times, NEW ttl \in Ttls, NEW rep, rep = Report(r, now, ttl)
    PROVE  /\ rep.status \in Statuses /\ rep.plan \in {"READY", "HOLD"}
           /\ rep.gates \in [Gates -> GateStates]
           /\ rep.lifecycle \in Record
<1> DEFINE last == GateOrder[LastGate(r, now)]
           ready == GateState(last, r, now) # "FAIL"
<1>1. /\ rep.status = IF ready THEN "SHORT_READY" ELSE StatusOf(last, r, now)
      /\ rep.plan = IF ready THEN "READY" ELSE "HOLD"
      /\ rep.lifecycle = NewRecord(ready, now, ttl)
      /\ rep.gates = CompleteGates(r, now)
  BY DEF Report
<1>2. CompleteGates(r, now) \in [Gates -> GateStates]
  <2>1. \A g \in Gates : GateState(g, r, now) \in GateStates
    BY GateDecisions DEF GateStates
  <2> QED
    BY <2>1 DEF CompleteGates, GateStates
<1>3. NewRecord(ready, now, ttl) \in Record
  <2>1. now \in Int /\ ttl \in Int /\ now + ttl \in Int
    BY LifecycleAssumption
  <2> QED
    BY <2>1 DEF NewRecord, Record, States
<1>4. ~ready => StatusOf(last, r, now) \in Statuses
  <2>1. \/ ValidateLBank(r.lbank, now) \in {"DATA_DEGRADED", "EXECUTION_PENDING"}
        \/ ValidateLBank(r.lbank, now) = "OK"
    BY DEF ValidateLBank
  <2>2. \/ ConsensusOf(r, now) \in {"DATA_DEGRADED", "EXECUTION_PENDING", "AVOID"}
        \/ ConsensusOf(r, now) \in {"WARNING", "OK"}
    <3>1. \A m, d : ClassifyDeviation(m, d) \in {"DATA_DEGRADED", "AVOID", "WARNING", "OK"}
      BY DEF ClassifyDeviation
    <3> QED
      BY <2>1, <3>1 DEF ConsensusOf, Consensus
  <2>3. GateState("lbank_execution", r, now) = "FAIL" => ValidateLBank(r.lbank, now) # "OK"
    BY DEF GateState, PassIf
  <2>4. GateState("cross_exchange_consensus", r, now) = "FAIL"
          => ConsensusOf(r, now) \notin {"WARNING", "OK"}
    BY DEF GateState, PassIf
  <2>5. WatchStatus(AnalyzeStructure(r)) \in Statuses
    BY DEF WatchStatus, Statuses
  <2> HIDE DEF last
  <2> QED
    BY <2>1, <2>2, <2>3, <2>4, <2>5 DEF StatusOf, Statuses
<1> HIDE DEF last, ready
<1> QED
  BY <1>1, <1>2, <1>3, <1>4 DEF Statuses

\* The assembly's type invariant; the calls stay within their bound.
THEOREM AssemblyTypeCorrect == AssemblySpec => []AssemblyTypeOK
<1> DEFINE Bounded == /\ request # None => IsRequest(request)
                      /\ attempts \in 0..MaxAttempts
<1>1. AssemblyInit => Bounded
  BY AssemblyAssumption DEF AssemblyInit
<1>2. Bounded /\ [AssemblyNext]_avars => Bounded'
  <2> SUFFICES ASSUME Bounded, [AssemblyNext]_avars PROVE Bounded'
    OBVIOUS
  <2>1. \/ request' = request
        \/ request' = None
        \/ request' \in Requests
    BY DEF AssemblyNext, avars, Submit, Assemble, AssembleRaises, LifecycleCall, Persist,
           PersistRaises
  <2>2. \/ attempts' = attempts
        \/ attempts' = attempts + 1 /\ attempts < MaxAttempts
    BY DEF AssemblyNext, avars, Submit, Assemble, AssembleRaises, LifecycleCall, Persist,
           PersistRaises, Calls
  <2>3. request' # None => IsRequest(request')
    BY <2>1, AssemblyAssumption
  <2>4. attempts' \in 0..MaxAttempts
    BY <2>2, AssemblyAssumption
  <2> QED
    BY <2>3, <2>4
<1>3. AssemblyInv /\ LifecycleInv /\ Bounded => AssemblyTypeOK
  <2> SUFFICES ASSUME AssemblyInv, LifecycleInv, Bounded PROVE AssemblyTypeOK
    OBVIOUS
  <2>1. ASSUME report # None
        PROVE  /\ report.status \in Statuses /\ report.plan \in {"READY", "HOLD"}
               /\ report.gates \in [Gates -> GateStates]
               /\ report.lifecycle \in Record
    <3>1. PICK now \in Times, ttl \in Ttls : report = Report(request, now, ttl)
      BY <2>1 DEF AssemblyInv
    <3> QED
      BY <3>1, ReportTyping
  <2> QED
    BY <2>1 DEF AssemblyTypeOK, LifecycleInv
<1>4. AssemblySpec => []LifecycleInv
  BY LifecycleRefinement, LifecycleCorrect DEF ImplementsLifecycle
<1> QED
  BY <1>1, <1>2, <1>3, <1>4, AssemblyCorrect, PTL DEF AssemblySpec
----------------------------------------------------------------------------
(* What a ready report rests on *)

\* ReadyIffBacked, but for the arithmetic of the median: SHORT_READY exactly
\* when the request met every other condition at the time of the call and
\* build_cross_exchange_consensus confirmed the price then.
ReadyIffConfirmed ==
    report # None =>
        (report.status = "SHORT_READY" <=>
            /\ Eligible(request, report.assembled_at)
            /\ Confirms(ConsensusOf(request, report.assembled_at)))

\* Every gate lets a request through exactly under its condition.
LEMMA GateConditions ==
    ASSUME NEW r, IsRequest(r), NEW now \in Int
    PROVE  /\ GateState("discovery_context", r, now) # "FAIL"
                <=> r.discovery <= MaxDiscoveryRecords
           /\ GateState("symbol_alignment", r, now) # "FAIL" <=> SymbolsAligned(r)
           /\ GateState("higher_timeframe_structure", r, now) # "FAIL"
                <=> StructureDated(r, now) /\ Damaged(r)
           /\ \A g \in {"structure", "setup_classification", "flow"} :
                GateState(g, r, now) # "FAIL" <=> r.structure.current < r.structure.low
           /\ GateState("lbank_execution", r, now) # "FAIL"
                <=> ValidateLBank(r.lbank, now) = "OK"
           /\ GateState("cross_exchange_consensus", r, now) # "FAIL"
                <=> Confirms(ConsensusOf(r, now))
           /\ GateState("entry_alignment", r, now) # "FAIL" <=> ~EntryTooFar(r)
           /\ GateState("planning", r, now) # "FAIL" <=> PlanAccepted(r.plan)
<1>1. GateState("discovery_context", r, now) # "FAIL" <=> r.discovery <= MaxDiscoveryRecords
  <2>1. GateState("discovery_context", r, now) = DiscoveryGate(r)
    BY DEF GateState
  <2>2. r.discovery \in Nat /\ MaxDiscoveryRecords \in Int
    BY AssemblyAssumption DEF IsRequest
  <2> QED
    BY <2>1, <2>2 DEF DiscoveryGate
<1>2. /\ GateState("symbol_alignment", r, now) # "FAIL" <=> SymbolsAligned(r)
      /\ GateState("higher_timeframe_structure", r, now) # "FAIL"
           <=> StructureDated(r, now) /\ Damaged(r)
      /\ GateState("lbank_execution", r, now) # "FAIL" <=> ValidateLBank(r.lbank, now) = "OK"
      /\ GateState("entry_alignment", r, now) # "FAIL" <=> ~EntryTooFar(r)
      /\ GateState("planning", r, now) # "FAIL" <=> PlanAccepted(r.plan)
  BY DEF GateState, PassIf
<1>3. GateState("cross_exchange_consensus", r, now) # "FAIL" <=> Confirms(ConsensusOf(r, now))
  BY DEF GateState, PassIf, Confirms
<1>4. AnalyzeStructure(r) = "ALERT" <=> r.structure.current < r.structure.low
  <2>1. r.structure.current \in Int /\ r.structure.low \in Int
    BY DEF IsRequest
  <2> QED
    BY <2>1 DEF AnalyzeStructure
<1>5. \A g \in {"structure", "setup_classification", "flow"} :
        GateState(g, r, now) # "FAIL" <=> AnalyzeStructure(r) = "ALERT"
  BY DEF GateState, PassIf, ClassifySnapshot, RunFlow
<1> QED
  BY <1>1, <1>2, <1>3, <1>4, <1>5

\* The conditions of the gates are those of Eligible, as ages and distances
\* are compared by the code.
LEMMA EligibleConditions ==
    ASSUME NEW r, IsRequest(r), NEW now \in Int, Confirms(ConsensusOf(r, now))
    PROVE  Eligible(r, now) <=>
                /\ r.discovery <= MaxDiscoveryRecords /\ SymbolsAligned(r)
                /\ StructureDated(r, now) /\ Damaged(r)
                /\ r.structure.current < r.structure.low
                /\ ValidateLBank(r.lbank, now) = "OK"
                /\ ~EntryTooFar(r) /\ PlanAccepted(r.plan)
<1>1. /\ r.lbank \in LBankSnapshot /\ r.htf.observed_at \in Int /\ r.plan.entry \in Int
      /\ FutureTolerance \in Nat /\ MaxLBankAge \in Nat /\ MaxStructureAge \in Nat
      /\ MaxEntryDeviation \in Nat
  BY AssemblyAssumption, RulesAssumption DEF IsRequest
<1>2. r.lbank.received_at \in Int /\ r.lbank.mid \in Int
  BY <1>1 DEF LBankSnapshot
<1>3. StructureDated(r, now)
        <=> now - r.htf.observed_at \in (-FutureTolerance)..MaxStructureAge
  BY <1>1 DEF StructureDated, FromFuture, Stale
<1>4. ValidateLBank(r.lbank, now) = "OK"
        <=> /\ now - r.lbank.received_at \in (-FutureTolerance)..MaxLBankAge
            /\ ~(r.lbank.slow \/ r.lbank.wide \/ r.lbank.thin_bid \/ r.lbank.thin_ask)
  <2>1. /\ FromFuture(r.lbank.received_at, now) <=> now - r.lbank.received_at < -FutureTolerance
        /\ Stale(r.lbank.received_at, now, MaxLBankAge) <=> now - r.lbank.received_at > MaxLBankAge
    BY DEF FromFuture, Stale
  <2>2. now - r.lbank.received_at \in (-FutureTolerance)..MaxLBankAge
          <=> ~(FromFuture(r.lbank.received_at, now) \/ Stale(r.lbank.received_at, now, MaxLBankAge))
    BY <1>1, <1>2, <2>1
  <2> QED
    BY <2>2 DEF ValidateLBank
<1>5. ~EntryTooFar(r)
        <=> /\ 10000 * (r.plan.entry - r.lbank.mid) <= MaxEntryDeviation * r.lbank.mid
            /\ 10000 * (r.lbank.mid - r.plan.entry) <= MaxEntryDeviation * r.lbank.mid
  <2> DEFINE e == r.plan.entry
             m == r.lbank.mid
             bound == MaxEntryDeviation * m
  <2>1. e \in Int /\ m \in Nat \ {0} /\ bound \in Nat
    BY <1>1 DEF LBankSnapshot
  <2>2. EntryTooFar(r) <=> (IF e > m THEN e - m ELSE m - e) * 10000 > bound
    BY DEF EntryTooFar, Distance
  <2> HIDE DEF e, m, bound
  <2>3. EntryTooFar(r) <=> ~(10000 * (e - m) <= bound /\ 10000 * (m - e) <= bound)
    BY <2>1, <2>2
  <2> QED
    BY <2>3 DEF e, m, bound
<1>6. r.map.reliable /\ r.lbank.symbol = r.map.lbank
  BY DEF Confirms, ConsensusOf, Consensus
<1>7. SymbolsAligned(r) <=>
        \A s \in {r.map.canonical, r.htf.symbol, r.structure.symbol, r.plan.symbol} :
            s = r.symbol
  BY <1>6 DEF SymbolsAligned
<1>8. PlanAccepted(r.plan) => r.plan.entry > 0
  BY DEF PlanAccepted
<1> QED
  BY <1>3, <1>4, <1>5, <1>6, <1>7, <1>8 DEF Eligible, Damaged

\* A request is assembled into a ready report exactly when every gate would
\* let it through.
LEMMA ReadyConditions ==
    ASSUME NEW r, IsRequest(r), NEW now \in Int
    PROVE  LastGate(r, now) = 11 <=> Eligible(r, now) /\ Confirms(ConsensusOf(r, now))
<1>1. LastGate(r, now) = 11 <=> \A g \in Gates : GateState(g, r, now) # "FAIL"
  <2>1. CASE LastGate(r, now) = 11
    <3>1. ASSUME NEW g \in Gates PROVE GateState(g, r, now) # "FAIL"
      <4>1. CompleteGates(r, now)[g] \in {"PASS", "WARN"}
        BY <2>1, ReadyPassesAll
      <4>2. CompleteGates(r, now)[g] = GateState(g, r, now)
        BY <2>1, GatePositions DEF CompleteGates
      <4> QED
        BY <4>1, <4>2
    <3> QED
      BY <2>1, <3>1
  <2>2. CASE LastGate(r, now) # 11
    BY <2>2, LastGateReturns, GatePositions DEF Returns
  <2> QED
    BY <2>1, <2>2
<1>2. Gates = {"discovery_context", "symbol_alignment", "higher_timeframe_structure",
               "structure", "setup_classification", "flow", "lbank_execution",
               "cross_exchange_consensus", "entry_alignment", "planning", "lifecycle"}
  BY DEF Gates, Range, GateOrder
<1>3. LastGate(r, now) = 11 <=>
        /\ r.discovery <= MaxDiscoveryRecords /\ SymbolsAligned(r)
        /\ StructureDated(r, now) /\ Damaged(r)
        /\ r.structure.current < r.structure.low
        /\ ValidateLBank(r.lbank, now) = "OK" /\ Confirms(ConsensusOf(r, now))
        /\ ~EntryTooFar(r) /\ PlanAccepted(r.plan)
  <2>1. GateState("lifecycle", r, now) # "FAIL"
    BY GateDecisions
  <2> QED
    BY <1>1, <1>2, <2>1, GateConditions
<1> QED
  BY <1>3, EligibleConditions

\* Neither an old, foreign or unhealthy snapshot nor a late call gets a request
\* through, and no gate refuses one that meets every condition; for every
\* request and every setting of the rules.
THEOREM ReadyCorrect == AssemblySpec => []ReadyIffConfirmed
<1>1. AssemblyInv /\ AssemblyTypeOK => ReadyIffConfirmed
  <2> SUFFICES ASSUME AssemblyInv, AssemblyTypeOK, report # None PROVE ReadyIffConfirmed
    BY DEF ReadyIffConfirmed
  <2>1. PICK now \in Times, ttl \in Ttls : report = Report(request, now, ttl)
    BY DEF AssemblyInv
  <2>2. IsRequest(request) /\ now \in Int
    BY LifecycleAssumption DEF AssemblyInv, AssemblyTypeOK
  <2>3. report.assembled_at = now
    BY <2>1 DEF Report
  <2>4. (report.status = "SHORT_READY") <=> LastGate(request, now) = 11
    BY <2>1, ReportTrail
  <2> QED
    BY <2>2, <2>3, <2>4, ReadyConditions DEF ReadyIffConfirmed
<1> QED
  BY <1>1, AssemblyCorrect, AssemblyTypeCorrect, PTL
----------------------------------------------------------------------------
(* The median of the benchmarks' prices.                                     *)

\* h of the first n numbers neither cover nor avoid more than they are.
Spread(K, h, n) ==
    /\ h < n => \E k \in 1..(h + 1) : k \notin K
    /\ 0 < h => \E k \in h..n : k \in K
    /\ (\E k \in 1..h : k \notin K) => \E k \in (h + 1)..n : k \in K
    /\ (\E k \in (h + 1)..n : k \in K) => \E k \in 1..h : k \notin K

\* A set of h of the first n numbers is spread like this.
LEMMA HalfOfInterval ==
    ASSUME NEW n \in Nat, NEW h \in Nat, h <= n,
           NEW K \in SUBSET (1..n), Cardinality(K) = h
    PROVE  Spread(K, h, n)
<1>1. IsFiniteSet(1..n) /\ IsFiniteSet(1..h) /\ Cardinality(1..h) = h
  BY FS_Interval
<1>2. IsFiniteSet(K)
  BY <1>1, FS_Subset
<1>3. ASSUME h < n, \A k \in 1..(h + 1) : k \in K PROVE FALSE
  <2>1. 1..(h + 1) \in SUBSET K
    BY <1>3
  <2>2. Cardinality(1..(h + 1)) = h + 1
    BY FS_Interval
  <2> QED
    BY <1>2, <2>1, <2>2, FS_Subset
<1>4. ASSUME 0 < h, \A k \in h..n : k \notin K PROVE FALSE
  <2> DEFINE I == 1..(h - 1)
  <2>1. K \in SUBSET I
    BY <1>4
  <2>2. IsFiniteSet(I) /\ Cardinality(I) = h - 1
    BY <1>4, FS_Interval
  <2> HIDE DEF I
  <2>3. Cardinality(K) <= h - 1
    BY <2>1, <2>2, FS_Subset
  <2> QED
    BY <2>3
<1>5. ASSUME NEW m \in 1..h, m \notin K, \A k \in (h + 1)..n : k \notin K PROVE FALSE
  <2> DEFINE I == (1..h) \ {m}
  <2>1. K \in SUBSET I
    BY <1>5
  <2>2. IsFiniteSet(I) /\ Cardinality(I) = h - 1
    BY <1>1, FS_RemoveElement
  <2> HIDE DEF I
  <2>3. Cardinality(K) <= h - 1
    BY <2>1, <2>2, FS_Subset
  <2> QED
    BY <2>3
<1>6. ASSUME NEW m \in (h + 1)..n, m \in K, \A k \in 1..h : k \in K PROVE FALSE
  <2> DEFINE H == 1..h
             I == H \cup {m}
  <2>1. I \in SUBSET K
    BY <1>6
  <2>2. m \notin H /\ IsFiniteSet(H) /\ Cardinality(H) = h
    BY <1>1, <1>6
  <2> HIDE DEF H
  <2>3. Cardinality(I) = h + 1
    BY <2>2, FS_AddElement
  <2> HIDE DEF I
  <2>4. h + 1 <= Cardinality(K)
    BY <1>2, <2>1, <2>3, FS_Subset
  <2> QED
    BY <2>4
<1> QED
  BY <1>3, <1>4, <1>5, <1>6 DEF Spread

\* q lists the prices p of the sources S in order.
Lists(q, at, n, p, S) ==
    /\ n \in Nat /\ at \in Bijection(1..n, S) /\ p \in [S -> Nat]
    /\ q \in [1..n -> Nat] /\ \A k \in 1..n : q[k] = p[at[k]]
    /\ \A i, k \in 1..n : i < k => q[i] <= q[k]

\* The halves of TwiceMedianOf.
IsLower(L, p, S) ==
    /\ L \in SUBSET S
    /\ 2 * Cardinality(L) \in {Cardinality(S), Cardinality(S) - 1}
    /\ \A a \in L, b \in S \ L : p[a] <= p[b]

\* The lower half ends and the upper half begins with the middle prices.
Meet(L, q, n, p, S) ==
    LET h == Cardinality(L)
    IN /\ h \in 0..(n - 1) /\ 2 * h \in {n, n - 1}
       /\ Min({p[s] : s \in S \ L}) = q[h + 1]
       /\ 0 < h => Max({p[s] : s \in L}) = q[h]

\* They do, however the lower half is chosen.
LEMMA HalvesMeet ==
    ASSUME NEW q, NEW at, NEW n, NEW p, NEW S, Lists(q, at, n, p, S), 0 < n,
           NEW L, IsLower(L, p, S)
    PROVE  Meet(L, q, n, p, S)
<1> DEFINE h == Cardinality(L)
           K == {k \in 1..n : at[k] \in L}
<1>1. /\ n \in Nat /\ at \in [1..n -> S] /\ q \in [1..n -> Nat] /\ p \in [S -> Nat]
      /\ \A s \in S : \E k \in 1..n : at[k] = s
      /\ \A i, k \in 1..n : at[i] = at[k] => i = k
      /\ \A k \in 1..n : q[k] = p[at[k]]
      /\ \A i, k \in 1..n : i < k => q[i] <= q[k]
  BY DEF Lists, Bijection, Injection, Surjection, IsInjective
<1>2. IsFiniteSet(S) /\ Cardinality(S) = n
  <2>1. ExistsBijection(1..n, S)
    BY DEF Lists, ExistsBijection
  <2> QED
    BY <1>1, <2>1, FS_NatBijection, FS_CountingElements
<1>3. /\ IsFiniteSet(L) /\ L \subseteq S /\ h \in Nat /\ 2 * h \in {n, n - 1}
  <2>1. L \in SUBSET S /\ 2 * Cardinality(L) \in {n, n - 1}
    BY <1>2 DEF IsLower
  <2> QED
    BY <1>2, <2>1, FS_Subset, FS_CardinalityType
<1>4. h \in 0..(n - 1)
  BY <1>1, <1>3
<1>5. K \in SUBSET (1..n) /\ Cardinality(K) = h
  <2> DEFINE g == [k \in K |-> at[k]]
  <2>1. g \in Bijection(K, L)
    <3>1. g \in [K -> L]
      OBVIOUS
    <3>2. \A i, k \in K : g[i] = g[k] => i = k
      BY <1>1
    <3>3. \A s \in L : \E k \in K : g[k] = s
      BY <1>1, <1>3
    <3> QED
      BY <3>1, <3>2, <3>3 DEF Bijection, Injection, Surjection, IsInjective
  <2>2. IsFiniteSet(1..n)
    BY <1>1, FS_Interval
  <2>3. IsFiniteSet(K)
    BY <2>2, FS_Subset
  <2>4. ExistsBijection(K, L)
    BY <2>1 DEF ExistsBijection
  <2> QED
    BY <2>3, <2>4, FS_Bijection
<1> HIDE DEF h
<1>6. /\ \E k \in 1..(h + 1) : k \notin K
      /\ 0 < h => \E k \in h..n : k \in K
      /\ (\E k \in 1..h : k \notin K) => \E k \in (h + 1)..n : k \in K
      /\ (\E k \in (h + 1)..n : k \in K) => \E k \in 1..h : k \notin K
  <2>1. h <= n /\ h < n
    BY <1>1, <1>4
  <2> HIDE DEF K
  <2>2. Spread(K, h, n)
    BY <1>1, <1>3, <1>5, <2>1, HalfOfInterval
  <2> QED
    BY <2>1, <2>2 DEF Spread
<1>7. \A i, k \in 1..n : i <= k => q[i] <= q[k]
  BY <1>1
<1>8. \A i \in 1..n, k \in 1..n : i \in K /\ k \notin K => q[i] <= q[k]
  <2> SUFFICES ASSUME NEW i \in 1..n, NEW k \in 1..n, i \in K, k \notin K PROVE q[i] <= q[k]
    OBVIOUS
  <2>1. at[i] \in L /\ at[k] \in S \ L
    BY <1>1
  <2> QED
    BY <1>1, <2>1 DEF IsLower
<1>9. {p[s] : s \in S \ L} = {q[k] : k \in (1..n) \ K}
  <2>1. ASSUME NEW s \in S \ L PROVE \E k \in (1..n) \ K : q[k] = p[s]
    BY <1>1, <2>1
  <2>2. ASSUME NEW k \in (1..n) \ K PROVE \E s \in S \ L : p[s] = q[k]
    BY <1>1, <2>2
  <2> QED
    BY <2>1, <2>2
<1>10. {p[s] : s \in L} = {q[k] : k \in K}
  <2>1. ASSUME NEW s \in L PROVE \E k \in K : q[k] = p[s]
    BY <1>1, <1>3, <2>1
  <2>2. ASSUME NEW k \in K PROVE \E s \in L : p[s] = q[k]
    BY <1>1, <2>2
  <2> QED
    BY <2>1, <2>2
<1>11. K \subseteq 1..n
  OBVIOUS
<1> HIDE DEF K
<1>12. Min({p[s] : s \in S \ L}) = q[h + 1]
  <2> DEFINE T == {q[k] : k \in (1..n) \ K}
  <2>1. PICK k \in 1..(h + 1) : k \notin K
    BY <1>6
  <2>2. k \in 1..n /\ h + 1 \in 1..n
    BY <1>1, <1>4
  <2>3. T \subseteq Nat /\ T # {} /\ q[k] \in T
    BY <1>1, <2>1, <2>2
  <2>4. Min(T) \in T /\ \A y \in T : Min(T) <= y
    BY <2>3, MinOfNaturals
  <2>5. PICK m \in (1..n) \ K : Min(T) = q[m]
    BY <2>4
  <2>6. q[m] <= q[h + 1]
    <3>1. q[m] <= q[k]
      BY <2>3, <2>4, <2>5
    <3>2. q[k] <= q[h + 1]
      BY <1>1, <1>3, <1>7, <2>2
    <3>3. q[m] \in Nat /\ q[k] \in Nat /\ q[h + 1] \in Nat
      BY <1>1, <2>2
    <3> QED
      BY <3>1, <3>2, <3>3
  <2>7. q[h + 1] <= q[m]
    <3>1. CASE h + 1 <= m
      BY <1>7, <2>2, <3>1
    <3>2. CASE m < h + 1
      <4>1. m \in 1..h
        BY <1>3, <3>2
      <4>2. PICK j \in (h + 1)..n : j \in K
        BY <1>6, <4>1
      <4>3. j \in 1..n /\ h + 1 <= j
        BY <1>3, <4>2
      <4>4. q[h + 1] <= q[j] /\ q[j] <= q[m]
        BY <1>7, <1>8, <2>2, <4>2, <4>3
      <4>5. q[m] \in Nat /\ q[j] \in Nat /\ q[h + 1] \in Nat
        BY <1>1, <2>2, <4>3
      <4> QED
        BY <4>4, <4>5
    <3> QED
      BY <1>1, <1>3, <3>1, <3>2
  <2>8. q[m] = q[h + 1]
    <3>1. q[m] \in Nat /\ q[h + 1] \in Nat
      BY <1>1, <2>2
    <3> QED
      BY <2>6, <2>7, <3>1
  <2> QED
    BY <1>9, <2>5, <2>8
<1>13. ASSUME 0 < h PROVE Max({p[s] : s \in L}) = q[h]
  <2>1. PICK k \in h..n : k \in K
    BY <1>6, <1>13
  <2>2. k \in 1..n /\ h \in 1..n
    BY <1>1, <1>3, <1>4, <1>13
  <2>3. ASSUME NEW m \in K PROVE q[m] <= q[h]
    <3>1. CASE m <= h
      BY <1>7, <1>11, <2>2, <3>1
    <3>2. CASE h < m
      <4>1. m \in (h + 1)..n
        BY <1>1, <1>3, <1>11, <3>2
      <4>2. PICK j \in 1..h : j \notin K
        BY <1>6, <4>1
      <4>3. j \in 1..n /\ j <= h
        BY <1>1, <1>4, <4>2
      <4>4. q[m] <= q[j] /\ q[j] <= q[h]
        BY <1>7, <1>8, <1>11, <2>2, <4>2, <4>3
      <4>5. q[m] \in Nat /\ q[j] \in Nat /\ q[h] \in Nat
        BY <1>1, <1>11, <2>2, <4>3
      <4> QED
        BY <4>4, <4>5
    <3> QED
      BY <1>1, <1>3, <1>11, <3>1, <3>2
  <2>4. q[h] <= q[k] /\ q[k] <= q[h]
    BY <1>7, <2>1, <2>2, <2>3
  <2>5. q[h] \in {q[i] : i \in K}
    <3>1. q[h] \in Nat /\ q[k] \in Nat
      BY <1>1, <2>2
    <3>2. q[h] = q[k]
      BY <2>4, <3>1
    <3> QED
      BY <2>1, <3>2
  <2> DEFINE T == {q[i] : i \in K}
  <2>6. \A y \in T : y <= q[h]
    BY <2>3
  <2>7. T \subseteq 0..q[h] /\ T # {} /\ q[h] \in Nat
    BY <1>1, <1>11, <2>2, <2>5, <2>6
  <2>8. Max(T) \in T /\ \A y \in T : y <= Max(T)
    BY <2>7, MaxOfBounded
  <2>9. Max(T) = q[h]
    <3>1. Max(T) \in Nat /\ Max(T) <= q[h] /\ q[h] <= Max(T)
      BY <2>5, <2>6, <2>7, <2>8
    <3> QED
      BY <2>7, <3>1
  <2> QED
    BY <1>10, <2>9
<1> QED
  BY <1>3, <1>4, <1>12, <1>13 DEF h, Meet

\* There is a lower half.
LEMMA LowerExists ==
    ASSUME NEW q, NEW at, NEW n, NEW p, NEW S, Lists(q, at, n, p, S)
    PROVE  \E L : IsLower(L, p, S)
<1>1. /\ n \in Nat /\ at \in [1..n -> S] /\ q \in [1..n -> Nat] /\ p \in [S -> Nat]
      /\ \A s \in S : \E k \in 1..n : at[k] = s
      /\ \A i, k \in 1..n : at[i] = at[k] => i = k
      /\ \A k \in 1..n : q[k] = p[at[k]]
      /\ \A i, k \in 1..n : i < k => q[i] <= q[k]
  BY DEF Lists, Bijection, Injection, Surjection, IsInjective
<1>2. Cardinality(S) = n
  <2>1. ExistsBijection(1..n, S)
    BY DEF Lists, ExistsBijection
  <2> QED
    BY <1>1, <2>1, FS_CountingElements
<1>3. PICK h \in Nat : 2 * h \in {n, n - 1}
  <2>1. n \div 2 \in Nat /\ 2 * (n \div 2) \in {n, n - 1}
    BY <1>1
  <2> QED
    BY <2>1
<1> DEFINE L == {at[k] : k \in 1..h}
<1>4. \A k \in 1..h : k \in 1..n
  BY <1>1, <1>3
<1>5. Cardinality(L) = h
  <2> DEFINE g == [k \in 1..h |-> at[k]]
  <2>1. g \in [1..h -> L] /\ \A s \in L : \E k \in 1..h : g[k] = s
    OBVIOUS
  <2>2. \A i, k \in 1..h : g[i] = g[k] => i = k
    BY <1>1, <1>4
  <2>3. g \in Bijection(1..h, L)
    BY <2>1, <2>2 DEF Bijection, Injection, Surjection, IsInjective
  <2>4. ExistsBijection(1..h, L)
    BY <2>3 DEF ExistsBijection
  <2> QED
    BY <2>4, FS_CountingElements
<1>6. L \in SUBSET S
  BY <1>1, <1>4
<1>7. ASSUME NEW a \in L, NEW b \in S \ L PROVE p[a] <= p[b]
  <2>1. PICK i \in 1..h : a = at[i]
    BY <1>7
  <2>2. PICK k \in 1..n : b = at[k]
    BY <1>1, <1>7
  <2>3. i \in 1..n /\ i < k
    BY <1>1, <1>3, <1>4, <1>7, <2>1, <2>2
  <2> QED
    BY <1>1, <2>1, <2>2, <2>3
<1> HIDE DEF L
<1>8. IsLower(L, p, S)
  BY <1>2, <1>3, <1>5, <1>6, <1>7 DEF IsLower
<1> QED
  BY <1>8

\* statistics.median of the sorted prices is the median of the sources' prices.
LEMMA MedianAgrees ==
    ASSUME NEW q, NEW at, NEW n, NEW p, NEW S, Lists(q, at, n, p, S), 0 < n
    PROVE  TwiceMedianOf(p, S) = TwiceMedian(q)
<1> DEFINE L == CHOOSE X \in SUBSET S :
                  /\ 2 * Cardinality(X) \in {Cardinality(S), Cardinality(S) - 1}
                  /\ \A a \in X, b \in S \ X : p[a] <= p[b]
           h == Cardinality(L)
           above == Min({p[s] : s \in S \ L})
           below == Max({p[s] : s \in L})
<1>1. \E X \in SUBSET S :
         /\ 2 * Cardinality(X) \in {Cardinality(S), Cardinality(S) - 1}
         /\ \A a \in X, b \in S \ X : p[a] <= p[b]
  BY LowerExists DEF IsLower
<1>2. IsLower(L, p, S)
  BY <1>1 DEF IsLower
<1>3. TwiceMedianOf(p, S) = IF Cardinality(S) % 2 = 0 THEN below + above ELSE 2 * above
  BY DEF TwiceMedianOf
<1> HIDE DEF L
<1>4. /\ h \in 0..(n - 1) /\ 2 * h \in {n, n - 1}
      /\ above = q[h + 1]
      /\ 0 < h => below = q[h]
  <2>1. Meet(L, q, n, p, S)
    BY <1>2, HalvesMeet
  <2> QED
    BY <2>1 DEF Meet
<1>5. n \in Nat /\ q \in [1..n -> Nat] /\ Len(q) = n /\ Cardinality(S) = n
  <2>1. n \in Nat /\ q \in [1..n -> Nat] /\ ExistsBijection(1..n, S)
    BY DEF Lists, ExistsBijection
  <2>2. Len(q) = n
    BY <2>1
  <2> QED
    BY <2>1, <2>2, FS_CountingElements
<1> HIDE DEF h, above, below
<1>6. CASE 2 * h = n
  <2>1. 0 < h /\ n % 2 = 0 /\ (n + 1) \div 2 = h /\ (n + 2) \div 2 = h + 1
    BY <1>4, <1>5, <1>6
  <2> QED
    BY <1>3, <1>4, <1>5, <2>1 DEF TwiceMedian
<1>7. CASE 2 * h = n - 1
  <2>1. n % 2 = 1 /\ (n + 1) \div 2 = h + 1 /\ (n + 2) \div 2 = h + 1
    BY <1>4, <1>5, <1>7
  <2>2. q[h + 1] \in Nat
    BY <1>4, <1>5
  <2> QED
    BY <1>3, <1>4, <1>5, <2>1, <2>2 DEF TwiceMedian
<1> QED
  BY <1>4, <1>6, <1>7

\* evaluate_benchmark_health is OK for what is stamped, recent and not slow.
LEMMA HealthyConditions ==
    ASSUME NEW b \in BenchmarkSnapshot, NEW now \in Int
    PROVE  BenchmarkHealth(b, now) = "OK" <=>
             /\ ~b.slow /\ b.source_timestamp # NoTimestamp
             /\ now - b.received_at \in (-FutureTolerance)..MaxReceiveAge
             /\ now - b.source_timestamp \in (-FutureTolerance)..MaxSourceAge
<1>1. /\ b.received_at \in Int /\ b.slow \in BOOLEAN
      /\ b.source_timestamp # NoTimestamp => b.source_timestamp \in Int
  BY DEF BenchmarkSnapshot
<1>2. FutureTolerance \in Nat /\ MaxReceiveAge \in Nat /\ MaxSourceAge \in Nat
  BY RulesAssumption
<1>3. CASE b.source_timestamp = NoTimestamp
  BY <1>3 DEF BenchmarkHealth
<1>4. CASE b.source_timestamp # NoTimestamp
  <2>1. b.source_timestamp \in Int
    BY <1>1, <1>4
  <2>2. BenchmarkHealth(b, now) = "OK" <=>
          /\ ~Stale(b.received_at, now, MaxReceiveAge)
          /\ ~Stale(b.source_timestamp, now, MaxSourceAge)
          /\ ~FromFuture(b.received_at, now) /\ ~FromFuture(b.source_timestamp, now)
          /\ ~b.slow
    BY <1>4 DEF BenchmarkHealth
  <2>3. now - b.received_at \in (-FutureTolerance)..MaxReceiveAge <=>
          /\ ~Stale(b.received_at, now, MaxReceiveAge) /\ ~FromFuture(b.received_at, now)
    BY <1>1, <1>2 DEF Stale, FromFuture
  <2>4. now - b.source_timestamp \in (-FutureTolerance)..MaxSourceAge <=>
          /\ ~Stale(b.source_timestamp, now, MaxSourceAge)
          /\ ~FromFuture(b.source_timestamp, now)
    BY <1>2, <2>1 DEF Stale, FromFuture
  <2> QED
    BY <1>4, <2>2, <2>3, <2>4
<1> QED
  BY <1>3, <1>4

Used(r, now) == {i \in DOMAIN r.bench : Included(r.bench, i, r.map, now)}

\* A snapshot is included exactly for a source that counts, as its first.
LEMMA UsedSources ==
    ASSUME NEW r, IsRequest(r), NEW now \in Int
    PROVE  /\ \A i \in Used(r, now) : /\ r.bench[i].source \in Counting(r, now)
                                      /\ FirstOf(r.bench, r.bench[i].source) = r.bench[i]
           /\ \A s \in Counting(r, now) : \E i \in Used(r, now) : r.bench[i].source = s
           /\ \A i, k \in Used(r, now) : r.bench[i].source = r.bench[k].source => i = k
<1> DEFINE bs == r.bench
           same(s) == {i \in DOMAIN bs : bs[i].source = s}
<1>1. /\ bs \in Seq(BenchmarkSnapshot) /\ Len(bs) \in Nat /\ DOMAIN bs = 1..Len(bs)
      /\ \A i \in DOMAIN bs : bs[i] \in BenchmarkSnapshot
  BY DEF IsRequest
<1>2. ASSUME NEW s, same(s) # {}
      PROVE  Min(same(s)) \in same(s) /\ \A k \in same(s) : Min(same(s)) <= k
  <2>1. same(s) \subseteq Nat
    BY <1>1
  <2> QED
    BY <1>2, <2>1, MinOfNaturals
<1>3. ASSUME NEW i \in Used(r, now)
      PROVE  /\ i \in DOMAIN bs /\ bs[i].source \in DOMAIN r.map.benchmark
             /\ bs[i].symbol = r.map.benchmark[bs[i].source]
             /\ BenchmarkHealth(bs[i], now) = "OK"
             /\ \A k \in 1..(i - 1) : bs[k].source # bs[i].source
  BY <1>3 DEF Used, Included
<1>4. ASSUME NEW i \in Used(r, now) PROVE Min(same(bs[i].source)) = i
  <2> DEFINE m == Min(same(bs[i].source))
  <2>1. i \in same(bs[i].source) /\ i \in 1..Len(bs)
    BY <1>1, <1>3, <1>4
  <2>2. m \in same(bs[i].source) /\ m <= i
    BY <1>2, <2>1
  <2>3. m \in 1..Len(bs) /\ bs[m].source = bs[i].source
    BY <1>1, <2>2
  <2> HIDE DEF m
  <2>4. ~(m <= i - 1)
    BY <1>3, <1>4, <2>1, <2>3
  <2>5. m = i
    BY <1>1, <2>1, <2>2, <2>3, <2>4
  <2> QED
    BY <2>5 DEF m
<1>5. ASSUME NEW i \in Used(r, now)
      PROVE  bs[i].source \in Counting(r, now) /\ FirstOf(bs, bs[i].source) = bs[i]
  <2>1. FirstOf(bs, bs[i].source) = bs[i]
    BY <1>4, <1>5 DEF FirstOf
  <2> DEFINE b == bs[i]
             s == bs[i].source
  <2>2. /\ s \in DOMAIN r.map.benchmark /\ s \in {bs[k].source : k \in DOMAIN bs}
        /\ b \in BenchmarkSnapshot /\ b.symbol = r.map.benchmark[s]
        /\ BenchmarkHealth(b, now) = "OK" /\ FirstOf(bs, s) = b
    BY <1>1, <1>3, <1>5, <2>1
  <2> HIDE DEF b, s
  <2>3. /\ ~b.slow /\ b.source_timestamp # NoTimestamp
        /\ now - b.received_at \in (-FutureTolerance)..MaxReceiveAge
        /\ now - b.source_timestamp \in (-FutureTolerance)..MaxSourceAge
    BY <2>2, HealthyConditions
  <2>4. s \in Counting(r, now)
    BY <2>2, <2>3 DEF Counting
  <2> QED
    BY <2>1, <2>4 DEF s
<1>6. ASSUME NEW s \in Counting(r, now) PROVE \E i \in Used(r, now) : bs[i].source = s
  <2> DEFINE m == Min(same(s))
             b == FirstOf(bs, s)
  <2>1. /\ same(s) # {} /\ s \in DOMAIN r.map.benchmark
        /\ b.symbol = r.map.benchmark[s] /\ ~b.slow /\ b.source_timestamp # NoTimestamp
        /\ now - b.received_at \in (-FutureTolerance)..MaxReceiveAge
        /\ now - b.source_timestamp \in (-FutureTolerance)..MaxSourceAge
    BY <1>6 DEF Counting
  <2>2. m \in same(s) /\ \A k \in same(s) : m <= k
    BY <1>2, <2>1
  <2>3. b = bs[m]
    BY DEF FirstOf
  <2>4. m \in DOMAIN bs /\ bs[m].source = s
    BY <2>2
  <2>5. \A k \in 1..(m - 1) : bs[k].source # s
    <3> TAKE k \in 1..(m - 1)
    <3>1. k \in DOMAIN bs /\ ~(m <= k)
      BY <1>1, <2>4
    <3> QED
      BY <2>2, <3>1
  <2> HIDE DEF m, b
  <2>6. BenchmarkHealth(bs[m], now) = "OK"
    BY <1>1, <2>1, <2>3, <2>4, HealthyConditions
  <2>7. m \in Used(r, now)
    BY <2>1, <2>3, <2>4, <2>5, <2>6 DEF Used, Included
  <2> QED
    BY <2>4, <2>7
<1>7. ASSUME NEW i \in Used(r, now), NEW k \in Used(r, now), bs[i].source = bs[k].source
      PROVE  i = k
  <2>1. Min(same(bs[i].source)) = i /\ Min(same(bs[k].source)) = k
    BY <1>4, <1>7
  <2> QED
    BY <1>7, <2>1
<1> QED
  BY <1>5, <1>6, <1>7

PriceOf(r, now) == [s \in Counting(r, now) |-> FirstOf(r.bench, s).price]

\* UsedPrices lists the prices of the sources that count.
LEMMA UsedListed ==
    ASSUME NEW r, IsRequest(r), NEW now \in Int
    PROVE  \E n, at : Lists(UsedPrices(r.bench, r.map, now), at, n,
                            PriceOf(r, now), Counting(r, now))
<1> DEFINE bs == r.bench
           U == Used(r, now)
           n == Cardinality(U)
           S == Counting(r, now)
           p == PriceOf(r, now)
           q == UsedPrices(bs, r.map, now)
           order == CHOOSE f \in Bijection(1..n, U) :
                      \A i, k \in 1..n : i < k => bs[f[i]].price <= bs[f[k]].price
           key == [i \in U |-> bs[i].price]
           at == [k \in 1..n |-> bs[order[k]].source]
<1>1. /\ Len(bs) \in Nat /\ DOMAIN bs = 1..Len(bs) /\ U \in SUBSET (1..Len(bs))
      /\ \A i \in DOMAIN bs : bs[i].price \in Nat \ {0}
  <2>1. bs \in Seq(BenchmarkSnapshot)
    BY DEF IsRequest
  <2>2. Len(bs) \in Nat /\ DOMAIN bs = 1..Len(bs) /\ \A i \in DOMAIN bs : bs[i] \in BenchmarkSnapshot
    BY <2>1
  <2>3. \A b \in BenchmarkSnapshot : b.price \in Nat \ {0}
    BY DEF BenchmarkSnapshot
  <2>4. U \subseteq DOMAIN bs
    BY DEF Used
  <2> QED
    BY <2>2, <2>3, <2>4
<1>2. /\ \A i \in U : bs[i].source \in S /\ FirstOf(bs, bs[i].source) = bs[i]
      /\ \A s \in S : \E i \in U : bs[i].source = s
      /\ \A i, k \in U : bs[i].source = bs[k].source => i = k
  BY UsedSources
<1>3. q = [k \in 1..n |-> bs[order[k]].price]
  BY DEF UsedPrices, Used
<1>4. IsFiniteSet(U) /\ n \in Nat
  <2>1. IsFiniteSet(1..Len(bs))
    BY <1>1, FS_Interval
  <2>2. IsFiniteSet(U)
    BY <1>1, <2>1, FS_Subset
  <2> QED
    BY <2>2, FS_CardinalityType
<1> HIDE DEF U, n
<1>5. key \in [U -> Int] /\ \A i \in U : key[i] = bs[i].price
  BY <1>1
<1> HIDE DEF key, q
<1>6. \E f \in Bijection(1..n, U) : \A i, k \in 1..n : i < k => key[f[i]] <= key[f[k]]
  BY <1>4, <1>5, Listed DEF n
<1>7. \A f \in Bijection(1..n, U) : \A i \in 1..n : f[i] \in U
  BY DEF Bijection, Injection
<1>8. \E f \in Bijection(1..n, U) :
         \A i, k \in 1..n : i < k => bs[f[i]].price <= bs[f[k]].price
  BY <1>5, <1>6, <1>7
<1>9. /\ order \in Bijection(1..n, U)
      /\ \A i, k \in 1..n : i < k => bs[order[i]].price <= bs[order[k]].price
  BY <1>8
<1> HIDE DEF order
<1>10. /\ \A k \in 1..n : order[k] \in U
       /\ \A u \in U : \E k \in 1..n : order[k] = u
       /\ \A i, k \in 1..n : order[i] = order[k] => i = k
  BY <1>9 DEF Bijection, Injection, Surjection, IsInjective
<1>11. at \in [1..n -> S] /\ \A k \in 1..n : at[k] = bs[order[k]].source
  BY <1>2, <1>10
<1> HIDE DEF at
<1>12. at \in Bijection(1..n, S)
  <2>1. \A s \in S : \E k \in 1..n : at[k] = s
    <3> TAKE s \in S
    <3>1. PICK u \in U : bs[u].source = s
      BY <1>2
    <3>2. PICK k \in 1..n : order[k] = u
      BY <1>10
    <3> QED
      BY <1>11, <3>1, <3>2
  <2>2. \A i, k \in 1..n : at[i] = at[k] => i = k
    <3> SUFFICES ASSUME NEW i \in 1..n, NEW k \in 1..n, at[i] = at[k] PROVE i = k
      OBVIOUS
    <3>1. order[i] = order[k]
      BY <1>2, <1>10, <1>11
    <3> QED
      BY <1>10, <3>1
  <2> QED
    BY <1>11, <2>1, <2>2 DEF Bijection, Injection, Surjection, IsInjective
<1>13. \A i \in U : bs[i].source \in S /\ p[bs[i].source] = bs[i].price
  BY <1>2 DEF PriceOf
<1>14. p \in [S -> Nat]
  <2>1. ASSUME NEW s \in S PROVE FirstOf(bs, s).price \in Nat
    <3>1. PICK i \in U : bs[i].source = s
      BY <1>2
    <3> QED
      BY <1>1, <1>2, <3>1
  <2> QED
    BY <2>1 DEF PriceOf
<1> HIDE DEF p, S
<1>15. \A k \in 1..n : q[k] = bs[order[k]].price /\ q[k] = p[at[k]] /\ q[k] \in Nat
  <2> TAKE k \in 1..n
  <2>1. order[k] \in U /\ order[k] \in DOMAIN bs
    BY <1>1, <1>10
  <2>2. q[k] = bs[order[k]].price
    BY <1>3
  <2> QED
    BY <1>1, <1>11, <1>13, <2>1, <2>2
<1>16. q \in [1..n -> Nat]
  BY <1>3, <1>15
<1>17. \A i, k \in 1..n : i < k => q[i] <= q[k]
  BY <1>9, <1>15
<1>18. Lists(q, at, n, p, S)
  BY <1>4, <1>12, <1>14, <1>15, <1>16, <1>17 DEF Lists
<1> QED
  BY <1>18 DEF p, q, S

\* classify_deviation confirms a price that is less than DegradedDeviation off.
LEMMA DeviationConfirms ==
    ASSUME NEW mid \in Nat, NEW m \in Nat
    PROVE  Confirms(ClassifyDeviation(mid, m)) <=>
             /\ 10000 * (2 * mid - m) < DegradedDeviation * m
             /\ 10000 * (m - 2 * mid) < DegradedDeviation * m
<1> DEFINE d == Distance(2 * mid, m)
           x == DegradedDeviation * m
           y == AvoidDeviation * m
<1>1. d \in Nat /\ (d = 2 * mid - m \/ d = m - 2 * mid) /\ 2 * mid - m <= d /\ m - 2 * mid <= d
  BY DEF Distance
<1>2. DegradedDeviation \in Int /\ AvoidDeviation \in Int /\ DegradedDeviation < AvoidDeviation
  BY RulesAssumption
<1>3. x \in Int /\ y \in Int /\ x <= y
  BY <1>2
<1>4. /\ DeviatesBy(mid, m, AvoidDeviation) <=> d * 10000 >= y
      /\ DeviatesBy(mid, m, DegradedDeviation) <=> d * 10000 >= x
  BY DEF DeviatesBy
<1>5. DeviatesBy(mid, m, AvoidDeviation) => DeviatesBy(mid, m, DegradedDeviation)
  <2> HIDE DEF d, x, y
  <2> QED
    BY <1>1, <1>3, <1>4
<1>6. Confirms(ClassifyDeviation(mid, m)) <=> ~DeviatesBy(mid, m, DegradedDeviation)
  <2>1. CASE DeviatesBy(mid, m, AvoidDeviation)
    BY <1>5, <2>1 DEF Confirms, ClassifyDeviation
  <2>2. CASE ~DeviatesBy(mid, m, AvoidDeviation) /\ DeviatesBy(mid, m, DegradedDeviation)
    BY <2>2 DEF Confirms, ClassifyDeviation
  <2>3. CASE ~DeviatesBy(mid, m, DegradedDeviation)
    <3>1. CASE DeviatesBy(mid, m, WarningDeviation)
      BY <1>5, <2>3, <3>1 DEF Confirms, ClassifyDeviation
    <3>2. CASE ~DeviatesBy(mid, m, WarningDeviation)
      BY <1>5, <2>3, <3>2 DEF Confirms, ClassifyDeviation
    <3> QED
      BY <3>1, <3>2
  <2> QED
    BY <2>1, <2>2, <2>3
<1> HIDE DEF d, x, y
<1>7. d * 10000 < x <=> 10000 * (2 * mid - m) < x /\ 10000 * (m - 2 * mid) < x
  BY <1>1, <1>3
<1>8. ~DeviatesBy(mid, m, DegradedDeviation) <=> d * 10000 < x
  BY <1>1, <1>3, <1>4
<1> QED
  BY <1>6, <1>7, <1>8 DEF x

\* The consensus of a request with a reliable map and an executable LBank
\* confirms it exactly when the prices of the sources that count do.
LEMMA ConsensusConfirms ==
    ASSUME NEW r, IsRequest(r), NEW now \in Int,
           r.map.reliable, r.lbank.symbol = r.map.lbank, ValidateLBank(r.lbank, now) = "OK"
    PROVE  Confirms(ConsensusOf(r, now)) <=> PricesConfirm(r, now)
<1> DEFINE q == UsedPrices(r.bench, r.map, now)
           S == Counting(r, now)
           p == PriceOf(r, now)
           m == TwiceMedianOf(p, S)
           mid == r.lbank.mid
<1>1. PICK n, at : Lists(q, at, n, p, S)
  BY UsedListed
<1>2. mid \in Nat
  BY DEF IsRequest, LBankSnapshot
<1>3. /\ MinimumFreshSources \in Nat /\ 1 <= MinimumFreshSources /\ MaxDispersion \in Nat
  BY RulesAssumption
<1>4. /\ ConsensusOf(r, now) = IF Len(q) < MinimumFreshSources \/ DispersionTooHigh(q)
                               THEN "DATA_DEGRADED" ELSE ClassifyDeviation(mid, TwiceMedian(q))
      /\ PricesConfirm(r, now) <=>
           /\ Cardinality(S) >= MinimumFreshSources
           /\ \A s, t \in S : 20000 * (p[s] - p[t]) <= MaxDispersion * m
           /\ 10000 * (2 * mid - m) < DegradedDeviation * m
           /\ 10000 * (m - 2 * mid) < DegradedDeviation * m
  <2>1. ConsensusOf(r, now) = IF Len(q) < MinimumFreshSources \/ DispersionTooHigh(q)
                               THEN "DATA_DEGRADED" ELSE ClassifyDeviation(mid, TwiceMedian(q))
    BY DEF ConsensusOf, Consensus
  <2>2. PricesConfirm(r, now) <=>
           /\ Cardinality(S) >= MinimumFreshSources
           /\ \A s, t \in S : 20000 * (p[s] - p[t]) <= MaxDispersion * m
           /\ 10000 * (2 * mid - m) < DegradedDeviation * m
           /\ 10000 * (m - 2 * mid) < DegradedDeviation * m
    BY DEF PricesConfirm, PriceOf
  <2> QED
    BY <2>1, <2>2
<1> HIDE DEF q, S, p, mid
<1>5. /\ n \in Nat /\ p \in [S -> Nat] /\ q \in [1..n -> Nat]
      /\ \A k \in 1..n : at[k] \in S /\ q[k] = p[at[k]]
      /\ \A s \in S : \E k \in 1..n : at[k] = s
      /\ \A i, k \in 1..n : i < k => q[i] <= q[k]
  BY <1>1 DEF Lists, Bijection, Injection, Surjection, IsInjective
<1>6. Len(q) = n
  BY <1>5
<1>7. Cardinality(S) = n
  <2>1. ExistsBijection(1..n, S)
    BY <1>1 DEF Lists, ExistsBijection
  <2> QED
    BY <1>5, <2>1, FS_CountingElements
<1>8. CASE n < MinimumFreshSources
  BY <1>3, <1>4, <1>5, <1>6, <1>7, <1>8 DEF Confirms
<1>9. CASE ~(n < MinimumFreshSources)
  <2>1. 0 < n
    BY <1>3, <1>5, <1>9
  <2>2. m = TwiceMedian(q)
    BY <1>1, <2>1, MedianAgrees
  <2>3. m \in Nat
    <3>1. (n + 1) \div 2 \in 1..n /\ (n + 2) \div 2 \in 1..n
      BY <1>5, <2>1
    <3> QED
      BY <1>5, <1>6, <2>2, <3>1 DEF TwiceMedian
  <2> HIDE DEF m
  <2>4. DispersionTooHigh(q) <=> ~(20000 * (q[n] - q[1]) <= MaxDispersion * m)
    <3> DEFINE z == MaxDispersion * m
               a == q[n]
               b == q[1]
    <3>1. z \in Nat /\ a \in Nat /\ b \in Nat
      BY <1>3, <1>5, <2>1, <2>3
    <3>2. DispersionTooHigh(q) <=> 2 * (a - b) * 10000 > z
      BY <1>6, <2>2 DEF DispersionTooHigh
    <3> HIDE DEF z, a, b
    <3>3. 2 * (a - b) * 10000 > z <=> ~(20000 * (a - b) <= z)
      BY <3>1
    <3> QED
      BY <3>2, <3>3 DEF a, b, z
  <2>5. (\A s, t \in S : 20000 * (p[s] - p[t]) <= MaxDispersion * m)
          <=> 20000 * (q[n] - q[1]) <= MaxDispersion * m
    <3> DEFINE z == MaxDispersion * m
    <3>1. z \in Nat
      BY <1>3, <2>3
    <3> HIDE DEF z
    <3>2. 1 \in 1..n /\ n \in 1..n
      BY <1>5, <2>1
    <3>3. /\ \A k \in 1..n : q[1] <= q[k] /\ q[k] <= q[n] /\ q[k] \in Nat
      BY <1>5, <3>2
    <3>4. \A s \in S : q[1] <= p[s] /\ p[s] <= q[n] /\ p[s] \in Nat
      BY <1>5, <3>3
    <3>5. ASSUME 20000 * (q[n] - q[1]) <= z, NEW s \in S, NEW t \in S
          PROVE  20000 * (p[s] - p[t]) <= z
      BY <3>1, <3>2, <3>3, <3>4, <3>5
    <3>6. ASSUME \A s, t \in S : 20000 * (p[s] - p[t]) <= z
          PROVE  20000 * (q[n] - q[1]) <= z
      <4>1. 20000 * (p[at[n]] - p[at[1]]) <= z
        BY <1>5, <3>2, <3>6
      <4>2. q[n] = p[at[n]] /\ q[1] = p[at[1]]
        BY <1>5, <3>2
      <4> QED
        BY <4>1, <4>2
    <3> QED
      BY <3>5, <3>6 DEF z
  <2>6. Confirms(ClassifyDeviation(mid, m)) <=>
             /\ 10000 * (2 * mid - m) < DegradedDeviation * m
             /\ 10000 * (m - 2 * mid) < DegradedDeviation * m
    BY <1>2, <2>3, DeviationConfirms
  <2>7. Cardinality(S) >= MinimumFreshSources
    BY <1>3, <1>5, <1>7, <1>9
  <2>8. CASE DispersionTooHigh(q)
    BY <1>4, <2>4, <2>5, <2>8 DEF Confirms
  <2>9. CASE ~DispersionTooHigh(q)
    <3>1. ConsensusOf(r, now) = ClassifyDeviation(mid, m)
      BY <1>4, <1>6, <1>9, <2>2, <2>9
    <3> QED
      BY <1>4, <2>4, <2>5, <2>6, <2>7, <2>9, <3>1
  <2> QED
    BY <2>8, <2>9
<1> QED
  BY <1>8, <1>9

\* A report is SHORT_READY exactly when the request is backed as of the time it
\* was assembled: assemble_signal needs what docs/ASSEMBLY.md says and no more,
\* whatever the snapshots, their order and the rules.
THEOREM ReadyBackedCorrect == AssemblySpec => []ReadyIffBacked
<1>1. AssemblyInv /\ AssemblyTypeOK /\ ReadyIffConfirmed => ReadyIffBacked
  <2> SUFFICES ASSUME AssemblyInv, AssemblyTypeOK, ReadyIffConfirmed, report # None
               PROVE  ReadyIffBacked
    BY DEF ReadyIffBacked
  <2>1. PICK now \in Times, ttl \in Ttls : report = Report(request, now, ttl)
    BY DEF AssemblyInv
  <2>2. IsRequest(request) /\ now \in Int
    BY LifecycleAssumption DEF AssemblyInv, AssemblyTypeOK
  <2>3. report.assembled_at = now
    BY <2>1 DEF Report
  <2>4. ASSUME Eligible(request, now)
        PROVE  Confirms(ConsensusOf(request, now)) <=> PricesConfirm(request, now)
    <3>1. request.lbank \in LBankSnapshot
      BY <2>2 DEF IsRequest
    <3>2. MaxLBankAge \in Nat /\ FutureTolerance \in Nat
      BY RulesAssumption
    <3>3. request.lbank.received_at \in Int
      BY <3>1 DEF LBankSnapshot
    <3>4. /\ request.map.reliable /\ request.lbank.symbol = request.map.lbank
          /\ now - request.lbank.received_at \in (-FutureTolerance)..MaxLBankAge
          /\ ~request.lbank.slow /\ ~request.lbank.wide
          /\ ~request.lbank.thin_bid /\ ~request.lbank.thin_ask
      BY <2>4 DEF Eligible
    <3>5. /\ ~FromFuture(request.lbank.received_at, now)
          /\ ~Stale(request.lbank.received_at, now, MaxLBankAge)
      BY <2>2, <3>2, <3>3, <3>4 DEF FromFuture, Stale
    <3>6. ValidateLBank(request.lbank, now) = "OK"
      BY <3>4, <3>5 DEF ValidateLBank
    <3> QED
      BY <2>2, <3>4, <3>6, ConsensusConfirms
  <2> QED
    BY <2>3, <2>4 DEF ReadyIffBacked, ReadyIffConfirmed, Backed
<1> QED
  BY <1>1, AssemblyCorrect, AssemblyTypeCorrect, ReadyCorrect, PTL
==============================================================================
