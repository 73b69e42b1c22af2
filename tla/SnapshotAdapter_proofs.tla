----------------------- MODULE SnapshotAdapter_proofs -----------------------
(***************************************************************************)
(* Proofs about SnapshotAdapter: how old the parts of an accepted snapshot *)
(* can be, for every venue, every set of books and every limit.            *)
(***************************************************************************)
EXTENDS SnapshotAdapter, Data_proofs, FiniteSetTheorems, TLAPS

\* Every fetch_snapshot sends finitely many requests, the book among them.
LEMMA PartsFinite ==
    ASSUME venue \in Venues
    PROVE  IsFiniteSet(Parts) /\ "book" \in Parts
<1>1. venue \in {"LBANK", "BINANCE", "BYBIT", "MEXC", "GATE"}
  BY AdapterAssumption DEF Sources
<1>2. "book" \in Parts /\ Parts \subseteq {"contract", "ticker", "premium", "interest", "book"}
  BY <1>1 DEF Parts, Adapter, LBank, Binance, Bybit, Mexc, Gate
<1>3. IsFiniteSet({"contract", "ticker", "premium", "interest", "book"})
  <2>1. IsFiniteSet({"contract"}) /\ IsFiniteSet({"ticker"}) /\ IsFiniteSet({"premium"})
        /\ IsFiniteSet({"interest"}) /\ IsFiniteSet({"book"})
    BY FS_Singleton
  <2>2. IsFiniteSet({"contract"} \cup {"ticker"})
    BY <2>1, FS_Union
  <2>3. IsFiniteSet(({"contract"} \cup {"ticker"}) \cup {"premium"})
    BY <2>1, <2>2, FS_Union
  <2>4. IsFiniteSet({"interest"} \cup {"book"})
    BY <2>1, FS_Union
  <2>5. IsFiniteSet((({"contract"} \cup {"ticker"}) \cup {"premium"})
                       \cup ({"interest"} \cup {"book"}))
    BY <2>3, <2>4, FS_Union
  <2>6. {"contract", "ticker", "premium", "interest", "book"}
          = (({"contract"} \cup {"ticker"}) \cup {"premium"}) \cup ({"interest"} \cup {"book"})
    OBVIOUS
  <2> QED
    BY <2>5, <2>6
<1> QED
  BY <1>2, <1>3, FS_Subset

----------------------------------------------------------------------------
(* The running load *)

\* The answers that are in were made after the load began.
LoadInv ==
    load # None =>
        /\ load = [started |-> load.started, answers |-> load.answers]
        /\ \A p \in Parts : load.answers[p] # None
                             => load.answers[p].at \in load.started..clock

SnapshotInv == TypeOK /\ LoadInv

\* Every step keeps the answers of the running load no older than the load.
LEMMA LoadStep ==
    ASSUME SnapshotInv, [Next]_vars
    PROVE  SnapshotInv'
<1>0. TypeOK /\ LoadInv /\ clock \in 0..MaxTime /\ MaxTime \in Nat
  BY AdapterAssumption DEF SnapshotInv, TypeOK
<1>1. CASE UNCHANGED vars
  BY <1>0, <1>1 DEF SnapshotInv, TypeOK, LoadInv, vars, Parts, Adapter
<1>2. Parts' = Parts /\ venue' = venue
  BY DEF Next, Tick, Start, Receive, Complete, RequestRaises, OrphanProgress, OrphanEnds,
         Cancel, vars, Parts, Adapter
<1>3. CASE Tick
  BY <1>0, <1>2, <1>3 DEF Tick, SnapshotInv, TypeOK, LoadInv
<1>4. CASE Start
  <2>1. /\ load'.started = clock /\ DOMAIN load'.answers = Parts
        /\ load' = [started |-> load'.started, answers |-> load'.answers]
        /\ \A p \in Parts : load'.answers[p] = None
        /\ last_load' = clock /\ UNCHANGED <<clock, orphans, wait, payload>>
    BY <1>4 DEF Start
  <2> QED
    BY <1>0, <1>2, <2>1 DEF SnapshotInv, TypeOK, LoadInv
<1>5. ASSUME NEW p \in Parts, Receive(p)
      PROVE  SnapshotInv'
  <2>1. PICK a \in Answers(p) : load' = [load EXCEPT !.answers[p] = a]
    BY <1>5 DEF Receive
  <2>2. /\ load # None /\ load = [started |-> load.started, answers |-> load.answers]
        /\ DOMAIN load.answers = Parts
        /\ UNCHANGED <<clock, last_load, orphans, wait, payload>>
    BY <1>0, <1>5 DEF Receive, TypeOK, LoadInv
  <2>3. load' = [started |-> load.started, answers |-> [load.answers EXCEPT ![p] = a]]
    BY <2>1, <2>2
  <2>4. /\ load'.started = load.started
        /\ load' = [started |-> load'.started, answers |-> load'.answers]
        /\ DOMAIN load'.answers = Parts /\ load'.answers[p] = a
        /\ \A q \in Parts \ {p} : load'.answers[q] = load.answers[q]
    BY <2>2, <2>3
  <2>5. a.at \in load.started..clock
    BY <2>1 DEF Answers
  <2> QED
    BY <1>0, <1>2, <2>2, <2>4, <2>5 DEF SnapshotInv, TypeOK, LoadInv
<1>6. ASSUME NEW p \in Parts, Complete(p)
      PROVE  SnapshotInv'
  <2>1. /\ load' = None /\ UNCHANGED <<clock, last_load, orphans, wait>>
        /\ payload'.state \in {"OK", "DEGRADED"}
    BY <1>6 DEF Complete, Loaded, Failed
  <2> QED
    BY <1>0, <1>2, <2>1 DEF SnapshotInv, TypeOK, LoadInv
<1>7. ASSUME NEW p \in Parts, NEW state \in {"DOWN", "DEGRADED"}, RequestRaises(p, state)
      PROVE  SnapshotInv'
  <2>1. /\ load' = None /\ UNCHANGED <<clock, last_load>> /\ payload'.state = state
        /\ orphans' = orphans \cup {<<load.started, q>> : q \in Waiting \ {p}}
        /\ wait' = [r \in orphans' |-> IF r \in orphans THEN wait[r]
                                       ELSE [since |-> clock, pieces |-> 0]]
        /\ load # None
    BY <1>7 DEF RequestRaises, Failed
  <2>2. Waiting \subseteq Parts /\ load.started \in 0..clock
    BY <1>0, <2>1 DEF Waiting, TypeOK
  <2>3. orphans' \subseteq (0..clock) \X Parts
    BY <1>0, <2>1, <2>2 DEF TypeOK
  <2>4. wait' \in [orphans' -> [since : 0..clock, pieces : 0..MaxPieces]]
    BY <1>0, <2>1, AdapterAssumption DEF TypeOK
  <2> QED
    BY <1>0, <1>2, <2>1, <2>3, <2>4 DEF SnapshotInv, TypeOK, LoadInv
<1>8. ASSUME NEW r \in orphans, OrphanEnds(r)
      PROVE  SnapshotInv'
  <2>1. /\ orphans' \subseteq (0..clock) \X Parts
        /\ wait' \in [orphans' -> [since : 0..clock, pieces : 0..MaxPieces]]
        /\ UNCHANGED <<clock, load, last_load, payload>>
    BY <1>0, <1>8 DEF OrphanEnds, TypeOK
  <2> QED
    BY <1>0, <1>2, <2>1 DEF SnapshotInv, TypeOK, LoadInv
<1>10. ASSUME NEW r \in orphans, OrphanProgress(r)
       PROVE  SnapshotInv'
  <2>1. /\ wait' \in [orphans -> [since : 0..clock, pieces : 0..MaxPieces]]
        /\ UNCHANGED <<clock, load, last_load, orphans, payload>>
    BY <1>0, <1>10, AdapterAssumption DEF OrphanProgress, TypeOK
  <2> QED
    BY <1>0, <1>2, <2>1 DEF SnapshotInv, TypeOK, LoadInv
<1>9. CASE Cancel
  BY <1>0, <1>2, <1>9 DEF Cancel, SnapshotInv, TypeOK, LoadInv
<1> QED
  BY <1>1, <1>3, <1>4, <1>5, <1>6, <1>7, <1>8, <1>9, <1>10 DEF Next

\* The type invariant of the adapter, and the times of its answers.
THEOREM SnapshotInvCorrect == Spec => []SnapshotInv
<1>1. Init => SnapshotInv
  BY AdapterAssumption DEF Init, SnapshotInv, TypeOK, LoadInv
<1> QED
  BY <1>1, LoadStep, PTL DEF Spec

\* The adapters' type invariant.
THEOREM AdapterTypeCorrect == Spec => []TypeOK
BY SnapshotInvCorrect, PTL DEF SnapshotInv

----------------------------------------------------------------------------
(* The age of an accepted snapshot *)

\* A snapshot is dated by its last answer, its latency spans its whole load, and
\* none of its answers was made before the load began.
DatedSnapshot(s) ==
    /\ s.started \in Int /\ s.oldest \in Int /\ s.received_at \in Int
    /\ s.latency = s.received_at - s.started
    /\ s.started <= s.oldest

PayloadInv == payload # None /\ payload.state = "OK" => DatedSnapshot(payload.snapshot)

\* The last answer makes a snapshot that is dated by its load.
LEMMA CompleteIsDated ==
    ASSUME SnapshotInv, NEW p \in Parts, Complete(p)
    PROVE  PayloadInv'
<1>1. /\ clock \in Nat /\ load # None /\ load.started \in 0..clock
      /\ DOMAIN load.answers = Parts /\ Waiting = {p}
  BY DEF SnapshotInv, TypeOK, Complete
<1>2. PICK a \in Answers(p) :
        payload' = IF Parses([load.answers EXCEPT ![p] = a])
                   THEN Loaded(Snapshot([load.answers EXCEPT ![p] = a]))
                   ELSE Failed("DEGRADED")
  BY DEF Complete
<1> DEFINE answers == [load.answers EXCEPT ![p] = a]
           times == {answers[q].at : q \in Parts}
<1>3. \A q \in Parts : answers[q].at \in load.started..clock
  <2> TAKE q \in Parts
  <2>1. CASE q = p
    BY <1>1, <2>1 DEF Answers
  <2>2. CASE q # p
    BY <1>1, <2>2 DEF Waiting, SnapshotInv, LoadInv
  <2> QED
    BY <2>1, <2>2
<1> HIDE DEF answers
<1>4. times \subseteq Nat /\ times # {} /\ \A t \in times : load.started <= t
  BY <1>1, <1>3
<1>5. Min(times) \in Nat /\ load.started <= Min(times)
  <2> HIDE DEF times
  <2> QED
    BY <1>4, MinOfNaturals
<1>6. DatedSnapshot(Snapshot(answers))
  <2>1. /\ Snapshot(answers).received_at = clock
        /\ Snapshot(answers).latency = clock - load.started
        /\ Snapshot(answers).started = load.started
        /\ Snapshot(answers).oldest = Min(times)
    BY DEF Snapshot, Latency
  <2> QED
    BY <1>1, <1>5, <2>1 DEF DatedSnapshot
<1>7. CASE Parses(answers)
  BY <1>2, <1>6, <1>7 DEF Loaded, PayloadInv, answers
<1>8. CASE ~Parses(answers)
  BY <1>2, <1>8 DEF Failed, PayloadInv, answers
<1> QED
  BY <1>7, <1>8

\* The snapshots that load returned stay what they were.
THEOREM PayloadCorrect == Spec => []PayloadInv
<1>1. Init => PayloadInv
  BY DEF Init, PayloadInv
<1>2. ASSUME SnapshotInv, PayloadInv, [Next]_vars PROVE PayloadInv'
  <2>1. CASE UNCHANGED payload
    BY <1>2, <2>1 DEF PayloadInv
  <2>2. CASE Tick \/ Start \/ Cancel \/ UNCHANGED vars
    BY <2>1, <2>2 DEF Tick, Start, Cancel, vars
  <2>3. CASE (\E p \in Parts : Receive(p)) \/ (\E r \in orphans : OrphanProgress(r) \/ OrphanEnds(r))
    BY <2>1, <2>3 DEF Receive, OrphanProgress, OrphanEnds
  <2>4. CASE \E p \in Parts : Complete(p)
    BY <1>2, <2>4, CompleteIsDated
  <2>5. CASE \E p \in Parts, state \in {"DOWN", "DEGRADED"} : RequestRaises(p, state)
    BY <2>5 DEF RequestRaises, Failed, PayloadInv
  <2> QED
    BY <1>2, <2>2, <2>3, <2>4, <2>5 DEF Next
<1> QED
  BY <1>1, <1>2, SnapshotInvCorrect, PTL DEF Spec

\* What a gate accepts is neither too old nor too slow, whichever gate it is.
LEMMA AcceptedIsFresh ==
    ASSUME NEW s, Accepted(s, clock)
    PROVE  LET limit == IF venue = "LBANK" THEN MaxLBankAge ELSE MaxReceiveAge
           IN ~(clock - s.received_at > limit) /\ ~(s.latency > MaxLatency)
<1>1. CASE venue = "LBANK"
  <2>1. ValidateLBank(ToLBank(s), clock) = "OK"
    BY <1>1 DEF Accepted
  <2>2. /\ ToLBank(s).received_at = s.received_at
        /\ ToLBank(s).slow = (s.latency > MaxLatency)
    BY DEF ToLBank
  <2>3. ~Stale(s.received_at, clock, MaxLBankAge) /\ ~(s.latency > MaxLatency)
    BY <2>1, <2>2 DEF ValidateLBank
  <2> QED
    BY <1>1, <2>3 DEF Stale
<1>2. CASE venue # "LBANK"
  <2>1. BenchmarkHealth(ToBenchmark(s), clock) = "OK"
    BY <1>2 DEF Accepted
  <2>2. /\ ToBenchmark(s).received_at = s.received_at
        /\ ToBenchmark(s).slow = (s.latency > MaxLatency)
    BY DEF ToBenchmark
  <2>3. ~Stale(s.received_at, clock, MaxReceiveAge) /\ ~(s.latency > MaxLatency)
    BY <2>1, <2>2 DEF BenchmarkHealth
  <2> QED
    BY <1>2, <2>3 DEF Stale
<1> QED
  BY <1>1, <1>2

\* An accepted snapshot describes the market of at most the age limit and the
\* latency limit ago in every part, for every venue and every limit.
THEOREM AcceptedRecentCorrect == Spec => []AcceptedIsRecent
<1>1. SnapshotInv /\ PayloadInv => AcceptedIsRecent
  <2> SUFFICES ASSUME SnapshotInv, PayloadInv, payload # None, payload.state = "OK",
                      Accepted(payload.snapshot, clock)
               PROVE  clock - payload.snapshot.oldest
                        <= (IF venue = "LBANK" THEN MaxLBankAge ELSE MaxReceiveAge)
                              + MaxLatency
    BY DEF AcceptedIsRecent
  <2> DEFINE s == payload.snapshot
             limit == IF venue = "LBANK" THEN MaxLBankAge ELSE MaxReceiveAge
  <2>1. clock \in Int /\ limit \in Int /\ MaxLatency \in Int
    BY AdapterAssumption, RulesAssumption DEF SnapshotInv, TypeOK
  <2>2. DatedSnapshot(s)
    BY DEF PayloadInv
  <2>3. ~(clock - s.received_at > limit) /\ ~(s.latency > MaxLatency)
    BY AcceptedIsFresh
  <2> HIDE DEF limit, s
  <2>4. clock - s.oldest <= limit + MaxLatency
    BY <2>1, <2>2, <2>3 DEF DatedSnapshot
  <2> QED
    BY <2>4 DEF limit, s
<1> QED
  BY <1>1, SnapshotInvCorrect, PayloadCorrect, PTL
----------------------------------------------------------------------------
(* The requests that failed loads leave behind *)

\* A request that was sent at start and waits as w says: its waits up to now fit
\* into the timeouts of its load and of its pieces.
InTime(start, now, w) ==
    /\ now - w.since <= HttpTimeout
    /\ w.since <= start + LoadTimeout + w.pieces * HttpTimeout

\* When the newest load was started, which its requests share.
StartsInv ==
    /\ load # None => last_load = load.started /\ clock - load.started <= LoadTimeout
    /\ \A r \in orphans : /\ last_load # None /\ r[1] <= last_load
                          /\ load # None => r[1] + Interval <= load.started
                          /\ InTime(r[1], clock, wait[r])

\* No two loads start within an interval, and the request that made a load fail
\* is not left behind.
SpacedInv ==
    /\ \A r, q \in orphans : r[1] < q[1] => r[1] + Interval <= q[1]
    /\ \A r \in orphans : \E p \in Parts : <<r[1], p>> \notin orphans

OrphanInv == SnapshotInv /\ StartsInv /\ SpacedInv

\* A request in time is no older than its life; a piece more keeps it in time.
LEMMA LifeOfRequest ==
    ASSUME NEW start \in Nat, NEW now \in Nat,
           NEW w \in [since : 0..now, pieces : 0..MaxPieces], InTime(start, now, w)
    PROVE  /\ RequestLife \in Nat /\ now - start <= RequestLife
           /\ InTime(start, now, [since |-> now, pieces |-> w.pieces + 1])
<1> DEFINE k == w.pieces
           d == HttpTimeout
           m == MaxPieces
<1>1. /\ k \in Nat /\ m \in Nat /\ k <= m /\ d \in Nat /\ LoadTimeout \in Nat
      /\ w.since \in Nat /\ now - w.since <= d
      /\ w.since <= start + LoadTimeout + k * d
  BY AdapterAssumption DEF InTime
<1> HIDE DEF k
<1>2. k * d \in Nat /\ m * d \in Nat /\ (k + 1) * d = k * d + d /\ (m + 1) * d = m * d + d
  BY <1>1
<1>3. k * d <= m * d
  BY <1>1
<1>4. now <= start + LoadTimeout + (k + 1) * d
  BY <1>1, <1>2
<1>5. RequestLife \in Nat /\ now - start <= RequestLife
  BY <1>1, <1>2, <1>3, <1>4 DEF RequestLife
<1>6. InTime(start, now, [since |-> now, pieces |-> k + 1])
  BY <1>1, <1>4 DEF InTime
<1> QED
  BY <1>5, <1>6 DEF k

\* A request that raises leaves the others behind, all but itself.
LEMMA RaiseStep ==
    ASSUME OrphanInv, NEW p \in Parts, NEW state, RequestRaises(p, state)
    PROVE  (StartsInv /\ SpacedInv)'
<1> DEFINE left == {<<load.started, q>> : q \in Waiting \ {p}}
<1>1. /\ load # None /\ load' = None /\ orphans' = orphans \cup left
      /\ UNCHANGED <<venue, clock, last_load>>
      /\ \A r \in orphans' : wait'[r] = IF r \in orphans THEN wait[r]
                                         ELSE [since |-> clock, pieces |-> 0]
  BY DEF RequestRaises
<1>2. Parts' = Parts
  BY <1>1 DEF Parts, Adapter
<1>3. /\ clock \in Nat /\ load.started \in 0..clock /\ last_load = load.started
      /\ clock - load.started <= LoadTimeout /\ Interval \in Nat \ {0}
      /\ last_load # None
      /\ \A r \in orphans : /\ r[1] \in Nat /\ r[1] + Interval <= load.started
                            /\ InTime(r[1], clock, wait[r])
  BY <1>1, AdapterAssumption DEF OrphanInv, SnapshotInv, TypeOK, StartsInv
<1>4. \A r \in left : r[1] = load.started
  OBVIOUS
<1>5. <<load.started, p>> \notin left
  OBVIOUS
<1> HIDE DEF left
<1>6. \A r \in orphans : r[1] # load.started
  BY <1>3
<1>7. <<load.started, p>> \notin orphans \cup left
  BY <1>5, <1>6
<1>8. StartsInv'
  <2>1. InTime(load.started, clock, [since |-> clock, pieces |-> 0])
    <3>1. LoadTimeout \in Nat /\ HttpTimeout \in Nat /\ 0 * HttpTimeout = 0
      BY AdapterAssumption
    <3> QED
      BY <1>3, <3>1 DEF InTime
  <2>2. \A r \in orphans' : /\ InTime(r[1], clock, wait'[r])
                            /\ r[1] <= load.started
    BY <1>1, <1>3, <1>4, <2>1
  <2> QED
    BY <1>1, <1>3, <2>2 DEF StartsInv
<1>9. \A r, q \in orphans \cup left : r[1] < q[1] => r[1] + Interval <= q[1]
  BY <1>3, <1>4 DEF OrphanInv, SpacedInv
<1>10. ASSUME NEW r \in orphans \cup left
       PROVE  \E q \in Parts : <<r[1], q>> \notin orphans \cup left
  <2>1. CASE r \in left
    BY <1>4, <1>7, <2>1
  <2>2. CASE r \in orphans
    <3>1. PICK q \in Parts : <<r[1], q>> \notin orphans
      BY <2>2 DEF OrphanInv, SpacedInv
    <3>2. <<r[1], q>> \notin left
      <4>1. <<r[1], q>>[1] # load.started
        BY <1>6, <2>2
      <4> QED
        BY <1>4, <4>1
    <3> QED
      BY <3>1, <3>2
  <2> QED
    BY <2>1, <2>2
<1> QED
  BY <1>1, <1>2, <1>8, <1>9, <1>10 DEF SpacedInv

\* Every step keeps the starts of the requests that go on apart and recent.
LEMMA OrphanStep ==
    ASSUME OrphanInv, [Next]_vars
    PROVE  OrphanInv'
<1>0. /\ SnapshotInv' /\ clock \in Nat /\ Interval \in Nat \ {0}
      /\ HttpTimeout \in Nat /\ LoadTimeout \in Nat
      /\ wait \in [orphans -> [since : 0..clock, pieces : 0..MaxPieces]]
      /\ StartsInv /\ SpacedInv /\ clock # None
      /\ \A r \in orphans : r[1] \in 0..clock
      /\ load # None => load.started \in 0..clock
      /\ last_load \in 0..clock \cup {None}
  BY LoadStep, AdapterAssumption DEF OrphanInv, SnapshotInv, TypeOK
<1>1. Parts' = Parts
  BY DEF Next, Tick, Start, Receive, Complete, RequestRaises, OrphanProgress, OrphanEnds,
         Cancel, vars, Parts, Adapter
<1>2. UNCHANGED orphans => SpacedInv'
  BY <1>0, <1>1 DEF SpacedInv
<1>3. UNCHANGED <<clock, load, last_load, orphans, wait>> => StartsInv'
  BY <1>0 DEF StartsInv
<1>4. load' = None /\ UNCHANGED <<clock, last_load, orphans, wait>> => StartsInv'
  BY <1>0 DEF StartsInv
<1>5. CASE UNCHANGED vars
  BY <1>0, <1>2, <1>3, <1>5 DEF vars, OrphanInv
<1>6. CASE Tick
  <2>1. \A r \in orphans : InTime(r[1], clock + 1, wait[r])
    BY <1>0, <1>6 DEF Tick, StartsInv, InTime
  <2>2. /\ clock' = clock + 1 /\ UNCHANGED <<load, last_load, orphans, wait>>
        /\ load # None => clock - load.started < LoadTimeout
    BY <1>6 DEF Tick
  <2>3. StartsInv'
    BY <1>0, <2>1, <2>2 DEF StartsInv
  <2> QED
    BY <1>0, <1>2, <2>2, <2>3 DEF OrphanInv
<1>7. CASE Start
  <2>1. /\ load' # None => load'.started = clock
        /\ last_load' = clock /\ UNCHANGED <<clock, orphans, wait>>
        /\ last_load # None => last_load + Interval <= clock
    BY <1>0, <1>7 DEF Start
  <2>2. StartsInv'
    BY <1>0, <2>1 DEF StartsInv
  <2> QED
    BY <1>0, <1>2, <2>1, <2>2 DEF OrphanInv
<1>8. ASSUME NEW p \in Parts, Receive(p)
      PROVE  OrphanInv'
  <2>1. /\ load # None /\ UNCHANGED <<clock, last_load, orphans, wait>>
        /\ load'.started = load.started
    BY <1>8 DEF Receive, OrphanInv, SnapshotInv, LoadInv
  <2>2. StartsInv'
    BY <1>0, <2>1 DEF StartsInv
  <2> QED
    BY <1>0, <1>2, <2>1, <2>2 DEF OrphanInv
<1>9. ASSUME NEW p \in Parts, Complete(p)
      PROVE  OrphanInv'
  BY <1>0, <1>2, <1>4, <1>9 DEF Complete, OrphanInv
<1>10. ASSUME NEW p \in Parts, NEW state \in {"DOWN", "DEGRADED"}, RequestRaises(p, state)
       PROVE  OrphanInv'
  BY <1>0, <1>10, RaiseStep DEF OrphanInv
<1>11. ASSUME NEW r \in orphans, OrphanEnds(r)
       PROVE  OrphanInv'
  <2>1. /\ orphans' \subseteq orphans /\ UNCHANGED <<clock, load, last_load>>
        /\ \A q \in orphans' : wait'[q] = wait[q]
    BY <1>11 DEF OrphanEnds
  <2>2. StartsInv'
    BY <1>0, <2>1 DEF StartsInv
  <2>3. SpacedInv'
    BY <1>0, <1>1, <2>1 DEF SpacedInv
  <2> QED
    BY <1>0, <2>2, <2>3 DEF OrphanInv
<1>12. CASE Cancel
  BY <1>0, <1>2, <1>4, <1>12 DEF Cancel, OrphanInv
<1>13. ASSUME NEW r \in orphans, OrphanProgress(r)
       PROVE  OrphanInv'
  <2>1. /\ UNCHANGED <<clock, load, last_load, orphans>>
        /\ wait'[r] = [since |-> clock, pieces |-> wait[r].pieces + 1]
        /\ \A q \in orphans \ {r} : wait'[q] = wait[q]
    BY <1>0, <1>13 DEF OrphanProgress
  <2>2. InTime(r[1], clock, wait'[r])
    <3>1. /\ InTime(r[1], clock, wait[r]) /\ r[1] \in Nat
          /\ wait[r] \in [since : 0..clock, pieces : 0..MaxPieces]
      BY <1>0, <1>13 DEF StartsInv
    <3> QED
      BY <1>0, <2>1, <3>1, LifeOfRequest
  <2>3. StartsInv'
    BY <1>0, <2>1, <2>2 DEF StartsInv
  <2> QED
    BY <1>0, <1>2, <2>1, <2>3 DEF OrphanInv
<1> QED
  BY <1>5, <1>6, <1>7, <1>8, <1>9, <1>10, <1>11, <1>12, <1>13 DEF Next

\* Times that are apart lie in different intervals.
LEMMA ApartInDifferentIntervals ==
    ASSUME NEW x \in Nat, NEW y \in Nat, NEW d \in Nat \ {0}, x + d <= y
    PROVE  x \div d < y \div d
<1> DEFINE q == x \div d
           r == y \div d
<1>1. /\ q \in Nat /\ d * q <= x /\ x < d * q + d
      /\ r \in Nat /\ d * r <= y /\ y < d * r + d
  OBVIOUS
<1> HIDE DEF q, r
<1>2. d * q < d * r
  BY <1>1
<1>3. q < r
  BY <1>1, <1>2
<1> QED
  BY <1>3 DEF q, r

\* Not more loads than fit into the life of a request have left one behind.
LEMMA FewStarts ==
    ASSUME OrphanInv
    PROVE  LET starts == {r[1] : r \in orphans}
           IN /\ IsFiniteSet(starts)
              /\ Cardinality(starts) <= RequestLife \div Interval + 1
<1> DEFINE starts == {r[1] : r \in orphans}
           last == RequestLife \div Interval
           f == [t \in starts |-> (clock - t) \div Interval]
<1>1. /\ clock \in Nat /\ Interval \in Nat \ {0} /\ RequestLife \in Nat
      /\ \A t \in starts : t \in 0..clock /\ clock - t <= RequestLife
      /\ \A s, t \in starts : s < t => s + Interval <= t
  <2>1. /\ clock \in Nat /\ Interval \in Nat \ {0}
        /\ \A s, t \in starts : s < t => s + Interval <= t
    BY AdapterAssumption DEF OrphanInv, SnapshotInv, TypeOK, SpacedInv
  <2>2. RequestLife \in Nat
    BY AdapterAssumption DEF RequestLife
  <2>3. ASSUME NEW r \in orphans PROVE r[1] \in 0..clock /\ clock - r[1] <= RequestLife
    <3>1. /\ r[1] \in 0..clock /\ InTime(r[1], clock, wait[r])
          /\ wait[r] \in [since : 0..clock, pieces : 0..MaxPieces]
      BY DEF OrphanInv, SnapshotInv, TypeOK, StartsInv
    <3>2. r[1] \in Nat
      BY <2>1, <3>1
    <3>3. clock - r[1] <= RequestLife
      BY <2>1, <3>1, <3>2, LifeOfRequest
    <3> QED
      BY <3>1, <3>3
  <2> QED
    BY <2>1, <2>2, <2>3
<1> HIDE DEF starts
<1>2. last \in Nat
  BY <1>1
<1>3. ASSUME NEW t \in starts PROVE f[t] \in 0..last
  <2>1. clock - t \in Nat /\ clock - t <= RequestLife
    BY <1>1
  <2> QED
    BY <1>1, <2>1
<1>4. ASSUME NEW s \in starts, NEW t \in starts, s < t PROVE f[t] < f[s]
  <2>1. clock - t \in Nat /\ clock - s \in Nat /\ (clock - t) + Interval <= clock - s
    BY <1>1, <1>4
  <2> QED
    BY <1>1, <2>1, ApartInDifferentIntervals
<1>5. f \in Injection(starts, 0..last)
  <2>1. \A s, t \in starts : f[s] = f[t] => s = t
    <3> SUFFICES ASSUME NEW s \in starts, NEW t \in starts, f[s] = f[t], s # t PROVE FALSE
      OBVIOUS
    <3>1. s < t \/ t < s
      BY <1>1
    <3>2. f[s] \in Int /\ f[t] \in Int
      BY <1>2, <1>3
    <3> HIDE DEF f
    <3> QED
      BY <1>4, <3>1, <3>2
  <2> QED
    BY <1>3, <2>1 DEF Injection, IsInjective
<1>6. IsFiniteSet(0..last) /\ Cardinality(0..last) = last + 1
  BY <1>2, FS_Interval
<1>7. IsFiniteSet(starts) /\ Cardinality(starts) <= last + 1
  BY <1>5, <1>6, FS_Injection
<1> QED
  BY <1>7 DEF starts

\* All but one request of each of those loads.
LEMMA FewOrphans ==
    ASSUME OrphanInv
    PROVE  OrphansBounded
<1> DEFINE starts == {r[1] : r \in orphans}
           last == RequestLife \div Interval
           raised == [t \in starts |-> CHOOSE p \in Parts : <<t, p>> \notin orphans]
           failed == {<<t, raised[t]>> : t \in starts}
           pair == [t \in starts |-> <<t, raised[t]>>]
<1>1. IsFiniteSet(starts) /\ Cardinality(starts) <= last + 1
  BY FewStarts
<1>2. IsFiniteSet(Parts) /\ Parts # {}
  BY PartsFinite DEF OrphanInv, SnapshotInv, TypeOK
<1>3. /\ orphans \subseteq starts \X Parts
      /\ \A t \in starts : raised[t] \in Parts /\ <<t, raised[t]>> \notin orphans
  BY DEF OrphanInv, SnapshotInv, TypeOK, SpacedInv
<1> HIDE DEF starts, raised
<1>4. /\ IsFiniteSet(starts \X Parts)
      /\ Cardinality(starts \X Parts) = Cardinality(starts) * Cardinality(Parts)
  BY <1>1, <1>2, FS_Product
<1>5. IsFiniteSet(failed) /\ Cardinality(failed) = Cardinality(starts)
  <2>1. pair \in Bijection(starts, failed)
    BY DEF Bijection, Injection, Surjection, IsInjective
  <2> QED
    BY <1>1, <2>1, FS_Bijection DEF ExistsBijection
<1>6. /\ failed \cup orphans \subseteq starts \X Parts
      /\ failed \cap orphans = {}
  BY <1>3
<1>7. IsFiniteSet(orphans)
  BY <1>3, <1>4, FS_Subset
<1> HIDE DEF failed
<1>8. Cardinality(failed \cup orphans) = Cardinality(failed) + Cardinality(orphans)
  <2>1. /\ Cardinality(failed \cup orphans)
             = Cardinality(failed) + Cardinality(orphans) - Cardinality(failed \cap orphans)
        /\ Cardinality(failed) \in Nat /\ Cardinality(orphans) \in Nat
    BY <1>5, <1>7, FS_Union, FS_CardinalityType
  <2>2. Cardinality(failed \cap orphans) = 0
    BY <1>6, FS_EmptySet
  <2> QED
    BY <2>1, <2>2
<1>9. Cardinality(failed \cup orphans) <= Cardinality(starts) * Cardinality(Parts)
  BY <1>4, <1>6, FS_Subset
<1> DEFINE n == Cardinality(orphans)
           s == Cardinality(starts)
           k == Cardinality(Parts)
<1>10. n \in Nat /\ s \in Nat /\ k \in Nat \ {0} /\ last \in Nat /\ s <= last + 1
  <2>1. RequestLife \in Nat /\ Interval \in Nat \ {0}
    BY AdapterAssumption DEF RequestLife
  <2> QED
    BY <1>1, <1>2, <1>7, <2>1, FS_CardinalityType, FS_EmptySet
<1>11. s + n <= s * k
  BY <1>5, <1>8, <1>9
<1> HIDE DEF n, s, k, last
<1>12. n <= (k - 1) * (last + 1)
  <2>1. n <= (k - 1) * s
    BY <1>10, <1>11
  <2>2. (k - 1) * s <= (k - 1) * (last + 1)
    BY <1>10
  <2>3. (k - 1) * s \in Int /\ (k - 1) * (last + 1) \in Int
    BY <1>10
  <2> QED
    BY <1>10, <2>1, <2>2, <2>3
<1> QED
  BY <1>12 DEF OrphansBounded, n, k, last

\* For every interval, every timeout, every venue and every number of pieces: the
\* requests that failed loads leave behind do not pile up as long as none of their
\* answers comes in more than that many pieces.  Each load leaves all but one of its
\* requests, the loads are an interval apart, and no request waits longer than the
\* timeout of its load and that of each of its pieces.
THEOREM OrphansCorrect == Spec => []OrphansBounded
<1>1. Init => OrphanInv
  <2>1. Init => SnapshotInv
    BY AdapterAssumption DEF Init, SnapshotInv, TypeOK, LoadInv
  <2> QED
    BY <2>1 DEF Init, OrphanInv, StartsInv, SpacedInv
<1>2. OrphanInv => OrphansBounded
  BY FewOrphans
<1> QED
  BY <1>1, <1>2, OrphanStep, PTL DEF Spec

----------------------------------------------------------------------------
(* What a snapshot says of its book *)

\* A level has a price and a volume.
LEMMA LevelAt ==
    ASSUME NEW levels \in Seq(Levels), NEW i \in DOMAIN levels
    PROVE  levels[i] \in Levels /\ levels[i].price \in Nat /\ levels[i].volume \in Nat
<1>1. levels[i] \in Levels
  OBVIOUS
<1> QED
  BY <1>1 DEF Levels

\* Sorting by an integer key puts a level with the least key first.
LEMMA FirstOfSorted ==
    ASSUME NEW levels \in Seq(Levels), levels # <<>>, NEW key \in [DOMAIN levels -> Int]
    PROVE  /\ SortedBy(levels, key) \in Seq(Levels)
           /\ \E x \in DOMAIN levels : /\ SortedBy(levels, key)[1] = levels[x]
                                       /\ \A t \in DOMAIN levels : key[x] <= key[t]
<1> DEFINE order == CHOOSE p \in Bijection(DOMAIN levels, DOMAIN levels) :
                     \A i, k \in DOMAIN levels : i < k => key[p[i]] <= key[p[k]]
<1> DEFINE n == Len(levels)
<1>1. n \in Nat /\ DOMAIN levels = 1..n /\ 1 \in 1..n
  OBVIOUS
<1>2. \E p \in Bijection(1..n, 1..n) : \A i, k \in 1..n : i < k => key[p[i]] <= key[p[k]]
  <2> HIDE DEF n
  <2> QED
    BY <1>1, SortExists
<1>3. /\ order \in Bijection(1..n, 1..n)
      /\ \A i, k \in 1..n : i < k => key[order[i]] <= key[order[k]]
  <2> HIDE DEF n
  <2> QED
    BY <1>1, <1>2
<1> HIDE DEF order
<1>4. order \in [1..n -> 1..n] /\ \A t \in 1..n : \E i \in 1..n : order[i] = t
  BY <1>3 DEF Bijection, Injection, Surjection
<1>5. ASSUME NEW t \in 1..n PROVE key[order[1]] <= key[t]
  <2>1. PICK i \in 1..n : order[i] = t
    BY <1>4
  <2>2. CASE i = 1
    <3>1. key[t] \in Int
      BY <1>1
    <3> QED
      BY <2>1, <2>2, <3>1
  <2>3. CASE i # 1
    <3>1. 1 < i
      BY <1>1, <2>3
    <3>2. key[order[1]] <= key[order[i]]
      BY <1>1, <1>3, <3>1, Zenon
    <3> QED
      BY <2>1, <3>2, Zenon
  <2> QED
    BY <2>2, <2>3
<1>6. SortedBy(levels, key) = [i \in 1..n |-> levels[order[i]]]
  BY <1>1 DEF SortedBy, order
<1> HIDE DEF n
<1>7. SortedBy(levels, key) \in Seq(Levels)
  <2>1. \A i \in 1..n : order[i] \in DOMAIN levels
    BY <1>1, <1>4
  <2>2. \A i \in 1..n : levels[order[i]] \in Levels
    BY <2>1, LevelAt, Zenon
  <2>3. SortedBy(levels, key) \in [1..n -> Levels]
    BY <1>6, <2>2, Zenon
  <2> QED
    BY <1>1, <2>3
<1>8. order[1] \in DOMAIN levels /\ SortedBy(levels, key)[1] = levels[order[1]]
  BY <1>1, <1>4, <1>6
<1> QED
  BY <1>1, <1>5, <1>7, <1>8

\* The greatest price of a side, and the least one.
LEMMA PricesOf ==
    ASSUME NEW levels \in Seq(Levels), NEW x \in DOMAIN levels
    PROVE  LET prices == {levels[i].price : i \in DOMAIN levels}
           IN /\ (\A t \in DOMAIN levels : levels[t].price <= levels[x].price)
                   => levels[x].price = Max(prices)
              /\ (\A t \in DOMAIN levels : levels[x].price <= levels[t].price)
                   => levels[x].price = Min(prices)
<1> DEFINE prices == {levels[i].price : i \in DOMAIN levels}
           price == levels[x].price
<1>1. prices \subseteq Nat /\ price \in prices /\ prices # {}
  BY LevelAt
<1>2. ASSUME \A t \in DOMAIN levels : levels[t].price <= price PROVE price = Max(prices)
  <2>1. prices \subseteq 0..price /\ price \in Nat
    BY <1>1, <1>2
  <2> HIDE DEF prices, price
  <2>2. Max(prices) \in prices /\ price <= Max(prices)
    BY <1>1, <2>1, MaxOfBounded
  <2>3. Max(prices) \in 0..price
    BY <2>1, <2>2, Zenon
  <2> QED
    BY <2>1, <2>2, <2>3
<1>3. ASSUME \A t \in DOMAIN levels : price <= levels[t].price PROVE price = Min(prices)
  <2>1. \A q \in prices : price <= q
    BY <1>3
  <2> HIDE DEF prices, price
  <2>2. Min(prices) \in prices /\ Min(prices) <= price
    BY <1>1, MinOfNaturals
  <2>3. Min(prices) \in Nat /\ price <= Min(prices) /\ price \in Nat
    BY <1>1, <2>1, <2>2
  <2> QED
    BY <2>2, <2>3
<1> QED
  BY <1>2, <1>3

\* However a book was sent, the first levels of its sorted sides are its best.
LEMMA BestPrices ==
    ASSUME NEW b \in Books
    PROVE  /\ Bids(b) \in Seq(Levels) /\ Asks(b) \in Seq(Levels)
           /\ BestBid(b) \in Nat /\ BestAsk(b) \in Nat
           /\ BestBid(b) = Max({b.bids[i].price : i \in DOMAIN b.bids})
           /\ BestAsk(b) = Min({b.asks[i].price : i \in DOMAIN b.asks})
<1>0. /\ b.bids \in Seq(Levels) /\ b.bids # <<>>
      /\ b.asks \in Seq(Levels) /\ b.asks # <<>>
  BY BooksAssumption
<1>1. /\ Bids(b) \in Seq(Levels) /\ BestBid(b) \in Nat
      /\ BestBid(b) = Max({b.bids[i].price : i \in DOMAIN b.bids})
  <2> DEFINE side == b.bids
             key == [i \in DOMAIN side |-> -side[i].price]
  <2>1. key \in [DOMAIN side -> Int] /\ Bids(b) = SortedBy(side, key)
    BY <1>0, LevelAt DEF Bids
  <2>2. Bids(b) \in Seq(Levels)
    <3> HIDE DEF key
    <3> QED
      BY <1>0, <2>1, FirstOfSorted
  <2>3. PICK x \in DOMAIN side : Bids(b)[1] = side[x] /\ \A t \in DOMAIN side : key[x] <= key[t]
    <3> HIDE DEF key
    <3> QED
      BY <1>0, <2>1, FirstOfSorted
  <2>4. ASSUME NEW t \in DOMAIN side PROVE side[t].price <= side[x].price
    <3>1. -side[x].price <= -side[t].price
      BY <2>3
    <3>2. side[x].price \in Nat /\ side[t].price \in Nat
      BY <1>0, <2>3, LevelAt
    <3> QED
      BY <3>1, <3>2
  <2>5. BestBid(b) = side[x].price /\ side[x].price \in Nat
    BY <1>0, <2>3, LevelAt DEF BestBid
  <2> HIDE DEF key
  <2> QED
    BY <1>0, <2>2, <2>4, <2>5, PricesOf
<1>2. /\ Asks(b) \in Seq(Levels) /\ BestAsk(b) \in Nat
      /\ BestAsk(b) = Min({b.asks[i].price : i \in DOMAIN b.asks})
  <2> DEFINE side == b.asks
             key == [i \in DOMAIN side |-> side[i].price]
  <2>1. key \in [DOMAIN side -> Int] /\ Asks(b) = SortedBy(side, key)
    BY <1>0, LevelAt DEF Asks
  <2>2. Asks(b) \in Seq(Levels)
    <3> HIDE DEF key
    <3> QED
      BY <1>0, <2>1, FirstOfSorted
  <2>3. PICK x \in DOMAIN side : Asks(b)[1] = side[x] /\ \A t \in DOMAIN side : key[x] <= key[t]
    <3> HIDE DEF key
    <3> QED
      BY <1>0, <2>1, FirstOfSorted
  <2>4. \A t \in DOMAIN side : side[x].price <= side[t].price
    BY <1>0, <2>3, LevelAt
  <2>5. BestAsk(b) = side[x].price /\ side[x].price \in Nat
    BY <1>0, <2>3, LevelAt DEF BestAsk
  <2> HIDE DEF key
  <2> QED
    BY <1>0, <2>2, <2>4, <2>5, PricesOf
<1> QED
  BY <1>1, <1>2

\* The depth of a side is a number: every level adds to it.
LEMMA DepthIsNatural ==
    ASSUME NEW levels \in Seq(Levels), NEW multiple \in Nat
    PROVE  Depth(levels, multiple) \in Nat
<1> DEFINE Adds(sum, x) == sum + x.price * x.volume * multiple
           op == [a \in Nat |-> [x \in Levels |-> Adds(a, x)]]
           Sums(f) == f = [s \in SUBSET DOMAIN levels |->
                             IF s = {} THEN 0 ELSE Adds(f[s \ {Max(s)}], levels[Max(s)])]
<1>1. op \in [Nat -> [Levels -> Nat]]
  BY DEF Levels
<1>2. PICK it \in [SUBSET DOMAIN levels -> Nat] : IsFold(it, 0, levels, op)
  <2> HIDE DEF op
  <2> QED
    BY <1>1, FoldExists
<1>3. Sums(it)
  <2>1. ASSUME NEW s \in SUBSET DOMAIN levels, s # {}
        PROVE  op[it[s \ {Max(s)}]][levels[Max(s)]] = Adds(it[s \ {Max(s)}], levels[Max(s)])
    <3>1. DOMAIN levels = 1..Len(levels) /\ Len(levels) \in Nat /\ s \subseteq 0..Len(levels)
      OBVIOUS
    <3>2. Max(s) \in DOMAIN levels
      BY <2>1, <3>1, MaxOfBounded
    <3>3. levels[Max(s)] \in Levels /\ s \ {Max(s)} \in SUBSET DOMAIN levels
      BY <3>2
    <3>4. it[s \ {Max(s)}] \in Nat
      BY <3>3
    <3> HIDE DEF Adds
    <3> QED
      BY <3>3, <3>4
  <2> HIDE DEF op, Adds
  <2> QED
    BY <1>2, <2>1 DEF IsFold
<1> DEFINE f == CHOOSE g : Sums(g)
<1>4. Depth(levels, multiple) = f[DOMAIN levels]
  BY DEF Depth, FoldLeft, MapThenFoldSet
<1>5. Sums(f)
  <2> HIDE DEF Sums
  <2> QED
    BY <1>3
<1> HIDE DEF f, op
<1> DEFINE n == Len(levels)
           Natural == {i \in 0..n : f[1..i] \in Nat}
<1>6. n \in Nat /\ DOMAIN levels = 1..n
  OBVIOUS
<1>7. 0 \in Natural
  <2>1. f[{}] = 0
    BY <1>5
  <2>2. 1..0 = {} /\ 0 \in 0..n
    BY <1>6
  <2> QED
    BY <2>1, <2>2
<1>8. ASSUME NEW i \in 1..n, i - 1 \in Natural PROVE i \in Natural
  <2>1. /\ Max(1..i) = i /\ (1..i) \ {i} = 1..(i - 1) /\ i \in 1..i
        /\ 1..i \in SUBSET DOMAIN levels
    BY <1>6, PrefixSets
  <2>2. f[1..i] = Adds(f[1..(i - 1)], levels[i])
    <3>1. f[1..i] = Adds(f[(1..i) \ {Max(1..i)}], levels[Max(1..i)])
      <4> HIDE DEF Adds
      <4> QED
        BY <1>5, <2>1
    <3> QED
      BY <2>1, <3>1
  <2>3. levels[i] \in Levels /\ levels[i].price \in Nat /\ levels[i].volume \in Nat
    BY <1>6, LevelAt
  <2>4. f[1..(i - 1)] \in Nat /\ i \in 0..n
    BY <1>6, <1>8
  <2>5. Adds(f[1..(i - 1)], levels[i]) \in Nat
    <3>1. \A a, b, c \in Nat : a + b * c * multiple \in Nat
      OBVIOUS
    <3> QED
      BY <2>3, <2>4, <3>1, Zenon
  <2> QED
    BY <2>2, <2>4, <2>5
<1>9. n \in Natural
  <2>1. 0..n \subseteq Natural
    <3> HIDE DEF Natural, n
    <3> QED
      BY <1>6, <1>7, <1>8, SetInduction
  <2> QED
    BY <1>6, <2>1
<1> QED
  BY <1>4, <1>6, <1>9

\* The answers that are in are answers to their requests.
AnswerInv ==
    load # None => \A p \in Parts : load.answers[p] # None
                                     => load.answers[p].data \in Contents(p)

\* Every step keeps the answers of the running load answers to its requests.
LEMMA AnswerStep ==
    ASSUME SnapshotInv, AnswerInv, [Next]_vars
    PROVE  AnswerInv'
<1>0. TypeOK /\ LoadInv
  BY DEF SnapshotInv
<1>1. Parts' = Parts /\ \A p : Contents(p)' = Contents(p)
  <2>1. venue' = venue
    BY DEF Next, Tick, Start, Receive, Complete, RequestRaises, OrphanProgress, OrphanEnds,
         Cancel, vars
  <2> QED
    BY <2>1 DEF Contents, Parts, Adapter
<1>2. CASE UNCHANGED load
  BY <1>1, <1>2 DEF AnswerInv
<1>3. CASE load' = None
  BY <1>3 DEF AnswerInv
<1>4. CASE Start
  <2>1. \A p \in Parts : load'.answers[p] = None
    BY <1>4 DEF Start
  <2> QED
    BY <1>1, <2>1 DEF AnswerInv
<1>5. ASSUME NEW p \in Parts, Receive(p) PROVE AnswerInv'
  <2>1. PICK a \in Answers(p) : load' = [load EXCEPT !.answers[p] = a]
    BY <1>5 DEF Receive
  <2>2. /\ load # None /\ load = [started |-> load.started, answers |-> load.answers]
        /\ DOMAIN load.answers = Parts
    BY <1>0, <1>5 DEF Receive, TypeOK, LoadInv
  <2>3. load'.answers[p] = a /\ \A q \in Parts \ {p} : load'.answers[q] = load.answers[q]
    BY <2>1, <2>2
  <2>4. a.data \in Contents(p)
    BY <2>1 DEF Answers
  <2> QED
    BY <1>1, <2>2, <2>3, <2>4 DEF AnswerInv
<1>6. CASE Tick \/ Cancel \/ UNCHANGED vars \/ \E r \in orphans : OrphanProgress(r) \/ OrphanEnds(r)
  BY <1>2, <1>3, <1>6 DEF Tick, Cancel, vars, OrphanProgress, OrphanEnds
<1>7. CASE \E p \in Parts : Complete(p) \/ \E state \in {"DOWN", "DEGRADED"} : RequestRaises(p, state)
  BY <1>3, <1>7 DEF Complete, RequestRaises
<1> QED
  BY <1>4, <1>5, <1>6, <1>7 DEF Next

\* The time that a snapshot takes over from the venue is one of its answers'.
LEMMA SourceTimestampOf ==
    ASSUME venue \in Venues, NEW answers, \A p \in Parts : answers[p].at \in Nat
    PROVE  SourceTimestamp(answers) \in Nat \cup {NoTimestamp}
<1>1. venue \in {"LBANK", "BINANCE", "BYBIT", "MEXC", "GATE"}
  BY AdapterAssumption DEF Sources
<1>2. /\ DOMAIN Adapter.stamp \subseteq Nat
      /\ \A i \in DOMAIN Adapter.stamp : Adapter.stamp[i] \in Parts
  BY <1>1 DEF Parts, Adapter, LBank, Binance, Bybit, Mexc, Gate
<1> DEFINE stamped == {i \in DOMAIN Adapter.stamp : answers[Adapter.stamp[i]].stamped}
<1>3. CASE stamped = {}
  BY <1>3 DEF SourceTimestamp
<1>4. CASE stamped # {}
  <2>1. stamped \subseteq Nat /\ stamped \subseteq DOMAIN Adapter.stamp
    BY <1>2
  <2>2. SourceTimestamp(answers) = answers[Adapter.stamp[Min(stamped)]].at
    BY <1>4 DEF SourceTimestamp
  <2> HIDE DEF stamped
  <2>3. Min(stamped) \in DOMAIN Adapter.stamp
    BY <1>4, <2>1, MinOfNaturals
  <2>4. Adapter.stamp[Min(stamped)] \in Parts
    BY <1>2, <2>3, Zenon
  <2> QED
    BY <2>2, <2>4
<1> QED
  BY <1>3, <1>4

\* The last answer makes a snapshot of the answers of this load, or none.
LEMMA CompleteIsItsAnswers ==
    ASSUME SnapshotInv, AnswerInv, NEW p \in Parts, Complete(p)
    PROVE  SnapshotIsItsAnswers'
<1>1. /\ clock \in Nat /\ load # None /\ load.started \in 0..clock /\ venue \in Venues
      /\ DOMAIN load.answers = Parts /\ Waiting = {p} /\ "book" \in Parts
  BY PartsFinite DEF SnapshotInv, TypeOK, Complete
<1>2. PICK a \in Answers(p) :
        payload' = IF Parses([load.answers EXCEPT ![p] = a])
                   THEN Loaded(Snapshot([load.answers EXCEPT ![p] = a]))
                   ELSE Failed("DEGRADED")
  BY DEF Complete
<1> DEFINE answers == [load.answers EXCEPT ![p] = a]
           times == {answers[q].at : q \in Parts}
<1>3. \A q \in Parts : answers[q].at \in load.started..clock /\ answers[q].data \in Contents(q)
  <2> TAKE q \in Parts
  <2>1. CASE q = p
    BY <1>1, <2>1 DEF Answers
  <2>2. CASE q # p
    BY <1>1, <2>2 DEF Waiting, SnapshotInv, LoadInv, AnswerInv
  <2> QED
    BY <2>1, <2>2
<1> HIDE DEF answers
<1>4. CASE ~Parses(answers)
  BY <1>2, <1>4 DEF Failed, SnapshotIsItsAnswers, answers
<1>5. CASE Parses(answers)
  <2> DEFINE book == answers["book"].data
             multiple == answers["contract"].data
             s == Snapshot(answers)
  <2>1. book \in Books /\ multiple \in Nat
    <3>1. "contract" \in Parts
      BY <1>1, AdapterAssumption
      DEF Sources, Parts, Adapter, LBank, Binance, Bybit, Mexc, Gate
    <3>2. book \in Contents("book") \ {Bad} /\ multiple \in Contents("contract") \ {Bad}
      BY <1>1, <1>3, <1>5, <3>1 DEF Parses
    <3>3. Contents("book") \subseteq Books \cup {Bad}
      BY DEF Contents
    <3>4. Contents("contract") \subseteq Nat \cup {Bad}
      BY AdapterAssumption DEF Contents
    <3> QED
      BY <3>2, <3>3, <3>4
  <2>2. /\ times \subseteq Nat /\ times # {}
        /\ \A t \in times : load.started <= t /\ t <= clock
    BY <1>1, <1>3
  <2>3. Min(times) \in Nat /\ load.started <= Min(times) /\ Min(times) <= clock
    <3> HIDE DEF times
    <3> QED
      BY <2>2, MinOfNaturals
  <2>4. SourceTimestamp(answers) \in Nat \cup {NoTimestamp}
    <3>1. \A q \in Parts : answers[q].at \in Nat
      BY <1>1, <1>3
    <3> QED
      BY <1>1, <3>1, SourceTimestampOf
  <2>5. /\ Bids(book) \in Seq(Levels) /\ Asks(book) \in Seq(Levels)
        /\ BestBid(book) \in Nat /\ BestAsk(book) \in Nat
        /\ BestBid(book) = Max({book.bids[i].price : i \in DOMAIN book.bids})
        /\ BestAsk(book) = Min({book.asks[i].price : i \in DOMAIN book.asks})
    <3> HIDE DEF book
    <3> QED
      BY <2>1, BestPrices
  <2>6. Depth(Bids(book), multiple) \in Nat /\ Depth(Asks(book), multiple) \in Nat
    <3> HIDE DEF book, multiple
    <3> QED
      BY <2>1, <2>5, DepthIsNatural
  <2>7. /\ s.received_at = clock /\ s.started = load.started /\ s.oldest = Min(times)
        /\ s.book = book /\ s.best_bid = BestBid(book) /\ s.best_ask = BestAsk(book)
    BY DEF Snapshot
  <2>8. s # None
    <3>1. Latency(load.started) \in Nat
      BY <1>1 DEF Latency
    <3>2. s = [received_at |-> clock, latency |-> Latency(load.started),
               source_timestamp |-> SourceTimestamp(answers), book |-> book,
               best_bid |-> BestBid(book), best_ask |-> BestAsk(book),
               bid_depth |-> Depth(Bids(book), multiple),
               ask_depth |-> Depth(Asks(book), multiple),
               started |-> load.started, oldest |-> Min(times)]
      BY DEF Snapshot
    <3>3. load.started \in Nat
      BY <1>1
    <3> HIDE DEF book, multiple, times, s
    <3>4. s \in Snapshots
      BY <1>1, <2>1, <2>3, <2>4, <2>5, <2>6, <3>1, <3>2, <3>3 DEF Snapshots
    <3> QED
      BY <3>4, NoneAssumption
  <2>9. BestBid(book) < BestAsk(book)
    BY <1>5 DEF Parses
  <2>10. payload' = [state |-> "OK", snapshot |-> s]
    BY <1>2, <1>5 DEF Loaded, answers
  <2>11. /\ s.started <= s.oldest /\ s.oldest <= s.received_at
         /\ s.best_bid = Max({s.book.bids[i].price : i \in DOMAIN s.book.bids})
         /\ s.best_ask = Min({s.book.asks[i].price : i \in DOMAIN s.book.asks})
         /\ s.best_bid < s.best_ask
    <3> HIDE DEF book, multiple, times, s
    <3> QED
      BY <2>3, <2>5, <2>7, <2>9
  <2> HIDE DEF s
  <2> QED
    BY <2>8, <2>10, <2>11 DEF SnapshotIsItsAnswers
<1> QED
  BY <1>4, <1>5

\* For every venue, every set of books and every timing of the answers: a
\* snapshot is made of the answers of its own load, and its best prices are the
\* extremes of the book that was sent.
THEOREM SnapshotIsItsAnswersCorrect == Spec => []SnapshotIsItsAnswers
<1>1. Init => AnswerInv /\ SnapshotIsItsAnswers
  BY DEF Init, AnswerInv, SnapshotIsItsAnswers
<1>2. ASSUME SnapshotInv, AnswerInv, SnapshotIsItsAnswers, [Next]_vars
      PROVE  SnapshotIsItsAnswers'
  <2>1. CASE UNCHANGED payload
    BY <1>2, <2>1 DEF SnapshotIsItsAnswers
  <2>2. CASE Tick \/ Start \/ Cancel \/ UNCHANGED vars
    BY <2>1, <2>2 DEF Tick, Start, Cancel, vars
  <2>3. CASE (\E p \in Parts : Receive(p)) \/ (\E r \in orphans : OrphanProgress(r) \/ OrphanEnds(r))
    BY <2>1, <2>3 DEF Receive, OrphanProgress, OrphanEnds
  <2>4. CASE \E p \in Parts : Complete(p)
    BY <1>2, <2>4, CompleteIsItsAnswers
  <2>5. CASE \E p \in Parts, state \in {"DOWN", "DEGRADED"} : RequestRaises(p, state)
    BY <2>5 DEF RequestRaises, Failed, SnapshotIsItsAnswers
  <2> QED
    BY <1>2, <2>2, <2>3, <2>4, <2>5 DEF Next
<1> QED
  BY <1>1, <1>2, AnswerStep, SnapshotInvCorrect, PTL DEF Spec
=============================================================================
