------------------------- MODULE SourceCache_proofs -------------------------
(***************************************************************************)
(* Proofs about SourceCache: the request budget and the age of a batch,    *)
(* for every number of clients and keys and every TTL, window and timeout. *)
(***************************************************************************)
EXTENDS SourceCache, Data_proofs, FiniteSetTheorems, SequenceTheorems, TLAPS

\* The popleft loop of acquire ends: it drops a prefix of the deque, all of it out
\* of the window.
LEMMA PrunedIsSuffix ==
    ASSUME TypeOK
    PROVE  /\ Dropped \in 0..Len(requests)
           /\ Pruned = SubSeq(requests, Dropped + 1, Len(requests))
           /\ \A i \in 1..Dropped : requests[i] <= clock - Window
<1> DEFINE L == Len(requests)
           Kept == {n \in Nat : n = L \/ (n < L /\ requests[n + 1] > clock - Window)}
           Ends(n) == /\ \A i \in 1..n : requests[i] <= clock - Window
                      /\ n < L => requests[n + 1] > clock - Window
<1>1. L \in Nat /\ clock \in Int /\ Window \in Nat /\ \A i \in 1..L : requests[i] \in Int
  BY CacheAssumption DEF TypeOK
<1>2. L \in Kept
  BY <1>1
<1>3. PICK d \in Kept : \A y \in Kept : d <= y
  BY <1>2, LeastNatural
<1>4. d \in 0..L /\ Ends(d)
  <2>1. d \in 0..L /\ (d < L => requests[d + 1] > clock - Window)
    BY <1>1, <1>2, <1>3
  <2>2. ASSUME NEW i \in 1..d PROVE requests[i] <= clock - Window
    <3>1. i - 1 \in Nat /\ i - 1 < L /\ i - 1 < d
      BY <1>1, <2>1
    <3>2. i - 1 \notin Kept
      BY <1>3, <3>1
    <3> QED
      BY <1>1, <2>1, <3>1, <3>2
  <2> QED
    BY <2>1, <2>2
<1>5. Dropped = CHOOSE n \in 0..L : Ends(n)
  BY DEF Dropped
<1> HIDE DEF Ends
<1>6. Dropped \in 0..L /\ Ends(Dropped)
  BY <1>4, <1>5
<1> QED
  BY <1>6 DEF Pruned, Ends
----------------------------------------------------------------------------
(* The type invariant. *)

\* What load leaves behind of a call, and what a request that was sent looks like.
LEMMA CallTyping ==
    /\ \A state \in {"NONE", "OK", "DEGRADED", "DOWN"} :
         [Idle EXCEPT !.state = state] \in Call
    /\ \A t \in Int, document \in Data, hit \in BOOLEAN :
         [Idle EXCEPT !.state = "OK", !.hit = hit, !.document = document,
                      !.fetched_at = t] \in Call
    /\ \A t \in Int, k \in Keys :
         [Idle EXCEPT !.pc = "sent", !.key = k, !.sent_at = t] \in Call
<1>1. None \in Data
  BY DEF Data
<1>2. Idle \in Call
  BY <1>1 DEF Idle, Call
<1>3. ASSUME NEW state \in {"NONE", "OK", "DEGRADED", "DOWN"}
      PROVE  [Idle EXCEPT !.state = state] \in Call
  BY <1>2 DEF Call
<1>4. ASSUME NEW t \in Int, NEW document \in Data, NEW hit \in BOOLEAN
      PROVE  [Idle EXCEPT !.state = "OK", !.hit = hit, !.document = document,
                          !.fetched_at = t] \in Call
  BY <1>2 DEF Call
<1>5. ASSUME NEW t \in Int, NEW k \in Keys
      PROVE  [Idle EXCEPT !.pc = "sent", !.key = k, !.sent_at = t] \in Call
  BY <1>2 DEF Call
<1> QED
  BY <1>3, <1>4, <1>5

\* get and the popleft loop keep the types of the cache and of the deque.
LEMMA MissTyping ==
    ASSUME TypeOK, NEW k \in Keys
    PROVE  AfterGet(k) \in [Keys -> Entry \cup {None}] /\ Pruned \in Seq(Int)
<1>1. AfterGet(k) \in [Keys -> Entry \cup {None}]
  BY DEF AfterGet, TypeOK
<1>2. Pruned \in Seq(Int)
  <2>1. requests \in Seq(Int) /\ Len(requests) \in Nat /\ Dropped \in 0..Len(requests)
    BY PrunedIsSuffix DEF TypeOK
  <2>2. Dropped + 1 \in 1..(Len(requests) + 1)
    BY <2>1
  <2>3. SubSeq(requests, Dropped + 1, Len(requests)) \in Seq(Int)
    BY <2>1, <2>2, SubSeqProperties
  <2> QED
    BY <2>3, PrunedIsSuffix
<1> QED
  BY <1>1, <1>2

\* load returns a call that is over, whatever it was given.
LEMMA BatchTyping ==
    ASSUME TypeOK, NEW c \in Clients, NEW document \in Data, NEW hit \in BOOLEAN,
           ReturnsBatch(c, document, hit)
    PROVE  client' \in [Clients -> Call]
<1>1. clock \in Int /\ client \in [Clients -> Call]
  BY DEF TypeOK
<1>2. CASE Parses(document)
  BY <1>1, <1>2, CallTyping DEF ReturnsBatch
<1>3. CASE ~Parses(document)
  BY <1>1, <1>3, CallTyping DEF ReturnsBatch
<1> QED
  BY <1>2, <1>3

\* Every step of a client, of the service and of the clock keeps the types.
LEMMA TypeStep ==
    ASSUME TypeOK, [Next]_vars
    PROVE  TypeOK'
<1>1. CASE Tick \/ Clear \/ UNCHANGED vars
  BY <1>1 DEF Tick, Clear, vars, TypeOK
<1>2. ASSUME NEW c \in Clients, NEW k \in Keys, ServeHit(c, k)
      PROVE  TypeOK'
  <2>1. items[k].value \in Data /\ ReturnsBatch(c, items[k].value, TRUE)
    BY <1>2 DEF ServeHit, Hit, Live, TypeOK, Entry
  <2>2. client' \in [Clients -> Call]
    BY <2>1, BatchTyping
  <2> QED
    BY <1>2, <2>2 DEF ServeHit, TypeOK
<1>3. ASSUME NEW c \in Clients, NEW k \in Keys, RefuseBudget(c, k)
      PROVE  TypeOK'
  BY <1>3, MissTyping, CallTyping DEF RefuseBudget, ReturnsFailure, TypeOK
<1>4. ASSUME NEW c \in Clients, NEW k \in Keys, Send(c, k)
      PROVE  TypeOK'
  <2>1. client' \in [Clients -> Call]
    BY <1>4, CallTyping DEF Send, TypeOK
  <2>2. requests' \in Seq(Int) /\ grants' \in Seq(Int)
    BY <1>4, MissTyping DEF Send, TypeOK
  <2> QED
    BY <1>4, <2>1, <2>2, MissTyping DEF Send, TypeOK
<1>5. ASSUME NEW c \in Clients, NEW sound \in BOOLEAN, ServiceReads(c, sound)
      PROVE  TypeOK'
  <2>1. [at |-> clock, sound |-> sound] \in Data
    BY DEF TypeOK, Data
  <2> DEFINE d == [at |-> clock, sound |-> sound]
  <2> HIDE DEF d
  <2>2. [client[c] EXCEPT !.body = d] \in Call
    BY <2>1 DEF d, TypeOK, Call
  <2>3. client' = [client EXCEPT ![c] = [client[c] EXCEPT !.body = d]]
    BY <1>5 DEF ServiceReads, TypeOK, d
  <2> QED
    BY <1>5, <2>2, <2>3 DEF ServiceReads, TypeOK
<1>6. ASSUME NEW c \in Clients, Answer(c)
      PROVE  TypeOK'
  <2>1. client[c].body \in Data /\ clock \in Int
    BY DEF TypeOK, Call
  <2>2. client' \in [Clients -> Call]
    BY <1>6, <2>1, BatchTyping DEF Answer
  <2>3. NewEntry(client[c].body) \in Entry
    BY <2>1, CacheAssumption DEF NewEntry, Entry
  <2>4. items' \in [Keys -> Entry \cup {None}]
    BY <1>6, <2>3 DEF Answer, TypeOK
  <2> QED
    BY <1>6, <2>2, <2>4 DEF Answer, TypeOK
<1>7. ASSUME NEW c \in Clients, NEW state \in {"NONE", "DEGRADED", "DOWN"},
             Abort(c, state)
      PROVE  TypeOK'
  BY <1>7, CallTyping DEF Abort, ReturnsFailure, TypeOK
<1> QED
  BY <1>1, <1>2, <1>3, <1>4, <1>5, <1>6, <1>7 DEF Next

\* The type invariant of the cached requests.
THEOREM CacheTypeCorrect == Spec => []TypeOK
<1>1. Init => TypeOK
  <2>1. Idle \in Call
    BY DEF Idle, Call, Data
  <2> QED
    BY <2>1 DEF Init, TypeOK
<1> QED
  BY <1>1, TypeStep, PTL DEF Spec

----------------------------------------------------------------------------
(* The budget: the deque is the end of the history of the requests, and what  *)
(* it has forgotten is out of the window.                                     *)

BudgetInv ==
    /\ \A i \in DOMAIN grants : grants[i] <= clock
    /\ Len(requests) <= Len(grants) /\ Len(requests) <= MaxRequests
    /\ \A i \in 1..Len(requests) : requests[i] = grants[Len(grants) - Len(requests) + i]
    /\ \A i \in 1..(Len(grants) - Len(requests)) : grants[i] <= clock - Window

\* The requests of the window that ends with request i of the history g.
InWindow(g, i) ==
    {j \in DOMAIN g : g[i] - Window < g[j] /\ g[j] <= g[i]}

\* acquire keeps the deque the end of the history.
LEMMA PruneKeepsBudget ==
    ASSUME TypeOK, BudgetInv
    PROVE  /\ Len(Pruned) \in Nat /\ Len(Pruned) <= Len(grants)
           /\ Len(Pruned) <= Len(requests)
           /\ \A i \in 1..Len(Pruned) : Pruned[i] = grants[Len(grants) - Len(Pruned) + i]
           /\ \A i \in 1..(Len(grants) - Len(Pruned)) : grants[i] <= clock - Window
<1> DEFINE L == Len(requests)
           G == Len(grants)
           d == Dropped
<1>1. /\ L \in Nat /\ G \in Nat /\ L <= G /\ clock \in Int /\ Window \in Nat
      /\ \A i \in 1..L : requests[i] = grants[G - L + i]
      /\ \A i \in 1..(G - L) : grants[i] <= clock - Window
  BY CacheAssumption DEF TypeOK, BudgetInv
<1>2. /\ d \in 0..L /\ Pruned = SubSeq(requests, d + 1, L)
      /\ \A i \in 1..d : requests[i] <= clock - Window
  BY PrunedIsSuffix
<1> HIDE DEF d
<1>3. Len(Pruned) = L - d /\ \A i \in 1..(L - d) : Pruned[i] = requests[d + i]
  BY <1>1, <1>2 DEF TypeOK
<1>4. \A i \in 1..(L - d) : Pruned[i] = grants[G - (L - d) + i]
  BY <1>1, <1>2, <1>3
<1>5. ASSUME NEW i \in 1..(G - (L - d)) PROVE grants[i] <= clock - Window
  <2>1. CASE i <= G - L
    BY <1>1, <2>1
  <2>2. CASE i > G - L
    <3>1. i - (G - L) \in 1..d /\ i - (G - L) \in 1..L
      BY <1>1, <1>2, <2>2
    <3>2. requests[i - (G - L)] = grants[i]
      BY <1>1, <3>1
    <3> QED
      BY <1>2, <3>1, <3>2
  <2> QED
    BY <1>1, <1>2, <2>1, <2>2
<1>6. L - d \in Nat /\ L - d <= G /\ L - d <= L
  BY <1>1, <1>2
<1> HIDE DEF L, G
<1>7. /\ \A i \in 1..Len(Pruned) : Pruned[i] = grants[G - Len(Pruned) + i]
      /\ \A i \in 1..(G - Len(Pruned)) : grants[i] <= clock - Window
  BY <1>3, <1>4, <1>5
<1> QED
  BY <1>3, <1>6, <1>7 DEF L, G

\* A granted request: its window, and those of the requests of the same instant,
\* hold what the deque holds with it; the other windows have not changed.
LEMMA SendStep ==
    ASSUME TypeOK, BudgetInv, BudgetHolds, NEW c \in Clients, NEW k \in Keys, Send(c, k)
    PROVE  BudgetInv' /\ BudgetHolds'
<1> DEFINE G == Len(grants)
           P == Len(Pruned)
           g == Append(grants, clock)
<1>1. /\ G \in Nat /\ P \in Nat /\ P <= G /\ clock \in Int /\ Window \in Nat
      /\ Window > 0 /\ MaxRequests \in Nat
      /\ \A i \in 1..G : grants[i] \in Int /\ grants[i] <= clock
      /\ \A i \in 1..P : Pruned[i] = grants[G - P + i]
      /\ \A i \in 1..(G - P) : grants[i] <= clock - Window
  BY PruneKeepsBudget, CacheAssumption DEF TypeOK, BudgetInv
<1>2. /\ grants' = g /\ requests' = Append(Pruned, clock) /\ clock' = clock
      /\ P < MaxRequests
  BY DEF Send, WithinBudget
<1>3. /\ Len(g) = G + 1 /\ DOMAIN g = 1..(G + 1) /\ g[G + 1] = clock
      /\ \A i \in 1..G : g[i] = grants[i]
  BY <1>1 DEF TypeOK
<1>4. /\ Len(Append(Pruned, clock)) = P + 1 /\ Append(Pruned, clock)[P + 1] = clock
      /\ \A i \in 1..P : Append(Pruned, clock)[i] = Pruned[i]
  BY MissTyping
<1> HIDE DEF P, g, G
<1>5. BudgetInv'
  <2>1. \A i \in DOMAIN g : g[i] <= clock
    BY <1>1, <1>3
  <2>2. \A i \in 1..(P + 1) : Append(Pruned, clock)[i] = g[(G + 1) - (P + 1) + i]
    <3> TAKE i \in 1..(P + 1)
    <3>1. i \in Nat /\ (G + 1) - (P + 1) + i = G - P + i
      BY <1>1
    <3>2. CASE i = P + 1
      <4>1. G - P + i = G + 1
        BY <1>1, <3>2
      <4> QED
        BY <1>3, <1>4, <3>1, <3>2, <4>1
    <3>3. CASE i # P + 1
      <4>1. i \in 1..P /\ G - P + i \in 1..G
        BY <1>1, <3>3
      <4> QED
        BY <1>1, <1>3, <1>4, <3>1, <4>1
    <3> QED
      BY <3>2, <3>3
  <2>3. \A i \in 1..((G + 1) - (P + 1)) : g[i] <= clock - Window
    BY <1>1, <1>3
  <2> QED
    BY <1>1, <1>2, <1>3, <1>4, <2>1, <2>2, <2>3 DEF BudgetInv
<1>6. ASSUME NEW i \in 1..(G + 1), g[i] = clock
      PROVE  Cardinality(InWindow(g, i)) <= MaxRequests
  <2>1. InWindow(g, i) \subseteq (G - P + 1)..(G + 1)
    <3> SUFFICES ASSUME NEW j \in InWindow(g, i) PROVE j \in (G - P + 1)..(G + 1)
      OBVIOUS
    <3>1. j \in 1..(G + 1) /\ clock - Window < g[j]
      BY <1>3, <1>6 DEF InWindow
    <3>2. j \notin 1..(G - P)
      BY <1>1, <1>3, <3>1
    <3> QED
      BY <1>1, <3>1, <3>2
  <2>2. /\ IsFiniteSet((G - P + 1)..(G + 1))
        /\ Cardinality((G - P + 1)..(G + 1)) = P + 1
    BY <1>1, FS_Interval
  <2>3. Cardinality(InWindow(g, i)) <= P + 1 /\ IsFiniteSet(InWindow(g, i))
    BY <2>1, <2>2, FS_Subset
  <2> QED
    BY <1>1, <1>2, <2>3, FS_CardinalityType
<1>7. ASSUME NEW i \in 1..(G + 1), g[i] # clock
      PROVE  Cardinality(InWindow(g, i)) <= MaxRequests
  <2>1. i \in 1..G /\ g[i] = grants[i] /\ g[i] < clock
    BY <1>1, <1>3, <1>7
  <2>2. InWindow(g, i) = InWindow(grants, i)
    <3>1. DOMAIN grants = 1..G
      BY DEF TypeOK, G
    <3>2. \A j \in 1..(G + 1) : j \in 1..G \/ ~(g[j] <= g[i])
      BY <1>1, <1>3, <2>1
    <3> QED
      BY <1>1, <1>3, <2>1, <3>1, <3>2 DEF InWindow
  <2>3. Cardinality(InWindow(grants, i)) <= MaxRequests
    <3>1. i \in DOMAIN grants
      BY <2>1 DEF TypeOK, G
    <3> QED
      BY <3>1 DEF BudgetHolds, InWindow
  <2> QED
    BY <2>2, <2>3
<1>8. BudgetHolds'
  BY <1>2, <1>3, <1>6, <1>7 DEF BudgetHolds, InWindow
<1> QED
  BY <1>5, <1>8

\* The source is asked at most MaxRequests times in any window, for every number
\* of clients and every order of their misses and cancellations.
THEOREM BudgetCorrect == Spec => []BudgetHolds
<1>1. Init => BudgetInv /\ BudgetHolds
  BY CacheAssumption DEF Init, BudgetInv, BudgetHolds
<1>2. ASSUME TypeOK, BudgetInv, BudgetHolds, [Next]_vars
      PROVE  BudgetInv' /\ BudgetHolds'
  <2>1. CASE UNCHANGED <<clock, requests, grants>>
    BY <1>2, <2>1 DEF BudgetInv, BudgetHolds
  <2>2. CASE Tick
    BY <1>2, <2>2, CacheAssumption DEF Tick, BudgetInv, BudgetHolds, TypeOK
  <2>3. ASSUME NEW c \in Clients, NEW k \in Keys, RefuseBudget(c, k)
        PROVE  BudgetInv' /\ BudgetHolds'
    <3>1. UNCHANGED <<clock, grants>> /\ requests' = Pruned
      BY <2>3 DEF RefuseBudget
    <3>2. BudgetInv'
      BY <1>2, <3>1, PruneKeepsBudget, CacheAssumption DEF BudgetInv, TypeOK
    <3> QED
      BY <1>2, <3>1, <3>2 DEF BudgetHolds
  <2>4. ASSUME NEW c \in Clients, NEW k \in Keys, Send(c, k)
        PROVE  BudgetInv' /\ BudgetHolds'
    BY <1>2, <2>4, SendStep
  <2>5. CASE Clear \/ UNCHANGED vars
    BY <2>1, <2>5 DEF Clear, vars
  <2>6. ASSUME NEW c \in Clients,
               \/ \E k \in Keys : ServeHit(c, k)
               \/ \E sound \in BOOLEAN : ServiceReads(c, sound)
               \/ Answer(c)
               \/ \E state \in {"NONE", "DEGRADED", "DOWN"} : Abort(c, state)
        PROVE  BudgetInv' /\ BudgetHolds'
    BY <2>1, <2>6 DEF ServeHit, ServiceReads, Answer, Abort
  <2> QED
    BY <1>2, <2>2, <2>3, <2>4, <2>5, <2>6 DEF Next
<1> QED
  BY <1>1, <1>2, CacheTypeCorrect, PTL DEF Spec
----------------------------------------------------------------------------
(* The age of a batch: how old the documents under way and in the cache are.  *)

\* A request under way is younger than the timeout, and its document is younger
\* than the request.
UnderWay(q) ==
    q.pc = "sent" =>
        /\ q.key \in Keys
        /\ q.sent_at <= clock /\ clock <= q.sent_at + LoadTimeout
        /\ q.body # None => q.sent_at <= q.body.at /\ q.body.at <= clock

\* A document was at most as old as a request when it was cached.
Cached(e) ==
    e # None /\ e.value # None => (e.expires_at - Ttl) - e.value.at <= LoadTimeout

\* A batch that load returned, as BatchIsRecent has it.
Recent(q) ==
    q.state = "OK" =>
        /\ q.document.sound
        /\ q.fetched_at - q.document.at < LoadTimeout + (IF q.hit THEN Ttl ELSE 1)

RecentInv ==
    /\ \A c \in Clients : UnderWay(client[c]) /\ Recent(client[c])
    /\ \A k \in Keys : Cached(items[k])

\* A call that is over: nothing is under way, and its batch is as recent as the
\* document that load was given.
LEMMA ReturnIsRecent ==
    ASSUME TypeOK, RecentInv, NEW c \in Clients, NEW document \in Data, NEW hit \in BOOLEAN,
           ReturnsBatch(c, document, hit), UNCHANGED clock,
           document # None => clock - document.at < LoadTimeout + (IF hit THEN Ttl ELSE 1)
    PROVE  \A d \in Clients : (UnderWay(client[d]) /\ Recent(client[d]))'
<1>1. client \in [Clients -> Call]
  BY DEF TypeOK
<1> SUFFICES ASSUME NEW d \in Clients
             PROVE  (UnderWay(client[d]) /\ Recent(client[d]))'
  OBVIOUS
<1>2. CASE d # c
  <2>1. client'[d] = client[d]
    BY <1>1, <1>2 DEF ReturnsBatch
  <2> QED
    BY <2>1 DEF RecentInv, UnderWay, Recent
<1>3. CASE d = c /\ Parses(document)
  <2>1. client'[c] = [Idle EXCEPT !.state = "OK", !.hit = hit, !.document = document,
                                  !.fetched_at = clock]
    BY <1>1, <1>3 DEF ReturnsBatch
  <2>2. /\ client'[c].pc = "idle" /\ client'[c].document = document
        /\ client'[c].fetched_at = clock /\ client'[c].hit = hit
    BY <2>1 DEF Idle
  <2> QED
    BY <1>3, <2>2 DEF UnderWay, Recent, Parses
<1>4. CASE d = c /\ ~Parses(document)
  <2>1. client'[c].pc = "idle" /\ client'[c].state = "DEGRADED"
    BY <1>1, <1>4 DEF ReturnsBatch, Idle
  <2> QED
    BY <1>4, <2>1 DEF UnderWay, Recent
<1> QED
  BY <1>2, <1>3, <1>4

\* A call that returned no batch.
LEMMA FailureIsRecent ==
    ASSUME TypeOK, RecentInv, NEW c \in Clients,
           NEW state \in {"NONE", "DEGRADED", "DOWN"}, ReturnsFailure(c, state),
           UNCHANGED clock
    PROVE  \A d \in Clients : (UnderWay(client[d]) /\ Recent(client[d]))'
<1>1. /\ \A d \in Clients \ {c} : client'[d] = client[d]
      /\ client'[c].pc = "idle" /\ client'[c].state # "OK"
  BY DEF ReturnsFailure, TypeOK, Idle
<1> QED
  BY <1>1 DEF RecentInv, UnderWay, Recent

\* Every step keeps documents under way, in the cache and in batches recent.
LEMMA RecentStep ==
    ASSUME TypeOK, RecentInv, [Next]_vars
    PROVE  RecentInv'
<1>0. /\ clock \in Int /\ Ttl \in Nat /\ LoadTimeout \in Nat
      /\ client \in [Clients -> Call] /\ items \in [Keys -> Entry \cup {None}]
  BY CacheAssumption DEF TypeOK
<1>1. CASE UNCHANGED vars
  BY <1>1 DEF vars, RecentInv, UnderWay, Recent, Cached
<1>2. CASE Clear
  BY <1>2 DEF Clear, RecentInv, UnderWay, Recent, Cached
<1>3. CASE Tick
  <2>1. clock' = clock + 1 /\ UNCHANGED <<client, items>>
    BY <1>3 DEF Tick
  <2>2. ASSUME NEW c \in Clients PROVE UnderWay(client[c])'
    <3> SUFFICES ASSUME client[c].pc = "sent"
                 PROVE  /\ client[c].key \in Keys
                        /\ client[c].sent_at <= clock + 1
                        /\ clock + 1 <= client[c].sent_at + LoadTimeout
                        /\ client[c].body # None => /\ client[c].sent_at <= client[c].body.at
                                                    /\ client[c].body.at <= clock + 1
      BY <2>1 DEF UnderWay
    <3>1. /\ client[c].sent_at \in Int /\ clock - client[c].sent_at < LoadTimeout
          /\ client[c].body # None => client[c].body.at \in Int
      BY <1>0, <1>3 DEF Tick, Call, Data
    <3> QED
      BY <1>0, <3>1 DEF RecentInv, UnderWay
  <2> QED
    BY <2>1, <2>2 DEF RecentInv, Recent, Cached
<1>4. ASSUME NEW c \in Clients, NEW k \in Keys, ServeHit(c, k)
      PROVE  RecentInv'
  <2> DEFINE e == items[k]
  <2>1. /\ e \in Entry /\ e.value \in Data /\ e.value # None /\ e.expires_at > clock
        /\ ReturnsBatch(c, e.value, TRUE) /\ UNCHANGED <<clock, items>>
    BY <1>0, <1>4 DEF ServeHit, Hit, Live, Entry
  <2>2. e # None /\ e.expires_at \in Int /\ e.value.at \in Int
    BY <1>4, <2>1 DEF ServeHit, Hit, Live, Entry, Data
  <2>3. (e.expires_at - Ttl) - e.value.at <= LoadTimeout
    BY <2>1, <2>2 DEF RecentInv, Cached
  <2>4. clock - e.value.at < LoadTimeout + (IF TRUE THEN Ttl ELSE 1)
    BY <1>0, <2>1, <2>2, <2>3
  <2>5. \A d \in Clients : (UnderWay(client[d]) /\ Recent(client[d]))'
    BY <2>1, <2>4, ReturnIsRecent
  <2> QED
    BY <2>1, <2>5 DEF RecentInv, Cached
<1>5. ASSUME NEW k \in Keys, items' = AfterGet(k)
      PROVE  \A q \in Keys : Cached(items[q])'
  BY <1>0, <1>5 DEF AfterGet, RecentInv, Cached
<1>6. ASSUME NEW c \in Clients, NEW k \in Keys, RefuseBudget(c, k)
      PROVE  RecentInv'
  <2>1. ReturnsFailure(c, "DEGRADED") /\ UNCHANGED clock /\ items' = AfterGet(k)
    BY <1>6 DEF RefuseBudget
  <2>2. \A d \in Clients : (UnderWay(client[d]) /\ Recent(client[d]))'
    BY <2>1, FailureIsRecent
  <2> QED
    BY <1>5, <2>1, <2>2 DEF RecentInv
<1>7. ASSUME NEW c \in Clients, NEW k \in Keys, Send(c, k)
      PROVE  RecentInv'
  <2>1. /\ \A d \in Clients \ {c} : client'[d] = client[d]
        /\ client'[c] = [Idle EXCEPT !.pc = "sent", !.key = k, !.sent_at = clock]
        /\ UNCHANGED clock /\ items' = AfterGet(k)
    BY <1>0, <1>7 DEF Send
  <2>2. /\ client'[c].key = k /\ client'[c].sent_at = clock /\ client'[c].body = None
        /\ client'[c].state = "NONE"
    BY <2>1 DEF Idle
  <2>3. (UnderWay(client[c]) /\ Recent(client[c]))'
    BY <1>0, <2>1, <2>2 DEF UnderWay, Recent
  <2>4. ASSUME NEW d \in Clients \ {c} PROVE (UnderWay(client[d]) /\ Recent(client[d]))'
    BY <2>1 DEF RecentInv, UnderWay, Recent
  <2> QED
    BY <1>5, <2>1, <2>3, <2>4 DEF RecentInv
<1>8. ASSUME NEW c \in Clients, NEW sound \in BOOLEAN, ServiceReads(c, sound)
      PROVE  RecentInv'
  <2>1. /\ \A d \in Clients \ {c} : client'[d] = client[d]
        /\ client'[c].pc = client[c].pc /\ client'[c].key = client[c].key
        /\ client'[c].sent_at = client[c].sent_at /\ client'[c].body.at = clock
        /\ client'[c].state = client[c].state
        /\ client'[c].document = client[c].document
        /\ client'[c].fetched_at = client[c].fetched_at /\ client'[c].hit = client[c].hit
        /\ UNCHANGED <<clock, items>>
    BY <1>0, <1>8 DEF ServiceReads, Call
  <2>2. UnderWay(client[c]) /\ Recent(client[c])
    BY DEF RecentInv
  <2>3. UnderWay(client[c])'
    BY <1>0, <2>1, <2>2 DEF UnderWay
  <2>4. Recent(client[c])'
    BY <2>1, <2>2 DEF Recent
  <2>5. ASSUME NEW d \in Clients \ {c} PROVE (UnderWay(client[d]) /\ Recent(client[d]))'
    BY <2>1 DEF RecentInv, UnderWay, Recent
  <2> QED
    BY <2>1, <2>3, <2>4, <2>5 DEF RecentInv, Cached
<1>9. ASSUME NEW c \in Clients, Answer(c)
      PROVE  RecentInv'
  <2> DEFINE body == client[c].body
  <2>1. /\ client[c].pc = "sent" /\ client[c].key \in Keys /\ body \in Data
        /\ client[c].sent_at \in Int /\ (body # None => body.at \in Int)
        /\ ReturnsBatch(c, body, FALSE) /\ UNCHANGED clock
        /\ items' = [items EXCEPT ![client[c].key] = NewEntry(body)]
    BY <1>0, <1>9 DEF Answer, Call, Data, RecentInv, UnderWay
  <2>2. body # None => clock - body.at <= LoadTimeout
    BY <1>0, <2>1 DEF RecentInv, UnderWay
  <2>3. body # None => clock - body.at < LoadTimeout + (IF FALSE THEN Ttl ELSE 1)
    BY <1>0, <2>1, <2>2
  <2>4. \A d \in Clients : (UnderWay(client[d]) /\ Recent(client[d]))'
    BY <2>1, <2>3, ReturnIsRecent
  <2>5. ASSUME NEW k \in Keys PROVE Cached(items[k])'
    <3>1. CASE k = client[c].key
      <4>1. items'[k].value = body /\ items'[k].expires_at = clock + Ttl
        BY <1>0, <2>1, <3>1 DEF NewEntry
      <4> QED
        BY <1>0, <2>1, <2>2, <4>1 DEF Cached
    <3>2. CASE k # client[c].key
      <4>1. items'[k] = items[k]
        BY <1>0, <2>1, <3>2
      <4> QED
        BY <4>1 DEF RecentInv, Cached
    <3> QED
      BY <3>1, <3>2
  <2> QED
    BY <2>4, <2>5 DEF RecentInv
<1>10. ASSUME NEW c \in Clients, NEW state \in {"NONE", "DEGRADED", "DOWN"},
              Abort(c, state)
       PROVE  RecentInv'
  <2>1. ReturnsFailure(c, state) /\ UNCHANGED <<clock, items>>
    BY <1>10 DEF Abort
  <2>2. \A d \in Clients : (UnderWay(client[d]) /\ Recent(client[d]))'
    BY <2>1, FailureIsRecent
  <2> QED
    BY <2>1, <2>2 DEF RecentInv, Cached
<1> QED
  BY <1>1, <1>2, <1>3, <1>4, <1>6, <1>7, <1>8, <1>9, <1>10 DEF Next

\* A batch is never older than the TTL and a request together, for every TTL and
\* timeout, and never has a malformed record.
THEOREM RecentCorrect == Spec => []BatchIsRecent
<1>1. Init => RecentInv
  BY DEF Init, Idle, RecentInv, UnderWay, Recent, Cached
<1>2. RecentInv => BatchIsRecent
  BY DEF RecentInv, Recent, BatchIsRecent
<1> QED
  BY <1>1, <1>2, RecentStep, CacheTypeCorrect, PTL DEF Spec
=============================================================================
