----------------------------- MODULE SourceCache -----------------------------
(***************************************************************************)
(* The cached, budgeted requests of the discovery adapters:                *)
(* AsyncTtlCache and SlidingWindowBudget (app/adapters/source_cache.py) as *)
(* DiscoveryAdapterBase.request_json uses them.                            *)
(*                                                                         *)
(* Clients are coroutines inside one adapter (load and health calls).  The *)
(* two locks are never held across an await, so get, acquire and sending   *)
(* the request are one step of the event loop; the HTTP call suspends, and *)
(* other clients run before its answer is written to the cache.  The clock *)
(* is time.monotonic.  A document is the time at which the remote service  *)
(* produced it and whether the parsers of CoinGecko or DEX Screener accept *)
(* every record of it; it is parsed anew wherever it comes from.           *)
(***************************************************************************)
EXTENDS Integers, Sequences, FiniteSets

CONSTANTS
    Clients, Keys,
    Ttl,          \* ttl_seconds
    MaxRequests,  \* max_requests
    Window,       \* window_seconds
    LoadTimeout,  \* the wait_for around the load that cancels a slow request
    None,         \* Python's None; also the JSON document null
    MaxTime       \* bound: the last value of the clock

ASSUME CacheAssumption ==
    /\ Ttl \in Nat \ {0} /\ MaxRequests \in Nat \ {0} /\ Window \in Nat \ {0}
    /\ LoadTimeout \in Nat /\ MaxTime \in Nat
    /\ None \notin Int

VARIABLES
    clock,
    items,     \* _items: key -> CacheEntry, or None without one
    requests,  \* _requests: the deque of the budget
    client,    \* client -> its request_json call
    grants     \* history: the times of all requests that were sent

vars == <<clock, items, requests, client, grants>>

Data == [at : Int, sound : BOOLEAN] \cup {None}

Entry == [value : Data, expires_at : Int]

\* pc: idle, or sent (awaiting the HTTP answer).  body: what the service has
\* answered so far.  The rest is the last payload: its health, the batch's
\* document, cache_hit and fetched_at.
Call == [pc : {"idle", "sent"}, key : Keys \cup {None}, sent_at : Int, body : Data,
         state : {"NONE", "OK", "DEGRADED", "DOWN"}, hit : BOOLEAN,
         document : Data, fetched_at : Int]

Idle == [pc |-> "idle", key |-> None, sent_at |-> 0, body |-> None,
         state |-> "NONE", hit |-> FALSE, document |-> None, fetched_at |-> 0]

TypeOK ==
    /\ clock \in Int
    /\ items \in [Keys -> Entry \cup {None}]
    /\ requests \in Seq(Int)
    /\ client \in [Clients -> Call]
    /\ grants \in Seq(Int)
----------------------------------------------------------------------------
(* Helpers *)

\* Mutant: an entry is still good at the very time it expires.
LiveInclusive(k) == items[k] # None /\ items[k].expires_at >= clock

\* AsyncTtlCache.get finds an entry that has not expired.
Live(k) == items[k] # None /\ items[k].expires_at > clock

\* A hit, as request_json sees it: a cached null is a miss.
Hit(k) == Live(k) /\ items[k].value # None

\* The cache after get: an expired entry is dropped.
AfterGet(k) == IF Live(k) THEN items ELSE [items EXCEPT ![k] = None]

\* How many entries the popleft loop of acquire drops: the old ones at the head.
Dropped ==
    CHOOSE n \in 0..Len(requests) :
        /\ \A i \in 1..n : requests[i] <= clock - Window
        /\ n < Len(requests) => requests[n + 1] > clock - Window

\* The deque after that loop.
Pruned == SubSeq(requests, Dropped + 1, Len(requests))

\* Mutant: one request too many.
WithinBudgetInclusive == Len(Pruned) <= MaxRequests

WithinBudget == Len(Pruned) < MaxRequests

\* fetch_batch: one malformed record fails the whole batch, null is no list.
Parses(document) == document # None /\ document.sound

\* load, where request_json returned a document.  The batch is dated now, also
\* where the document comes from the cache.
ReturnsBatch(c, document, hit) ==
    client' = [client EXCEPT ![c] =
                  IF Parses(document)
                  THEN [Idle EXCEPT !.state = "OK", !.hit = hit, !.document = document,
                                    !.fetched_at = clock]
                  ELSE [Idle EXCEPT !.state = "DEGRADED"]]

\* load, where request_json raised: no records.
ReturnsFailure(c, state) == client' = [client EXCEPT ![c] = [Idle EXCEPT !.state = state]]
----------------------------------------------------------------------------
(* Actions *)

Init ==
    /\ clock = 0
    /\ items = [k \in Keys |-> None]
    /\ requests = <<>>
    /\ client = [c \in Clients |-> Idle]
    /\ grants = <<>>

\* Time passes; a request that has reached its timeout is cancelled first.
Tick ==
    /\ clock < MaxTime
    /\ \A c \in Clients : client[c].pc = "sent" => clock - client[c].sent_at < LoadTimeout
    /\ clock' = clock + 1
    /\ UNCHANGED <<items, requests, client, grants>>

\* request_json, served by the cache.
ServeHit(c, k) ==
    /\ client[c].pc = "idle"
    /\ Hit(k)
    /\ ReturnsBatch(c, items[k].value, TRUE)
    /\ UNCHANGED <<clock, items, requests, grants>>

\* request_json after a miss: the budget refuses.
RefuseBudget(c, k) ==
    /\ client[c].pc = "idle"
    /\ ~Hit(k) /\ ~WithinBudget
    /\ items' = AfterGet(k)
    /\ requests' = Pruned
    /\ ReturnsFailure(c, "DEGRADED")
    /\ UNCHANGED <<clock, grants>>

\* request_json after a miss: the request is sent.
Send(c, k) ==
    /\ client[c].pc = "idle"
    /\ ~Hit(k) /\ WithinBudget
    /\ items' = AfterGet(k)
    /\ requests' = Append(Pruned, clock)
    /\ grants' = Append(grants, clock)
    /\ client' = [client EXCEPT ![c] = [Idle EXCEPT !.pc = "sent", !.key = k,
                                                    !.sent_at = clock]]
    /\ UNCHANGED clock

\* The remote service works on the request.
ServiceReads(c, sound) ==
    /\ client[c].pc = "sent" /\ client[c].body = None
    /\ client' = [client EXCEPT ![c].body = [at |-> clock, sound |-> sound]]
    /\ UNCHANGED <<clock, items, requests, grants>>

NewEntry(value) == [value |-> value, expires_at |-> clock + Ttl]

\* The answer arrives: cache.set before anyone has parsed it, and request_json
\* returns it.  A null answer is one the service never filled in.
Answer(c) ==
    /\ client[c].pc = "sent"
    /\ items' = [items EXCEPT ![client[c].key] = NewEntry(client[c].body)]
    /\ ReturnsBatch(c, client[c].body, FALSE)
    /\ UNCHANGED <<clock, requests, grants>>

\* The client raises (DEGRADED for a body that is no JSON, else DOWN), or
\* wait_for cancels the load, which returns nothing: nothing is cached, the
\* budget stays spent.
Abort(c, state) ==
    /\ client[c].pc = "sent"
    /\ ReturnsFailure(c, state)
    /\ UNCHANGED <<clock, items, requests, grants>>

\* AsyncTtlCache.clear
Clear ==
    /\ items' = [k \in Keys |-> None]
    /\ UNCHANGED <<clock, requests, client, grants>>

Next ==
    \/ Tick
    \/ Clear
    \/ \E c \in Clients :
         \/ \E k \in Keys : ServeHit(c, k) \/ RefuseBudget(c, k) \/ Send(c, k)
         \/ \E sound \in BOOLEAN : ServiceReads(c, sound)
         \/ Answer(c)
         \/ \E state \in {"NONE", "DEGRADED", "DOWN"} : Abort(c, state)

Spec == Init /\ [][Next]_vars
----------------------------------------------------------------------------
(* Properties *)

\* The source is asked at most MaxRequests times in any window of Window
\* seconds, though concurrent misses of one key each send a request and
\* cancelled requests leave nothing in the cache.
BudgetHolds ==
    \A i \in DOMAIN grants :
        Cardinality({j \in DOMAIN grants : /\ grants[i] - Window < grants[j]
                                           /\ grants[j] <= grants[i]}) <= MaxRequests

\* A batch is dated when it is served, so that its document is older than
\* fetched_at says: by less than a request if it was fetched, by less than the TTL
\* and a request together if it was cached, though a slow answer may overwrite a
\* newer one.  And it has no malformed record, whatever is in the cache.
BatchIsRecent ==
    \A c \in Clients :
        client[c].state = "OK" =>
            /\ client[c].document.sound
            /\ client[c].fetched_at - client[c].document.at
                 < LoadTimeout + (IF client[c].hit THEN Ttl ELSE 1)
==============================================================================
