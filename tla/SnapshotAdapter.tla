--------------------------- MODULE SnapshotAdapter ---------------------------
(***************************************************************************)
(* One exchange adapter and the loads the worker makes of it:              *)
(* app/adapters/lbank.py, the four benchmark adapters on benchmark_base.py,*)
(* their parsers, and http_client.py.                                      *)
(*                                                                         *)
(* fetch_snapshot sends all its requests at once and waits for them in a   *)
(* gather.  The venue produces each answer at a moment of its own.  The    *)
(* first request that raises ends the gather, the others go on unwatched;  *)
(* a load that takes too long is cancelled with its requests.              *)
(*                                                                         *)
(* An answer is what its parser sees: Bad for anything it rejects (another *)
(* symbol, a contract that is not a trading USDT perpetual, a number that  *)
(* is not one), the contract size, or the two sides of the book.  The wall *)
(* clock and perf_counter advance together.                                *)
(***************************************************************************)
EXTENDS CrossExchange, SequencesExt

CONSTANTS
    Venues,       \* the adapters looked at: "LBANK" and benchmark sources
    Books,        \* order books as they are sent: bids and asks in any order
    Multiples,    \* contract sizes
    MaxLatency,   \* max_latency_ms of both rule sets
    MaxSpread,    \* max_spread_bps
    MinDepth,     \* min_bid_depth_quote, min_ask_depth_quote
    Interval,     \* the distance the worker keeps between two loads
    LoadTimeout,  \* the wait_for around the load
    HttpTimeout,  \* httpx.Timeout: of every single wait of a request
    None, Bad,
    MaxPieces,    \* bound: the pieces in which the answer to an unwatched request
                  \* still comes; httpx does not limit the whole of a request
    MaxTime       \* bound: the last value of the clock

Levels == [price : Nat \ {0}, volume : Nat \ {0}]

\* A snapshot; started and oldest are history, the beginning of its load and
\* the time of its oldest answer.
Snapshots ==
    [received_at : Nat, latency : Nat, source_timestamp : Nat \cup {NoTimestamp},
     book : Books, best_bid : Nat, best_ask : Nat, bid_depth : Nat, ask_depth : Nat,
     started : Nat, oldest : Nat]

ASSUME AdapterAssumption ==
    /\ Venues \subseteq Sources \cup {"LBANK"}
    /\ Multiples \subseteq Nat \ {0}
    /\ {MaxLatency, MaxSpread, Interval, LoadTimeout, HttpTimeout} \subseteq Nat \ {0}
    /\ MinDepth \in Nat /\ MaxPieces \in Nat /\ MaxTime \in Nat
    /\ None \notin Nat

ASSUME NoneAssumption == None \notin Snapshots

\* The parsers reject an empty side of a book and a price or a volume that is
\* not positive.
ASSUME BooksAssumption ==
    \A b \in Books : /\ b.bids \in Seq(Levels) /\ b.bids # <<>>
                     /\ b.asks \in Seq(Levels) /\ b.asks # <<>>

VARIABLES
    venue,      \* the adapter, chosen once
    clock,
    load,       \* the running fetch_snapshot, or None
    last_load,  \* when the last one was started, or None
    orphans,    \* the requests, <<start, part>>, that go on after their load ended
    wait,       \* since when each of them waits, after how many pieces
    payload     \* what load returned last, or None

vars == <<venue, clock, load, last_load, orphans, wait, payload>>

\* The five versions of fetch_snapshot: the requests it sends, the answers that
\* source_timestamp is taken from (the first that carries one), and whether the
\* volumes of the book are multiplied by a contract size.
LBank   == [parts |-> {"contract", "ticker", "book"}, stamp |-> <<>>, sized |-> TRUE]
Binance == [parts |-> {"contract", "ticker", "premium", "interest", "book"},
            stamp |-> <<"premium">>, sized |-> FALSE]
Bybit   == [parts |-> {"contract", "ticker", "book"}, stamp |-> <<"book">>, sized |-> FALSE]
Mexc    == [parts |-> {"contract", "ticker", "book"}, stamp |-> <<"ticker", "book">>,
            sized |-> TRUE]
Gate    == [parts |-> {"contract", "ticker", "book"}, stamp |-> <<"book">>, sized |-> TRUE]

Adapter ==
    CASE venue = "LBANK"   -> LBank
      [] venue = "BINANCE" -> Binance
      [] venue = "BYBIT"   -> Bybit
      [] venue = "MEXC"    -> Mexc
      [] venue = "GATE"    -> Gate

Parts == Adapter.parts
----------------------------------------------------------------------------
(* Parsing *)

\* What a request can be answered with: made by the venue between the request
\* and now, with a time of the venue where one is read.
Contents(p) ==
    {Bad} \cup CASE p = "book" -> Books
                 [] p = "contract" /\ Adapter.sized -> Multiples
                 [] OTHER -> {1}

Answers(p) ==
    [at : load.started..clock, data : Contents(p),
     stamped : IF p \in ToSet(Adapter.stamp) THEN BOOLEAN ELSE {FALSE}]

\* levels.sort by key, a number for every position; levels of one price may
\* come in any order.
SortedBy(levels, key) ==
    LET order == CHOOSE p \in Bijection(DOMAIN levels, DOMAIN levels) :
                   \A i, k \in DOMAIN levels : i < k => key[p[i]] <= key[p[k]]
    IN [i \in DOMAIN levels |-> levels[order[i]]]

\* _book_levels, parse_sequence_book and parse_object_book sort by the price.
Bids(b) == SortedBy(b.bids, [i \in DOMAIN b.bids |-> -b.bids[i].price])
Asks(b) == SortedBy(b.asks, [i \in DOMAIN b.asks |-> b.asks[i].price])

\* Mutant: the first level is the best one.
BestBidAsSent(b) == b.bids[1].price

BestBid(b) == Bids(b)[1].price
BestAsk(b) == Asks(b)[1].price

Depth(levels, multiple) ==
    FoldLeft(LAMBDA sum, x : sum + x.price * x.volume * multiple, 0, levels)

\* Every parser accepts its answer, and the book is neither crossed nor locked.
Parses(answers) ==
    /\ \A p \in Parts : answers[p].data # Bad
    /\ BestBid(answers["book"].data) < BestAsk(answers["book"].data)

SourceTimestamp(answers) ==
    LET stamped == {i \in DOMAIN Adapter.stamp : answers[Adapter.stamp[i]].stamped}
    IN IF stamped = {} THEN NoTimestamp ELSE answers[Adapter.stamp[Min(stamped)]].at

\* Mutant: perf_counter is read after the gather.
LatencyOfParsing(started) == 0

Latency(started) == clock - started

\* What the adapter makes of its answers.
Snapshot(answers) ==
    LET book == answers["book"].data
        multiple == answers["contract"].data
    IN [received_at |-> clock, latency |-> Latency(load.started),
        source_timestamp |-> SourceTimestamp(answers), book |-> book,
        best_bid |-> BestBid(book), best_ask |-> BestAsk(book),
        bid_depth |-> Depth(Bids(book), multiple), ask_depth |-> Depth(Asks(book), multiple),
        started |-> load.started, oldest |-> Min({answers[p].at : p \in Parts})]

\* AdapterPayload: a snapshot, or the state that the exception is given.
Loaded(s) == [state |-> "OK", snapshot |-> s]
Failed(state) == [state |-> state, snapshot |-> None]
----------------------------------------------------------------------------
(* What the gates make of a snapshot *)

ToLBank(s) ==
    LET twice_mid == s.best_bid + s.best_ask
    IN [symbol |-> venue, received_at |-> s.received_at, slow |-> s.latency > MaxLatency,
        wide |-> 20000 * (s.best_ask - s.best_bid) > MaxSpread * twice_mid,
        thin_bid |-> s.bid_depth < MinDepth, thin_ask |-> s.ask_depth < MinDepth,
        mid |-> twice_mid \div 2]

ToBenchmark(s) ==
    [source |-> venue, symbol |-> venue, received_at |-> s.received_at,
     source_timestamp |-> s.source_timestamp, slow |-> s.latency > MaxLatency, price |-> 1]

Accepted(s, now) ==
    IF venue = "LBANK" THEN ValidateLBank(ToLBank(s), now) = "OK"
    ELSE BenchmarkHealth(ToBenchmark(s), now) = "OK"
----------------------------------------------------------------------------
(* Actions *)

Init ==
    /\ venue \in Venues
    /\ clock = 0
    /\ load = None /\ last_load = None
    /\ orphans = {} /\ wait = <<>>
    /\ payload = None

\* Time passes, though not past a timeout: neither the load nor a wait of an
\* unwatched request lasts longer than its own.
Tick ==
    /\ clock < MaxTime
    /\ load # None => clock - load.started < LoadTimeout
    /\ \A r \in orphans : clock - wait[r].since < HttpTimeout
    /\ clock' = clock + 1
    /\ UNCHANGED <<venue, load, last_load, orphans, wait, payload>>

\* Mutant: the next load does not wait for the interval.
StartUnspaced ==
    /\ load = None
    /\ last_load # None => clock > last_load
    /\ load' = [started |-> clock, answers |-> [p \in Parts |-> None]]
    /\ last_load' = clock
    /\ UNCHANGED <<venue, clock, orphans, wait, payload>>

\* load calls fetch_snapshot, which sends its requests.
Start ==
    /\ load = None
    /\ last_load # None => clock >= last_load + Interval
    /\ load' = [started |-> clock, answers |-> [p \in Parts |-> None]]
    /\ last_load' = clock
    /\ UNCHANGED <<venue, clock, orphans, wait, payload>>

Waiting == {p \in Parts : load.answers[p] = None}

\* An answer arrives, others are still out.
Receive(p) ==
    /\ load # None
    /\ p \in Waiting /\ Waiting # {p}
    /\ \E a \in Answers(p) : load' = [load EXCEPT !.answers[p] = a]
    /\ UNCHANGED <<venue, clock, last_load, orphans, wait, payload>>

\* The last answer arrives: the gather returns, the answers are parsed, and
\* load returns the snapshot or, a ParserError being a ValueError, DEGRADED.
Complete(p) ==
    /\ load # None
    /\ Waiting = {p}
    /\ \E a \in Answers(p) :
         LET answers == [load.answers EXCEPT ![p] = a]
         IN payload' = IF Parses(answers) THEN Loaded(Snapshot(answers)) ELSE Failed("DEGRADED")
    /\ load' = None
    /\ UNCHANGED <<venue, clock, last_load, orphans, wait>>

\* A request raises: DOWN for the transport and for an HTTP status, DEGRADED
\* for a body that is no JSON.  The gather raises and leaves the others alone.
RequestRaises(p, state) ==
    /\ load # None
    /\ p \in Waiting
    /\ payload' = Failed(state)
    /\ orphans' = orphans \cup {<<load.started, q>> : q \in Waiting \ {p}}
    /\ wait' = [r \in orphans' |-> IF r \in orphans THEN wait[r]
                                   ELSE [since |-> clock, pieces |-> 0]]
    /\ load' = None
    /\ UNCHANGED <<venue, clock, last_load>>

\* A piece of the answer to an unwatched request arrives: the timeout of the
\* next wait begins anew.
OrphanProgress(r) ==
    /\ wait[r].pieces < MaxPieces
    /\ wait' = [wait EXCEPT ![r] = [since |-> clock, pieces |-> wait[r].pieces + 1]]
    /\ UNCHANGED <<venue, clock, load, last_load, orphans, payload>>

\* An unwatched request ends, answered or not; nobody reads it.
OrphanEnds(r) ==
    /\ orphans' = orphans \ {r}
    /\ wait' = [q \in orphans' |-> wait[q]]
    /\ UNCHANGED <<venue, clock, load, last_load, payload>>

\* wait_for cancels the load; the gather passes it on to every request, and
\* load, which catches no CancelledError, returns nothing.
Cancel ==
    /\ load # None
    /\ clock - load.started >= LoadTimeout
    /\ load' = None
    /\ UNCHANGED <<venue, clock, last_load, orphans, wait, payload>>

Next ==
    \/ Tick
    \/ Start
    \/ \E p \in Parts :
         \/ Receive(p)
         \/ Complete(p)
         \/ \E state \in {"DOWN", "DEGRADED"} : RequestRaises(p, state)
    \/ \E r \in orphans : OrphanProgress(r) \/ OrphanEnds(r)
    \/ Cancel

Spec == Init /\ [][Next]_vars
----------------------------------------------------------------------------
(* Properties *)

TypeOK ==
    /\ venue \in Venues /\ clock \in 0..MaxTime
    /\ load # None => load.started \in 0..clock /\ DOMAIN load.answers = Parts
    /\ last_load \in 0..clock \cup {None}
    /\ orphans \subseteq (0..clock) \X Parts
    /\ wait \in [orphans -> [since : 0..clock, pieces : 0..MaxPieces]]
    /\ payload # None => payload.state \in {"OK", "DEGRADED", "DOWN"}

\* A snapshot that the gates accept describes the market of at most the age
\* limit and the latency limit ago in every one of its parts, though it is
\* dated by its last answer and the first may have been made long before.
AcceptedIsRecent ==
    payload # None /\ payload.state = "OK" =>
        LET s == payload.snapshot
            limit == IF venue = "LBANK" THEN MaxLBankAge ELSE MaxReceiveAge
        IN Accepted(s, clock) => clock - s.oldest <= limit + MaxLatency

\* A snapshot is made of answers to the requests of its own load, none left
\* over from one that failed; its best prices are the extremes of the book in
\* whatever order it was sent, and it has a snapshot exactly if it is OK.
SnapshotIsItsAnswers ==
    payload # None =>
        /\ payload.state = "OK" <=> payload.snapshot # None
        /\ payload.state = "OK" =>
             LET s == payload.snapshot
             IN /\ s.started <= s.oldest /\ s.oldest <= s.received_at
                /\ s.best_bid = Max({s.book.bids[i].price : i \in DOMAIN s.book.bids})
                /\ s.best_ask = Min({s.book.asks[i].price : i \in DOMAIN s.book.asks})
                /\ s.best_bid < s.best_ask

\* How long a request goes on at most: in its load, and then for as many waits as
\* its answer has pieces left, and one more.
RequestLife == LoadTimeout + (MaxPieces + 1) * HttpTimeout

\* The requests that failed loads leave behind do not pile up as long as their
\* answers come in a limited number of pieces: no more than the loads that fit into
\* the life of such a request can have left, at most all but one of its requests by
\* each.  (Nothing limits a request whose answer dribbles in for ever.)
OrphansBounded ==
    Cardinality(orphans) <=
        (Cardinality(Parts) - 1) * (RequestLife \div Interval + 1)
==============================================================================
