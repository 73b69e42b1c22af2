------------------------------ MODULE Lifecycle ------------------------------
(***************************************************************************)
(* The lifecycle of a plan: app/lifecycle/service.py over the immutable    *)
(* LifecycleRecord of app/lifecycle/models.py.  The variable is the record *)
(* its owner holds; the callers of the service pass any time they like, so *)
(* that out-of-order and late calls are covered.  A call that raises leaves*)
(* the owner with the record it had.                                       *)
(***************************************************************************)
EXTENDS Integers

CONSTANTS
    None,    \* no record yet; no closed_at
    Times,   \* the times callers pass as now
    Ttls     \* the ttl_minutes of create_lifecycle

States == {"PENDING", "ACTIVE", "EXPIRED", "CLOSED"}

Record == [state : States, created_at : Int, updated_at : Int, expires_at : Int,
           closed_at : Int \cup {None}]

ASSUME LifecycleAssumption ==
    /\ Times \subseteq Int
    /\ Ttls \subseteq Nat \ {0}
    /\ None \notin Int
    /\ None \notin Record

VARIABLE record

Exists == record # None

TypeOK == Exists => record \in Record

\* is_terminal
IsTerminal == record.state \in {"EXPIRED", "CLOSED"}

\* _require_forward_time lets the call through.
Forward(now) == Exists /\ record.updated_at <= now
----------------------------------------------------------------------------
Init == record = None

\* What create_lifecycle returns: a READY plan starts ACTIVE, a held one PENDING.
NewRecord(ready, now, ttl) ==
    [state |-> IF ready THEN "ACTIVE" ELSE "PENDING",
     created_at |-> now, updated_at |-> now, expires_at |-> now + ttl,
     closed_at |-> None]

\* create_lifecycle
Create(ready, now, ttl) == ~Exists /\ record' = NewRecord(ready, now, ttl)

\* The replace(...) of advance_lifecycle past the window.
Expire(now) == record' = [record EXCEPT !.state = "EXPIRED", !.updated_at = now]

\* Mutant: terminal records are not looked for.
AdvanceTerminalToo(now) ==
    /\ Forward(now) /\ now >= record.expires_at
    /\ Expire(now)

\* advance_lifecycle; before expires_at, and on a terminal record, it returns
\* the record it was given.
Advance(now) ==
    /\ Forward(now) /\ ~IsTerminal /\ now >= record.expires_at
    /\ Expire(now)

\* Mutant: a pending record is activated however late.
ActivateLate(now) ==
    /\ Forward(now) /\ ~IsTerminal /\ record.state # "ACTIVE"
    /\ record' = [record EXCEPT !.state = "ACTIVE", !.updated_at = now]

\* activate_lifecycle; too late, the record expires instead.
Activate(now) ==
    /\ Forward(now) /\ ~IsTerminal /\ record.state # "ACTIVE"
    /\ IF now >= record.expires_at
       THEN Expire(now)
       ELSE record' = [record EXCEPT !.state = "ACTIVE", !.updated_at = now]

\* close_lifecycle, inside the window or after it.
Close(now) ==
    /\ Forward(now) /\ ~IsTerminal
    /\ record' = [record EXCEPT !.state = "CLOSED", !.updated_at = now,
                                !.closed_at = now]

Next ==
    \E now \in Times :
        \/ \E ready \in BOOLEAN, ttl \in Ttls : Create(ready, now, ttl)
        \/ Advance(now)
        \/ Activate(now)
        \/ Close(now)

Spec == Init /\ [][Next]_record
----------------------------------------------------------------------------
(* Properties *)

\* A record is dated by its transitions: it is ACTIVE or PENDING only as of a
\* time inside its window, EXPIRED as of one past it, and closed_at is the
\* time of the transition that closed it and nothing else.
DatedByWindow ==
    Exists =>
        /\ record.created_at <= record.updated_at
        /\ record.created_at < record.expires_at
        /\ record.state \in {"PENDING", "ACTIVE"} => record.updated_at < record.expires_at
        /\ record.state = "EXPIRED" => record.expires_at <= record.updated_at
        /\ record.state = "CLOSED" => record.closed_at = record.updated_at
        /\ record.state # "CLOSED" => record.closed_at = None

\* EXPIRED and CLOSED records do not transition again, the window never moves,
\* and no sequence of calls takes a record back in time or back to PENDING.
OnlyForward ==
    [][Exists => /\ Exists'
                 /\ ~IsTerminal
                 /\ record'.updated_at >= record.updated_at
                 /\ record'.expires_at = record.expires_at
                 /\ record'.created_at = record.created_at
                 /\ record'.state # "PENDING"]_record
==============================================================================
