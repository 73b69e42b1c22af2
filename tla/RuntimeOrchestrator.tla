------------------------ MODULE RuntimeOrchestrator ------------------------
(***************************************************************************)
(* The job scheduler of the worker: app/runtime/scheduler.py, with the     *)
(* transaction of app/runtime/store.py that records each run.              *)
(*                                                                         *)
(* Several coroutines (Callers) may be inside run_due at once.  A step is  *)
(* what the event loop runs between two awaits: the body of run_due under  *)
(* _state_lock never awaits, so claiming the due jobs is one step and the  *)
(* lock is never held across a step.  The wall clock (datetime.now) may    *)
(* step back; the timeout of wait_for and every failure of the adapter and *)
(* of the database are choices of the environment.                         *)
(***************************************************************************)
EXTENDS Integers, FiniteSets

CONSTANTS
    Jobs,          \* names of the scheduled jobs, unique (__init__)
    Callers,       \* coroutines that call run_due
    Interval,      \* Interval[j]: schedule.interval_seconds
    InitialDelay,  \* InitialDelay[j]: schedule.initial_delay_seconds
    Kind,          \* Kind[j]: the job's SourceJobKind
    None,          \* Python's None
    MaxTime        \* bound: the last value of the clock

Kinds == {"EXECUTION", "BENCHMARK", "STRUCTURE", "DISCOVERY"}

\* RuntimeSchedule.__post_init__: a positive interval, a delay that is not
\* negative.
ASSUME ScheduleAssumption ==
    /\ Interval \in [Jobs -> Nat \ {0}]
    /\ InitialDelay \in [Jobs -> Nat]
    /\ Kind \in [Jobs -> Kinds]
    /\ MaxTime \in Nat
    /\ None \notin Int

VARIABLES
    clock,        \* the wall clock
    next_run_at,  \* _next_run_at: job -> time or None
    in_flight,    \* _in_flight: the set of job names
    call,         \* caller -> [now, due]: the run_due it awaits, due = {}: none
    run,          \* caller -> job -> the _run_job coroutine it gathers
    rows,         \* committed domain_records
    runs,         \* history: how often each job was claimed
    claimed_at    \* history: the time of each job's last claim, or None

vars == <<clock, next_run_at, in_flight, call, run, rows, runs, claimed_at>>

AdapterStates == {"OK", "DEGRADED", "DOWN"}

Statuses ==
    {"SUCCEEDED", "DEGRADED", "FAILED", "TIMED_OUT", "PERSISTENCE_FAILED"}

\* RUNTIME_RECORD_TYPES without worker_metrics, which nothing writes, and
\* the structure snapshot, which retention leaves alone.
SnapshotTypes ==
    {"execution_snapshot", "benchmark_snapshot", "discovery_snapshot",
     "structure_snapshot"}

RecordTypes == SnapshotTypes \cup {"source_diagnostic", "source_health", "worker_run"}

\* Where a _run_job coroutine is suspended.
\*   claimed          gathered, not yet scheduled by the loop
\*   loading          awaiting wait_for(adapter.load())
\*   persist_payload  awaiting store.persist_payload
\*   persist_failure  awaiting store.persist_failure
\*   releasing        in the finally clause
\*   done             returned; its outcome waits for the gather
ActivePc == {"claimed", "loading", "persist_payload", "persist_failure", "releasing"}

Pc == ActivePc \cup {"none", "done"}

Run == [pc : Pc, id : Nat, status : Statuses \cup {"NONE"},
        adapter : AdapterStates \cup {"NONE"}, started : Int, finished : Int]

Idle == [pc |-> "none", id |-> 0, status |-> "NONE", adapter |-> "NONE",
         started |-> 0, finished |-> 0]

Claimed(n) == [pc |-> "claimed", id |-> n, status |-> "NONE", adapter |-> "NONE",
               started |-> 0, finished |-> 0]

Row == [type : RecordTypes, job : Jobs, run : Nat,
        state : Statuses \cup AdapterStates]

NoCall == [now |-> 0, due |-> {}]

TypeOK ==
    /\ clock \in Int
    /\ next_run_at \in [Jobs -> Int \cup {None}]
    /\ in_flight \in SUBSET Jobs
    /\ call \in [Callers -> [now : Int, due : SUBSET Jobs]]
    /\ run \in [Callers -> [Jobs -> Run]]
    /\ rows \in SUBSET Row
    /\ runs \in [Jobs -> Nat]
    /\ claimed_at \in [Jobs -> Int \cup {None}]

Active(c, j) == run[c][j].pc \in ActivePc

----------------------------------------------------------------------------
(* Helpers *)

\* The scheduled_at of run_due: the first call that sees a job schedules it
\* after its initial delay.
ScheduledAt(j, now) ==
    IF next_run_at[j] = None THEN now + InitialDelay[j] ELSE next_run_at[j]

\* Mutant: the in-flight set is not consulted.
DueJobsIgnoringInFlight(now) == {j \in Jobs : ScheduledAt(j, now) <= now}

DueJobs(now) == {j \in Jobs : ScheduledAt(j, now) <= now /\ j \notin in_flight}

\* Mutant: a run is followed by the delay of the first one.
NextRunAtByDelay(now) ==
    [j \in Jobs |-> IF j \in DueJobs(now) THEN now + InitialDelay[j]
                                          ELSE ScheduledAt(j, now)]

\* _next_run_at after the loop of run_due.
NextRunAt(now) ==
    [j \in Jobs |-> IF j \in DueJobs(now) THEN now + Interval[j]
                                          ELSE ScheduledAt(j, now)]

\* Mutant: the clock is read without the fallback.
ClockAlone(fallback) == clock

\* _clock_not_before
ClockNotBefore(fallback) == IF clock >= fallback THEN clock ELSE fallback

\* _safe_clock_not_before: the fallback too when reading the clock raises.
SafeClockNotBefore(fallback) == {ClockNotBefore(fallback), fallback}

\* Mutant: the adapter's state is taken for the status of the run.
StatusForPayloadVerbatim(adapter) == adapter

\* _status_for_payload
StatusForPayload(adapter) ==
    CASE adapter = "OK"       -> "SUCCEEDED"
      [] adapter = "DEGRADED" -> "DEGRADED"
      [] OTHER                -> "FAILED"

SnapshotType(kind) ==
    CASE kind = "EXECUTION" -> "execution_snapshot"
      [] kind = "BENCHMARK" -> "benchmark_snapshot"
      [] kind = "DISCOVERY" -> "discovery_snapshot"
      [] OTHER              -> "structure_snapshot"

\* _payload_record_type
PayloadRecordType(j, adapter) ==
    IF adapter = "OK" THEN SnapshotType(Kind[j]) ELSE "source_diagnostic"

NewRow(type, j, r, state) ==
    [type |-> type, job |-> j, run |-> r.id, state |-> state]

\* The records persist_failure commits.
FailureRows(j, r) ==
    {NewRow("source_health", j, r, "DOWN"),
     NewRow("worker_run", j, r, r.status)}

\* The records persist_payload commits.  The candles, zones, events and
\* reclaim attempts of a structure payload are in the same transaction:
\* see EvidenceStore.
PayloadRows(j, r) ==
    {NewRow(PayloadRecordType(j, r.adapter), j, r, r.adapter),
     NewRow("source_health", j, r, r.adapter),
     NewRow("worker_run", j, r, r.status)}

RowsOf(j, r) ==
    IF r.pc = "persist_payload" THEN PayloadRows(j, r) ELSE FailureRows(j, r)
----------------------------------------------------------------------------
(* Actions *)

Init ==
    /\ clock = 0
    /\ next_run_at = [j \in Jobs |-> None]
    /\ in_flight = {}
    /\ call = [c \in Callers |-> NoCall]
    /\ run = [c \in Callers |-> [j \in Jobs |-> Idle]]
    /\ rows = {}
    /\ runs = [j \in Jobs |-> 0]
    /\ claimed_at = [j \in Jobs |-> None]

\* Time passes, or the wall clock is set back.
Tick ==
    /\ clock < MaxTime
    /\ clock' = clock + 1
    /\ UNCHANGED <<next_run_at, in_flight, call, run, rows, runs, claimed_at>>

ClockStepsBack ==
    /\ clock > 0
    /\ clock' = clock - 1
    /\ UNCHANGED <<next_run_at, in_flight, call, run, rows, runs, claimed_at>>

\* run_due up to its gather: under the lock every job is looked at, the due
\* ones are claimed and rescheduled.  Nothing due: the call returns at once.
RunDue(c) ==
    LET now == clock
        due == DueJobs(now)
    IN /\ call[c].due = {}
       /\ next_run_at' = NextRunAt(now)
       /\ in_flight' = in_flight \cup due
       /\ runs' = [j \in Jobs |-> IF j \in due THEN runs[j] + 1 ELSE runs[j]]
       /\ claimed_at' = [j \in Jobs |-> IF j \in due THEN now ELSE claimed_at[j]]
       /\ call' = [call EXCEPT ![c] = IF due = {} THEN NoCall ELSE [now |-> now, due |-> due]]
       /\ run' = [run EXCEPT ![c] =
                    [j \in Jobs |-> IF j \in due THEN Claimed(runs[j] + 1) ELSE Idle]]
       /\ UNCHANGED <<clock, rows>>

\* A step of the coroutine that touches nothing but itself.
Advance(c, j, r) ==
    /\ run' = [run EXCEPT ![c][j] = r]
    /\ UNCHANGED <<clock, next_run_at, in_flight, call, rows, runs, claimed_at>>

\* _run_job up to the await of the load.
StartLoad(c, j) ==
    /\ run[c][j].pc = "claimed"
    /\ Advance(c, j, [run[c][j] EXCEPT !.pc = "loading",
                                       !.started = ClockNotBefore(call[c].now)])

\* The clock raises: the generic handler, with started_at = scheduled_now.
StartRaises(c, j) ==
    /\ run[c][j].pc = "claimed"
    /\ \E t \in SafeClockNotBefore(call[c].now) :
         Advance(c, j, [run[c][j] EXCEPT !.pc = "persist_failure", !.status = "FAILED",
                                         !.adapter = "DOWN", !.started = call[c].now,
                                         !.finished = t])

\* The adapter answers in time with a payload that _validate_payload accepts.
LoadReturns(c, j, adapter) ==
    /\ run[c][j].pc = "loading"
    /\ \E t \in SafeClockNotBefore(run[c][j].started) :
         Advance(c, j, [run[c][j] EXCEPT !.pc = "persist_payload",
                                         !.status = StatusForPayload(adapter),
                                         !.adapter = adapter, !.finished = t])

\* wait_for (or the adapter) raises TimeoutError: status = "TIMED_OUT"; the
\* load or _validate_payload raises anything else: status = "FAILED".
LoadFails(c, j, status) ==
    /\ run[c][j].pc = "loading"
    /\ \E t \in SafeClockNotBefore(run[c][j].started) :
         Advance(c, j, [run[c][j] EXCEPT !.pc = "persist_failure", !.status = status,
                                         !.adapter = "DOWN", !.finished = t])

\* Mutant: a failing persist_payload falls through to the handlers of
\* _run_job, which record the run once more.
StoreRaisesIntoHandler(c, j, committed) ==
    /\ run[c][j].pc = "persist_payload"
    /\ rows' = IF committed THEN rows \cup RowsOf(j, run[c][j]) ELSE rows
    /\ run' = [run EXCEPT ![c][j].pc = "persist_failure", ![c][j].status = "FAILED",
                          ![c][j].adapter = "DOWN"]
    /\ UNCHANGED <<clock, next_run_at, in_flight, call, runs, claimed_at>>

Storing(c, j) == run[c][j].pc \in {"persist_payload", "persist_failure"}

\* _persist_payload or _persist_failure, the store returns.
StoreCommits(c, j) ==
    /\ Storing(c, j)
    /\ rows' = rows \cup RowsOf(j, run[c][j])
    /\ run' = [run EXCEPT ![c][j].pc = "releasing"]
    /\ UNCHANGED <<clock, next_run_at, in_flight, call, runs, claimed_at>>

\* Mutant: the status of the run survives the failure of the store.
StoreRaisesKeepingStatus(c, j, committed) ==
    /\ Storing(c, j)
    /\ rows' = IF committed THEN rows \cup RowsOf(j, run[c][j]) ELSE rows
    /\ run' = [run EXCEPT ![c][j].pc = "releasing"]
    /\ UNCHANGED <<clock, next_run_at, in_flight, call, runs, claimed_at>>

\* The store raises.  The transaction is rolled back, unless the connection
\* failed after the database committed: then the rows are there all the same.
StoreRaises(c, j, committed) ==
    /\ Storing(c, j)
    /\ rows' = IF committed THEN rows \cup RowsOf(j, run[c][j]) ELSE rows
    /\ \E t \in SafeClockNotBefore(run[c][j].finished) :
         run' = [run EXCEPT ![c][j].pc = "releasing", ![c][j].finished = t,
                            ![c][j].status = "PERSISTENCE_FAILED"]
    /\ UNCHANGED <<clock, next_run_at, in_flight, call, runs, claimed_at>>

\* Mutant: the finally clause is reached only by runs that did not fail.
ReleaseUnlessFailed(c, j) ==
    /\ run[c][j].pc = "releasing"
    /\ in_flight' = IF run[c][j].status \in {"SUCCEEDED", "DEGRADED"}
                    THEN in_flight \ {j} ELSE in_flight
    /\ run' = [run EXCEPT ![c][j].pc = "done"]
    /\ UNCHANGED <<clock, next_run_at, call, rows, runs, claimed_at>>

\* The finally clause of _run_job.
Release(c, j) ==
    /\ run[c][j].pc = "releasing"
    /\ in_flight' = in_flight \ {j}
    /\ run' = [run EXCEPT ![c][j].pc = "done"]
    /\ UNCHANGED <<clock, next_run_at, call, rows, runs, claimed_at>>

\* The gather of run_due completes: every gathered coroutine returned.
Return(c) ==
    /\ call[c].due # {}
    /\ \A j \in call[c].due : run[c][j].pc = "done"
    /\ call' = [call EXCEPT ![c] = NoCall]
    /\ run' = [run EXCEPT ![c] = [j \in Jobs |-> Idle]]
    /\ UNCHANGED <<clock, next_run_at, in_flight, rows, runs, claimed_at>>

\* What a coroutine does next, whatever its environment answers.
JobStep(c, j) ==
    \/ StartLoad(c, j)
    \/ StartRaises(c, j)
    \/ \E adapter \in AdapterStates : LoadReturns(c, j, adapter)
    \/ \E status \in {"TIMED_OUT", "FAILED"} : LoadFails(c, j, status)
    \/ StoreCommits(c, j)
    \/ \E committed \in BOOLEAN : StoreRaises(c, j, committed)
    \/ Release(c, j)

Next ==
    \/ Tick
    \/ ClockStepsBack
    \/ \E c \in Callers :
         \/ RunDue(c)
         \/ \E j \in Jobs : JobStep(c, j)
         \/ Return(c)

Spec == Init /\ [][Next]_vars

\* The event loop runs every ready coroutine; wait_for bounds the load; the
\* database call is assumed to return or to raise (it has no timeout); each
\* caller keeps calling run_due, as run_forever and the supervisor do.
Fairness ==
    \A c \in Callers :
        /\ WF_vars(RunDue(c))
        /\ WF_vars(Return(c))
        /\ \A j \in Jobs : WF_vars(JobStep(c, j))

FairSpec == Spec /\ Fairness

----------------------------------------------------------------------------
(* Properties *)

\* An in-flight set prevents duplicate concurrent execution of the same job:
\* whatever calls of run_due overlap, two coroutines never run one job.
JobExclusion ==
    \A c, d \in Callers : \A j \in Jobs : Active(c, j) /\ Active(d, j) => c = d

\* The in-flight set is exactly the set of jobs some coroutine is running: a
\* job is neither started twice nor left behind in the set for ever, on any
\* path through the handlers of _run_job.
InFlightIsActive ==
    in_flight = {j \in Jobs : \E c \in Callers : Active(c, j)}

\* scheduled <= started <= finished for every outcome, though the wall clock
\* steps back: WorkerRunOutcome would raise otherwise, inside an except
\* clause, and take the whole gather with it.
OutcomeTimesOrdered ==
    \A c \in Callers, j \in Jobs :
        LET r == run[c][j]
        IN /\ r.pc \in Pc \ {"none", "claimed"} => call[c].now <= r.started
           /\ r.pc \in Pc \ {"none", "claimed", "loading"} => r.started <= r.finished

\* The rows S are what one call of the store commits: one source_health and
\* one worker_run row, and a snapshot only of a run that succeeded.
OneTransaction(S) ==
    /\ \E h, w \in S : h.type = "source_health" /\ w.type = "worker_run"
    /\ \A s, t \in S : s.type = t.type => s = t
    /\ \A s, t \in S : s.type \in SnapshotTypes /\ t.type = "worker_run"
                          => t.state = "SUCCEEDED"

\* A run is recorded once and as a whole, and never by both of the store's
\* paths, whichever of its calls fail.
RunRecordedOnce ==
    \A r \in rows : OneTransaction({s \in rows : s.job = r.job /\ s.run = r.run})

\* What run_due reports about a job is what the database holds: a status
\* other than PERSISTENCE_FAILED is only returned for a run whose worker_run
\* row carries that status.
OutcomeIsStored ==
    \A c \in Callers, j \in Jobs :
        LET r == run[c][j]
        IN r.pc \in {"releasing", "done"} /\ r.status # "PERSISTENCE_FAILED"
             => \E s \in rows : /\ s.type = "worker_run" /\ s.job = j
                                /\ s.run = r.id /\ s.state = r.status

\* Two claims of a job are at least its interval apart, as run_due's callers
\* read the clock: an overrun is not made up for, and a clock that stepped
\* back starts nothing early.
ClaimsSpaced ==
    [][\A j \in Jobs : runs'[j] # runs[j] /\ claimed_at[j] # None
                         => claimed_at'[j] >= claimed_at[j] + Interval[j]]_vars

Overdue(j) == next_run_at[j] # None /\ next_run_at[j] <= clock

\* A job that is due is claimed and rescheduled (or the clock steps back before
\* its time), also when it became due again while it was still running: a slow
\* or failed run delays the next one and never prevents it.
DueJobRuns == \A j \in Jobs : Overdue(j) ~> ~Overdue(j)
----------------------------------------------------------------------------
(* The promise of JobScheduler *)

\* The recorded runs: a run is recorded by its worker_run row.
RecordedRuns ==
    {[job |-> r.job, run |-> r.run, status |-> r.state] :
        r \in {s \in rows : s.type = "worker_run"}}

\* The outcomes of a caller's gather that has not ended, and those of all gathers.
OutcomesOf(c) ==
    {[job |-> j, run |-> run[c][j].id, status |-> run[c][j].status] :
        j \in {k \in Jobs : run[c][k].pc = "done"}}

WaitingOutcomes == UNION {OutcomesOf(c) : c \in Callers}

Scheduler ==
    INSTANCE JobScheduler WITH
        Unstored <- "PERSISTENCE_FAILED",
        count    <- runs,
        running  <- in_flight,
        record   <- RecordedRuns,
        outcomes <- WaitingOutcomes

\* run_due with its coroutines, handlers and transactions takes only steps that
\* JobScheduler allows: no run of a job beside another, one record of a run, and
\* outcomes that agree with it, whichever call of the source or of the store
\* fails.
ImplementsJobScheduler == Scheduler!SafetySpec

\* The rest of the promise: no run lasts for ever, whatever fails in it.
EveryRunEnds == Scheduler!RunsEnd
=============================================================================
