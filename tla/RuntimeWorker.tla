---------------------------- MODULE RuntimeWorker ----------------------------
(***************************************************************************)
(* The worker process: app/worker.py and the loop of RuntimeSupervisor     *)
(* (app/runtime/supervisor.py) around the orchestrator, with the metrics   *)
(* of app/runtime/telemetry.py and the cleanup of app/runtime/retention.py.*)
(*                                                                         *)
(* The supervisor is the only caller of run_due: Callers = {supervisor}.   *)
(* Everything but rows is memory of the process and is lost in a crash.    *)
(***************************************************************************)
EXTENDS RuntimeOrchestrator, Sequences

CONSTANTS
    supervisor,       \* the caller
    Threshold,        \* failure_alert_threshold
    CleanupInterval,  \* cleanup_interval_seconds
    Retention,        \* retention_days, in ticks of the clock
    MaxRuns,          \* bound: claims of a job in all
    MaxCrashes,       \* bound: how often the process is killed
    MaxSetBack        \* bound: by how much the clock is set back in all

ASSUME WorkerAssumption ==
    /\ Callers = {supervisor}
    /\ Threshold \in Nat \ {0} /\ CleanupInterval \in Nat \ {0}
    /\ Retention \in Nat \ {0}
    /\ MaxRuns \in Nat /\ MaxCrashes \in Nat /\ MaxSetBack \in Nat

VARIABLES
    phase,                 \* where RuntimeSupervisor.run is
    stop,                  \* stop_event is set
    observed_at,           \* the time of the current cycle
    next_cleanup_at,       \* _next_cleanup_at
    consecutive_failures,  \* RuntimeMetrics.consecutive_failures
    observed,              \* history: per job the statuses observe was given;
                           \* total_runs, status_counts and last_status are
                           \* functions of it
    alerts,                \* history: per job the alerts emitted
    created_at,            \* DomainRecord.created_at of the rows
    written_at,            \* history: the true time at which a row was written
    set_back,              \* history: by how much the clock was set back so far
    cycle_set_back,        \* history: set_back when the cycle began
    purged,                \* history: the rows cleanup deleted
    last_cleanup,          \* history: the cycle time of the last cleanup
    crashes

metrics == <<consecutive_failures, observed, alerts>>
table == <<created_at, written_at, set_back, cycle_set_back, purged>>
retention == <<table, next_cleanup_at, last_cleanup>>
wvars == <<vars, phase, stop, observed_at, metrics, retention, crashes>>

\* FAILURE_STATUSES
FailureStatuses == {"FAILED", "TIMED_OUT", "PERSISTENCE_FAILED"}

\* RUNTIME_RECORD_TYPES: structure snapshots are not among them.
RuntimeRecordTypes ==
    {"execution_snapshot", "benchmark_snapshot", "discovery_snapshot",
     "source_diagnostic", "source_health", "worker_run", "worker_metrics"}

Phases == {"cycle", "gather", "clean", "wait", "exited", "dead"}

WorkerTypeOK ==
    /\ TypeOK
    /\ phase \in Phases /\ stop \in BOOLEAN
    /\ observed_at \in Int
    /\ next_cleanup_at \in Int \cup {None} /\ last_cleanup \in Int \cup {None}
    /\ consecutive_failures \in [Jobs -> Nat] /\ alerts \in [Jobs -> Nat]
    /\ observed \in [Jobs -> Seq(Statuses)]
    /\ created_at \in [rows -> Int] /\ written_at \in [rows -> Int]
    /\ set_back \in Nat /\ cycle_set_back \in 0..set_back
    /\ purged \in SUBSET Row /\ purged \cap rows = {}
    /\ crashes \in 0..MaxCrashes
----------------------------------------------------------------------------
(* Helpers *)

\* observe: the count of consecutive failures after one more outcome.
FailureCount(n, status) == IF status \in FailureStatuses THEN n + 1 ELSE 0

\* Mutant: an alert for every failure from the threshold on.
AlertsFromThreshold(n, status) ==
    status \in FailureStatuses /\ FailureCount(n, status) >= Threshold

\* observe: the outcome that makes the count equal to the threshold alerts.
Alerts(n, status) ==
    status \in FailureStatuses /\ FailureCount(n, status) = Threshold

\* RuntimeMetrics.observe over the outcomes of the cycle, one per claimed job.
Observe(due, status) ==
    /\ consecutive_failures' =
         [j \in Jobs |-> IF j \in due
                         THEN FailureCount(consecutive_failures[j], status[j])
                         ELSE consecutive_failures[j]]
    /\ observed' = [j \in Jobs |-> IF j \in due THEN Append(observed[j], status[j])
                                   ELSE observed[j]]
    /\ alerts' =
         [j \in Jobs |-> IF j \in due /\ Alerts(consecutive_failures[j], status[j])
                         THEN alerts[j] + 1 ELSE alerts[j]]

\* _cleanup_due
CleanupDue(now) == next_cleanup_at = None \/ now >= next_cleanup_at

PhaseAfterJobs(now) == IF CleanupDue(now) THEN "clean" ELSE "wait"
----------------------------------------------------------------------------
(* Actions *)

\* The entry of run_worker: a fresh process and an empty database.
WorkerInit ==
    /\ Init
    /\ phase = "cycle"
    /\ stop = FALSE
    /\ observed_at = 0
    /\ next_cleanup_at = None
    /\ consecutive_failures = [j \in Jobs |-> 0]
    /\ observed = [j \in Jobs |-> <<>>]
    /\ alerts = [j \in Jobs |-> 0]
    /\ last_cleanup = None
    /\ created_at = <<>>
    /\ written_at = <<>>
    /\ set_back = 0 /\ cycle_set_back = 0
    /\ purged = {}
    /\ crashes = 0

\* The wall clock goes on, or is set back: true time never goes back.
Environment ==
    /\ \/ Tick /\ UNCHANGED set_back
       \/ ClockStepsBack /\ set_back < MaxSetBack /\ set_back' = set_back + 1
    /\ UNCHANGED <<phase, stop, observed_at, metrics, created_at, written_at,
                   cycle_set_back, purged, next_cleanup_at, last_cleanup, crashes>>

TrueTime == clock + set_back

\* SIGINT or SIGTERM: install_signal_handlers sets the event.
Signal ==
    /\ phase \notin {"exited", "dead"} /\ ~stop
    /\ stop' = TRUE
    /\ UNCHANGED <<vars, phase, observed_at, metrics, retention, crashes>>

\* run enters run_cycle, which reads the clock and calls run_due.  Without
\* due jobs the cycle goes on to the cleanup without waiting.
StartCycle ==
    /\ phase = "cycle" /\ ~stop
    /\ \A j \in DueJobs(clock) : runs[j] < MaxRuns
    /\ RunDue(supervisor)
    /\ observed_at' = clock
    /\ cycle_set_back' = set_back
    /\ phase' = IF DueJobs(clock) = {} THEN PhaseAfterJobs(clock) ELSE "gather"
    /\ UNCHANGED <<stop, metrics, created_at, written_at, set_back, purged,
                   next_cleanup_at, last_cleanup, crashes>>

\* A coroutine of the gather makes a step; what it stores is stamped with the
\* clock when the session flushes it, not with the time of the cycle.
JobRuns(j) ==
    /\ phase = "gather"
    /\ JobStep(supervisor, j)
    /\ created_at' = [r \in rows' |-> IF r \in rows THEN created_at[r] ELSE clock]
    /\ written_at' = [r \in rows' |-> IF r \in rows THEN written_at[r] ELSE TrueTime]
    /\ UNCHANGED <<phase, stop, observed_at, metrics, set_back, cycle_set_back, purged,
                   next_cleanup_at, last_cleanup, crashes>>

\* Mutant: a run that was not stored never ends for the gather.
CycleObservesStored ==
    /\ phase = "gather"
    /\ \A j \in call[supervisor].due : run[supervisor][j].status # "PERSISTENCE_FAILED"
    /\ Return(supervisor)
    /\ Observe(call[supervisor].due,
               [j \in Jobs |-> run[supervisor][j].status])
    /\ phase' = PhaseAfterJobs(observed_at)
    /\ UNCHANGED <<stop, observed_at, retention, crashes>>

\* The gather returns: metrics.observe, the logs, and on to the cleanup.
CycleObserves ==
    /\ phase = "gather"
    /\ Return(supervisor)
    /\ Observe(call[supervisor].due,
               [j \in Jobs |-> run[supervisor][j].status])
    /\ phase' = PhaseAfterJobs(observed_at)
    /\ UNCHANGED <<stop, observed_at, retention, crashes>>

\* Mutant: a row of the cutoff's own moment goes as well.
DeletableAtCutoff ==
    {r \in rows : /\ r.type \in RuntimeRecordTypes
                  /\ created_at[r] <= observed_at - Retention}

\* The rows the delete of cleanup matches: created before the cutoff, which is
\* reckoned from the time at which the cycle began.
Deletable ==
    {r \in rows : /\ r.type \in RuntimeRecordTypes
                  /\ created_at[r] < observed_at - Retention}

\* Mutant: a failed cleanup is retried in the next cycle.
NextCleanupOnSuccess(ok) ==
    next_cleanup_at' = IF ok THEN observed_at + CleanupInterval ELSE next_cleanup_at

\* The finally clause of run_cycle: whether the cleanup failed or not.
NextCleanup(ok) == next_cleanup_at' = observed_at + CleanupInterval

\* cleaner.cleanup; an exception of the database is logged and swallowed.
Cleanup(ok) ==
    /\ phase = "clean"
    /\ rows' = IF ok THEN rows \ Deletable ELSE rows
    /\ purged' = IF ok THEN purged \cup Deletable ELSE purged
    /\ created_at' = [r \in rows' |-> created_at[r]]
    /\ written_at' = [r \in rows' |-> written_at[r]]
    /\ NextCleanup(ok)
    /\ last_cleanup' = observed_at
    /\ phase' = "wait"
    /\ UNCHANGED <<clock, next_run_at, in_flight, call, run, runs, claimed_at, stop,
                   observed_at, metrics, set_back, cycle_set_back, crashes>>

\* Mutant: the event is looked at whenever the supervisor waits for anything.
WakeAnywhere ==
    /\ phase \in {"wait", "gather"}
    /\ phase' = IF stop THEN "exited" ELSE "cycle"
    /\ UNCHANGED <<vars, stop, observed_at, metrics, retention, crashes>>

\* wait_for(stop_event.wait(), tick): it times out and the loop goes on, or the
\* event is set and the process leaves through database.dispose.
Wake ==
    /\ phase = "wait"
    /\ phase' = IF stop THEN "exited" ELSE "cycle"
    /\ UNCHANGED <<vars, stop, observed_at, metrics, retention, crashes>>

\* The loop condition: a signal that arrives just before the next cycle.
LeaveLoop ==
    /\ phase = "cycle" /\ stop
    /\ phase' = "exited"
    /\ UNCHANGED <<vars, stop, observed_at, metrics, retention, crashes>>

\* The process is killed: an open transaction rolls back, memory is gone.
Crash ==
    /\ phase \notin {"exited", "dead"} /\ crashes < MaxCrashes
    /\ phase' = "dead"
    /\ crashes' = crashes + 1
    /\ next_run_at' = [j \in Jobs |-> None]
    /\ in_flight' = {}
    /\ call' = [c \in Callers |-> NoCall]
    /\ run' = [c \in Callers |-> [j \in Jobs |-> Idle]]
    /\ claimed_at' = [j \in Jobs |-> None]
    /\ UNCHANGED <<clock, rows, runs, stop, observed_at, metrics, retention>>

\* The service manager starts the worker again.
Restart ==
    /\ phase = "dead"
    /\ phase' = "cycle" /\ stop' = FALSE
    /\ observed_at' = 0 /\ next_cleanup_at' = None /\ last_cleanup' = None
    /\ consecutive_failures' = [j \in Jobs |-> 0]
    /\ observed' = [j \in Jobs |-> <<>>]
    /\ alerts' = [j \in Jobs |-> 0]
    /\ UNCHANGED <<vars, table, crashes>>

WorkerNext ==
    \/ Environment
    \/ Signal
    \/ StartCycle
    \/ \E j \in Jobs : JobRuns(j)
    \/ CycleObserves
    \/ \E ok \in BOOLEAN : Cleanup(ok)
    \/ Wake
    \/ LeaveLoop
    \/ Crash
    \/ Restart

WorkerSpec == WorkerInit /\ [][WorkerNext]_wvars

\* The event loop keeps running the process: no fairness for signals, crashes
\* or the clock.
WorkerFairness ==
    /\ WF_wvars(StartCycle) /\ WF_wvars(CycleObserves) /\ WF_wvars(Wake)
    /\ WF_wvars(LeaveLoop) /\ WF_wvars(\E ok \in BOOLEAN : Cleanup(ok))
    /\ \A j \in Jobs : WF_wvars(JobRuns(j))

FairWorkerSpec == WorkerSpec /\ WorkerFairness
----------------------------------------------------------------------------
(* Properties *)

\* Positions of a status sequence at which a streak of failures becomes
\* exactly Threshold long: the reference for the alerts.
Failing(s, i) == s[i] \in FailureStatuses

StreakReaches(s) ==
    {i \in Threshold..Len(s) :
        /\ \A k \in (i - Threshold + 1)..i : Failing(s, k)
        /\ i = Threshold \/ ~Failing(s, i - Threshold)}

\* An error alert once for each streak of consecutive hard failures that
\* reaches the threshold: not again while the streak lasts, and again only
\* after a succeeded or degraded run.
AlertOncePerStreak ==
    \A j \in Jobs : alerts[j] = Cardinality(StreakReaches(observed[j]))

\* A graceful stop: the current cycle finishes before the process exits, so a
\* process that left on a signal leaves no claimed job behind.
GracefulExit ==
    phase = "exited" => in_flight = {} /\ \A c \in Callers : call[c].due = {}

\* Whatever crashed between two steps, a run left all of its rows or none:
\* its rows, with those that retention took, are one transaction.
RecordsWhole ==
    LET all == rows \cup purged
    IN \A r \in all : OneTransaction({s \in all : s.job = r.job /\ s.run = r.run})

\* Cleanup never deletes strategy evidence, and no row before it has really lived
\* for the retention period: the cutoff is taken when the cycle begins and the
\* delete comes at its end, rows of earlier processes and of this cycle are
\* stamped at different readings of a clock that may be set back.  Only when it is
\* set back by more than the period within one cycle do that cycle's rows go.
RetentionSpares ==
    [][\A r \in rows \ rows' :
          /\ r.type # "structure_snapshot"
          /\ set_back - cycle_set_back <= Retention
               => TrueTime - written_at[r] > Retention]_wvars

\* A failing database is not asked to clean up in every cycle: attempts are
\* the interval apart, as the cycles read the clock.
CleanupsSpaced ==
    [][phase = "clean" /\ phase' = "wait" /\ last_cleanup # None
         => observed_at >= last_cleanup + CleanupInterval]_wvars

\* After a signal the process exits, however many jobs are running and
\* whatever they and the cleanup run into (unless it is killed first).
StopTerminates == stop ~> phase \in {"exited", "dead"}
==============================================================================
