---------------------------- MODULE JobScheduler ----------------------------
(***************************************************************************)
(* What the runtime promises about its jobs, whatever coroutines, locks,   *)
(* timeouts and transactions it is made of: a job runs at most once at a   *)
(* time, a run is recorded at most once, the outcome a caller gets is the  *)
(* recorded one or says that recording failed, and every run ends.         *)
(***************************************************************************)
EXTENDS Integers

CONSTANTS
    Jobs,
    Statuses,   \* the statuses a run can end with
    Unstored    \* the one of them that says that recording failed

VARIABLES
    count,      \* job -> how many runs of it were started
    running,    \* the jobs with a run that has not ended
    record,     \* the recorded runs: [job, run, status]
    outcomes    \* outcomes that no caller has been given yet

vars == <<count, running, record, outcomes>>

Outcome(j, status) == [job |-> j, run |-> count[j], status |-> status]

Init ==
    /\ count = [j \in Jobs |-> 0]
    /\ running = {}
    /\ record = {}
    /\ outcomes = {}

\* Runs of jobs that are not running start.
Claim(S) ==
    /\ S # {} /\ S \cap running = {}
    /\ running' = running \cup S
    /\ count' = [j \in Jobs |-> IF j \in S THEN count[j] + 1 ELSE count[j]]
    /\ UNCHANGED <<record, outcomes>>

\* The current run of a job is recorded, for the first and only time.
Record(j, status) ==
    /\ j \in running
    /\ \A r \in record : r.job = j => r.run # count[j]
    /\ record' = record \cup {Outcome(j, status)}
    /\ UNCHANGED <<count, running, outcomes>>

\* A run ends, with the status that was recorded or with Unstored.
Finish(j, status) ==
    /\ j \in running
    /\ status = Unstored \/ Outcome(j, status) \in record
    /\ running' = running \ {j}
    /\ outcomes' = outcomes \cup {Outcome(j, status)}
    /\ UNCHANGED <<count, record>>

\* A caller is given outcomes.
Deliver(given) ==
    /\ given # {}
    /\ outcomes' = outcomes \ given
    /\ UNCHANGED <<count, running, record>>

Next ==
    \/ \E S \in SUBSET Jobs : Claim(S)
    \/ \E j \in Jobs, status \in Statuses : Record(j, status) \/ Finish(j, status)
    \/ \E given \in SUBSET outcomes : Deliver(given)

SafetySpec == Init /\ [][Next]_vars

\* No run lasts for ever.
RunsEnd == \A j \in Jobs : j \in running ~> j \notin running

Spec == SafetySpec /\ RunsEnd
=============================================================================
