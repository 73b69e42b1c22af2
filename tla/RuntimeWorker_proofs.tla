------------------------ MODULE RuntimeWorker_proofs ------------------------
(***************************************************************************)
(* Proofs about RuntimeOrchestrator, for every set of jobs and callers and *)
(* every schedule, and about RuntimeWorker: the supervisor's loop around   *)
(* the scheduler, with its metrics, its retention and the crashes of the   *)
(* process, for every threshold and every interval.                        *)
(***************************************************************************)
EXTENDS RuntimeWorker, FiniteSetTheorems, TLAPS

----------------------------------------------------------------------------
(* The scheduler under any callers.                                          *)

\* A coroutine's state stays of its type when it moves between two awaits.
LEMMA RunTyping ==
    /\ Idle \in Run
    /\ \A r \in Run : /\ \A p \in Pc : [r EXCEPT !.pc = p] \in Run
                      /\ r.started \in Int /\ r.finished \in Int
                      /\ r.id \in Nat /\ r.pc \in Pc
BY DEF Run, Idle, Pc, ActivePc

\* _clock_not_before and its safe form never answer less than the fallback.
LEMMA ClockTyping ==
    ASSUME TypeOK, NEW f \in Int
    PROVE  /\ ClockNotBefore(f) \in Int /\ f <= ClockNotBefore(f)
           /\ \A t \in SafeClockNotBefore(f) : t \in Int /\ f <= t
BY DEF TypeOK, ClockNotBefore, SafeClockNotBefore

\* What the store commits for a run with a status are domain records.
LEMMA RowTyping ==
    ASSUME NEW j \in Jobs, NEW r \in Run, r.status # "NONE", r.adapter # "NONE"
    PROVE  RowsOf(j, r) \subseteq Row
BY ScheduleAssumption
   DEF RowsOf, PayloadRows, FailureRows, NewRow, PayloadRecordType, SnapshotType,
       Row, Run, RecordTypes, SnapshotTypes, Statuses, AdapterStates, Kinds

\* The loop of run_due keeps the types of _next_run_at and of the due jobs.
LEMMA ScheduleTyping ==
    ASSUME TypeOK, NEW now \in Int
    PROVE  /\ NextRunAt(now) \in [Jobs -> Int \cup {None}]
           /\ DueJobs(now) \subseteq Jobs
BY ScheduleAssumption DEF TypeOK, NextRunAt, DueJobs, ScheduledAt

----------------------------------------------------------------------------
(* The inductive invariant of the coroutines: what run_due and _run_job keep *)
(* true of in_flight, call and run.                                          *)

\* Every call is awaiting exactly the coroutines of the jobs it claimed.
CallGathersItsJobs ==
    \A c \in Callers : call[c].due = {j \in Jobs : run[c][j].pc # "none"}

\* A coroutine carries the number of its job's last claim and the status its
\* path through _run_job gave it.
Shape ==
    \A c \in Callers, j \in Jobs :
        LET r == run[c][j]
        IN /\ Active(c, j) => r.id = runs[j]
           /\ r.pc = "done" => r.id <= runs[j]
           /\ r.pc = "persist_payload" => /\ r.adapter \in AdapterStates
                                          /\ r.status = StatusForPayload(r.adapter)
           /\ r.pc = "persist_failure" => /\ r.adapter = "DOWN"
                                          /\ r.status \in {"FAILED", "TIMED_OUT"}
           /\ r.pc \in {"releasing", "done"} => r.status \in Statuses

CoreInv ==
    /\ TypeOK
    /\ JobExclusion
    /\ InFlightIsActive
    /\ CallGathersItsJobs
    /\ OutcomeTimesOrdered
    /\ Shape

\* A coroutine moves on within _run_job: it stays active, keeps its claim,
\* and its new times and status are in order.
LEMMA CoroutineStep ==
    ASSUME CoreInv,
           NEW c \in Callers, NEW j \in Jobs, NEW r \in Run,
           run' = [run EXCEPT ![c][j] = r],
           UNCHANGED <<clock, next_run_at, in_flight, call, runs, claimed_at>>,
           rows' \in SUBSET Row,
           Active(c, j), r.pc \in ActivePc \ {"claimed"}, r.id = run[c][j].id,
           call[c].now <= r.started,
           r.pc # "loading" => r.started <= r.finished,
           r.pc = "persist_payload" => /\ r.adapter \in AdapterStates
                                       /\ r.status = StatusForPayload(r.adapter),
           r.pc = "persist_failure" => /\ r.adapter = "DOWN"
                                       /\ r.status \in {"FAILED", "TIMED_OUT"},
           r.pc = "releasing" => r.status \in Statuses
    PROVE  CoreInv'
<1> USE DEF CoreInv
<1>1. run \in [Callers -> [Jobs -> Run]]
  BY DEF TypeOK
<1>2. /\ run' \in [Callers -> [Jobs -> Run]]
      /\ run'[c][j] = r
      /\ \A d \in Callers, k \in Jobs : <<d, k>> # <<c, j>> => run'[d][k] = run[d][k]
  BY <1>1
<1>3. TypeOK'
  BY <1>2 DEF TypeOK
<1>4. \A d \in Callers, k \in Jobs : Active(d, k)' <=> Active(d, k)
  BY <1>2 DEF Active
<1>5. JobExclusion'
  BY <1>4 DEF JobExclusion
<1>6. InFlightIsActive'
  BY <1>4 DEF InFlightIsActive
<1>7. \A d \in Callers, k \in Jobs : run'[d][k].pc # "none" <=> run[d][k].pc # "none"
  BY <1>2 DEF Active, ActivePc
<1>8. CallGathersItsJobs'
  BY <1>7 DEF CallGathersItsJobs
<1>9. OutcomeTimesOrdered'
  BY <1>2 DEF OutcomeTimesOrdered, ActivePc
<1>10. Shape'
  BY <1>2 DEF Shape, Active, ActivePc, TypeOK
<1> QED
  BY <1>3, <1>5, <1>6, <1>8, <1>9, <1>10

\* Claiming the due jobs keeps the invariant: what is claimed was not in flight.
LEMMA RunDueStep ==
    ASSUME CoreInv, NEW c \in Callers, RunDue(c)
    PROVE  CoreInv'
<1> USE DEF CoreInv
<1> DEFINE due == DueJobs(clock)
<1> HIDE DEF due
<1>1. clock \in Int /\ due \subseteq Jobs /\ due \cap in_flight = {}
  BY DEF TypeOK, DueJobs, due
<1>2. /\ in_flight' = in_flight \cup due
      /\ runs' = [j \in Jobs |-> IF j \in due THEN runs[j] + 1 ELSE runs[j]]
      /\ claimed_at' = [j \in Jobs |-> IF j \in due THEN clock ELSE claimed_at[j]]
      /\ call' = [call EXCEPT ![c] = IF due = {} THEN NoCall
                                               ELSE [now |-> clock, due |-> due]]
      /\ next_run_at' = NextRunAt(clock)
      /\ UNCHANGED <<clock, rows>>
  BY DEF RunDue, due
<1>3. run' = [run EXCEPT ![c] = [j \in Jobs |->
                 IF j \in due THEN Claimed(runs[j] + 1) ELSE Idle]]
  BY DEF RunDue, due
<1>4. \A j \in Jobs : run[c][j].pc = "none"
  BY DEF CallGathersItsJobs, RunDue, TypeOK
<1>5. \A j \in Jobs : Claimed(runs[j] + 1) \in Run
  BY DEF TypeOK, Run, Claimed, Pc, ActivePc
<1>6. /\ run' \in [Callers -> [Jobs -> Run]]
      /\ \A d \in Callers \ {c} : run'[d] = run[d]
      /\ \A j \in due : run'[c][j].pc = "claimed" /\ run'[c][j].id = runs[j] + 1
      /\ \A j \in Jobs \ due : run'[c][j] = Idle
  BY <1>1, <1>3, <1>5, RunTyping DEF TypeOK, Idle, Claimed
<1>7. TypeOK'
  <2>1. next_run_at' \in [Jobs -> Int \cup {None}]
    BY <1>1, <1>2, ScheduleTyping
  <2>2. call' \in [Callers -> [now : Int, due : SUBSET Jobs]]
    BY <1>1, <1>2 DEF TypeOK, NoCall
  <2>3. runs' \in [Jobs -> Nat] /\ claimed_at' \in [Jobs -> Int \cup {None}]
    BY <1>1, <1>2 DEF TypeOK
  <2> QED
    BY <1>1, <1>2, <1>6, <2>1, <2>2, <2>3 DEF TypeOK
<1>8. /\ \A d \in Callers \ {c}, j \in Jobs : Active(d, j)' <=> Active(d, j)
      /\ \A j \in Jobs : Active(c, j)' <=> j \in due
      /\ \A j \in Jobs : ~Active(c, j)
  BY <1>1, <1>4, <1>6 DEF Active, ActivePc, Idle
<1>9. \A j \in Jobs, d \in Callers : Active(d, j) => j \notin due
  BY <1>1 DEF InFlightIsActive
<1>10. JobExclusion'
  BY <1>8, <1>9 DEF JobExclusion
<1>11. InFlightIsActive'
  BY <1>1, <1>2, <1>8 DEF InFlightIsActive
<1>12. CallGathersItsJobs'
  BY <1>1, <1>2, <1>6 DEF CallGathersItsJobs, TypeOK, NoCall, Idle
<1>13. OutcomeTimesOrdered'
  <2> SUFFICES ASSUME NEW d \in Callers, NEW j \in Jobs
               PROVE  /\ run'[d][j].pc \in Pc \ {"none", "claimed"}
                            => call'[d].now <= run'[d][j].started
                      /\ run'[d][j].pc \in Pc \ {"none", "claimed", "loading"}
                            => run'[d][j].started <= run'[d][j].finished
    BY DEF OutcomeTimesOrdered
  <2>1. CASE d = c
    BY <2>1, <1>6 DEF Idle
  <2>2. CASE d # c
    BY <2>2, <1>2, <1>6 DEF OutcomeTimesOrdered, TypeOK
  <2> QED
    BY <2>1, <2>2
<1>14. Shape'
  <2> SUFFICES ASSUME NEW d \in Callers, NEW j \in Jobs
               PROVE  LET r == run'[d][j]
                      IN /\ Active(d, j)' => r.id = runs'[j]
                         /\ r.pc = "done" => r.id <= runs'[j]
                         /\ r.pc = "persist_payload" =>
                              /\ r.adapter \in AdapterStates
                              /\ r.status = StatusForPayload(r.adapter)
                         /\ r.pc = "persist_failure" =>
                              /\ r.adapter = "DOWN"
                              /\ r.status \in {"FAILED", "TIMED_OUT"}
                         /\ r.pc \in {"releasing", "done"} => r.status \in Statuses
    BY DEF Shape
  <2>1. CASE d = c
    BY <2>1, <1>2, <1>6, <1>8 DEF Idle
  <2>2. CASE d # c
    <3>1. run'[d][j] = run[d][j]
      BY <2>2, <1>6
    <3>2. Active(d, j)' => Active(d, j) /\ runs'[j] = runs[j]
      BY <2>2, <1>2, <1>8, <1>9
    <3>3. runs[j] <= runs'[j] /\ runs[j] \in Nat /\ run[d][j].id \in Nat
      BY <1>2, RunTyping DEF TypeOK
    <3> QED
      BY <3>1, <3>2, <3>3, <1>7 DEF Shape, TypeOK
  <2> QED
    BY <2>1, <2>2
<1> QED
  BY <1>7, <1>10, <1>11, <1>12, <1>13, <1>14

\* The finally clause keeps it: the job leaves the set with its only coroutine.
LEMMA ReleaseStep ==
    ASSUME CoreInv, NEW c \in Callers, NEW j \in Jobs, Release(c, j)
    PROVE  CoreInv'
<1> USE DEF CoreInv
<1> DEFINE r == [run[c][j] EXCEPT !.pc = "done"]
<1>1. /\ run \in [Callers -> [Jobs -> Run]] /\ run[c][j] \in Run
      /\ run[c][j].pc = "releasing" /\ Active(c, j)
      /\ in_flight' = in_flight \ {j}
      /\ run' = [run EXCEPT ![c][j] = r]
      /\ UNCHANGED <<clock, next_run_at, call, rows, runs, claimed_at>>
  BY DEF Release, TypeOK, Active, ActivePc
<1>2. /\ r \in Run /\ r.pc = "done" /\ r.id = run[c][j].id
      /\ r.started = run[c][j].started /\ r.finished = run[c][j].finished
      /\ r.status = run[c][j].status
  BY <1>1 DEF Run, Pc
<1> HIDE DEF r
<1>3. /\ run' \in [Callers -> [Jobs -> Run]]
      /\ run'[c][j] = r
      /\ \A d \in Callers, k \in Jobs : <<d, k>> # <<c, j>> => run'[d][k] = run[d][k]
  BY <1>1, <1>2
<1>4. TypeOK'
  BY <1>1, <1>3 DEF TypeOK
<1>5. \A d \in Callers, k \in Jobs :
        Active(d, k)' <=> Active(d, k) /\ <<d, k>> # <<c, j>>
  BY <1>2, <1>3 DEF Active, ActivePc
<1>6. JobExclusion'
  BY <1>5 DEF JobExclusion
<1>7. InFlightIsActive'
  <2>1. \A d \in Callers : Active(d, j) => d = c
    BY <1>1 DEF JobExclusion
  <2> QED
    BY <1>1, <1>5, <2>1 DEF InFlightIsActive
<1>8. CallGathersItsJobs'
  BY <1>1, <1>2, <1>3 DEF CallGathersItsJobs
<1>9. OutcomeTimesOrdered'
  BY <1>1, <1>2, <1>3 DEF OutcomeTimesOrdered, Pc, ActivePc
<1>10. Shape'
  BY <1>1, <1>2, <1>3, <1>5 DEF Shape, TypeOK
<1> QED
  BY <1>4, <1>6, <1>7, <1>8, <1>9, <1>10

\* The end of the gather keeps it: nothing it drops is still active.
LEMMA ReturnStep ==
    ASSUME CoreInv, NEW c \in Callers, Return(c)
    PROVE  CoreInv'
<1> USE DEF CoreInv
<1>1. /\ run' = [run EXCEPT ![c] = [j \in Jobs |-> Idle]]
      /\ call' = [call EXCEPT ![c] = NoCall]
      /\ UNCHANGED <<clock, next_run_at, in_flight, rows, runs, claimed_at>>
  BY DEF Return
<1>2. \A j \in Jobs : run[c][j].pc \in {"none", "done"}
  BY DEF Return, CallGathersItsJobs, TypeOK
<1>3. /\ run' \in [Callers -> [Jobs -> Run]]
      /\ \A j \in Jobs : run'[c][j] = Idle
      /\ \A d \in Callers \ {c} : run'[d] = run[d]
  BY <1>1, RunTyping DEF TypeOK
<1>4. TypeOK'
  BY <1>1, <1>3 DEF TypeOK, NoCall
<1>5. \A d \in Callers, k \in Jobs : Active(d, k)' <=> Active(d, k)
  BY <1>2, <1>3 DEF Active, ActivePc, Idle
<1>6. JobExclusion' /\ InFlightIsActive'
  BY <1>1, <1>5 DEF JobExclusion, InFlightIsActive
<1>7. CallGathersItsJobs'
  BY <1>1, <1>3 DEF CallGathersItsJobs, TypeOK, NoCall, Idle
<1>8. OutcomeTimesOrdered'
  <2>1. \A d \in Callers \ {c} : call'[d] = call[d]
    BY <1>1 DEF TypeOK
  <2> QED
    BY <1>3, <2>1 DEF OutcomeTimesOrdered, Idle
<1>9. Shape'
  <2>1. \A j \in Jobs : ~Active(c, j)'
    BY <1>3 DEF Active, ActivePc, Idle
  <2> QED
    BY <1>1, <1>3, <1>5, <2>1 DEF Shape, Idle
<1> QED
  BY <1>4, <1>6, <1>7, <1>8, <1>9

\* Every step of _run_job keeps it, whatever the source and the store answer.
LEMMA JobStepStep ==
    ASSUME CoreInv, NEW c \in Callers, NEW j \in Jobs, JobStep(c, j)
    PROVE  CoreInv'
<1>1. /\ TypeOK /\ run[c][j] \in Run /\ call[c].now \in Int
      /\ run[c][j].started \in Int /\ run[c][j].finished \in Int
  BY RunTyping DEF CoreInv, TypeOK
<1>2. CASE StartLoad(c, j)
  <2> DEFINE r == [run[c][j] EXCEPT !.pc = "loading",
                                    !.started = ClockNotBefore(call[c].now)]
  <2>1. /\ r \in Run /\ r.pc = "loading" /\ r.id = run[c][j].id
        /\ r.started = ClockNotBefore(call[c].now)
    BY <1>1, ClockTyping DEF Run, Pc, ActivePc
  <2>2. call[c].now <= r.started
    BY <1>1, <2>1, ClockTyping
  <2>3. /\ run' = [run EXCEPT ![c][j] = r] /\ Active(c, j)
        /\ UNCHANGED <<clock, next_run_at, in_flight, call, runs, claimed_at>>
        /\ rows' \in SUBSET Row
    BY <1>1, <1>2 DEF StartLoad, Advance, Active, ActivePc, TypeOK
  <2> HIDE DEF r
  <2> QED
    BY <2>1, <2>2, <2>3, CoroutineStep DEF ActivePc
<1>3. CASE StartRaises(c, j)
  <2>1. PICK t \in SafeClockNotBefore(call[c].now) :
          Advance(c, j, [run[c][j] EXCEPT !.pc = "persist_failure", !.status = "FAILED",
                                          !.adapter = "DOWN", !.started = call[c].now,
                                          !.finished = t])
    BY <1>3 DEF StartRaises
  <2> DEFINE r == [run[c][j] EXCEPT !.pc = "persist_failure", !.status = "FAILED",
                                    !.adapter = "DOWN", !.started = call[c].now,
                                    !.finished = t]
  <2>2. t \in Int /\ call[c].now <= t
    BY <1>1, ClockTyping
  <2>3. /\ r \in Run /\ r.pc = "persist_failure" /\ r.id = run[c][j].id
        /\ r.started = call[c].now /\ r.finished = t
        /\ r.status = "FAILED" /\ r.adapter = "DOWN"
    BY <1>1, <2>2 DEF Run, Pc, ActivePc, Statuses, AdapterStates
  <2>4. /\ run' = [run EXCEPT ![c][j] = r] /\ Active(c, j)
        /\ UNCHANGED <<clock, next_run_at, in_flight, call, runs, claimed_at>>
        /\ rows' \in SUBSET Row
    BY <1>1, <1>3, <2>1 DEF StartRaises, Advance, Active, ActivePc, TypeOK
  <2> HIDE DEF r
  <2>5. /\ call[c].now <= r.started /\ r.started <= r.finished
        /\ r.pc \in ActivePc \ {"claimed"} /\ r.pc # "persist_payload"
        /\ r.status \in {"FAILED", "TIMED_OUT"}
    BY <1>1, <2>2, <2>3 DEF ActivePc
  <2> QED
    BY <2>3, <2>4, <2>5, CoroutineStep
<1>4. ASSUME NEW adapter \in AdapterStates, LoadReturns(c, j, adapter)
      PROVE  CoreInv'
  <2>1. PICK t \in SafeClockNotBefore(run[c][j].started) :
          Advance(c, j, [run[c][j] EXCEPT !.pc = "persist_payload",
                                          !.status = StatusForPayload(adapter),
                                          !.adapter = adapter, !.finished = t])
    BY <1>4 DEF LoadReturns
  <2> DEFINE r == [run[c][j] EXCEPT !.pc = "persist_payload",
                                    !.status = StatusForPayload(adapter),
                                    !.adapter = adapter, !.finished = t]
  <2>2. t \in Int /\ run[c][j].started <= t
    BY <1>1, ClockTyping
  <2>3. StatusForPayload(adapter) \in Statuses
    BY DEF StatusForPayload, Statuses
  <2>4. /\ r \in Run /\ r.pc = "persist_payload" /\ r.id = run[c][j].id
        /\ r.started = run[c][j].started /\ r.finished = t
        /\ r.status = StatusForPayload(adapter) /\ r.adapter = adapter
    BY <1>1, <2>2, <2>3 DEF Run, Pc, ActivePc
  <2>5. /\ run' = [run EXCEPT ![c][j] = r] /\ Active(c, j)
        /\ UNCHANGED <<clock, next_run_at, in_flight, call, runs, claimed_at>>
        /\ rows' \in SUBSET Row
    BY <1>1, <1>4, <2>1 DEF LoadReturns, Advance, Active, ActivePc, TypeOK
  <2> HIDE DEF r
  <2>6. call[c].now <= run[c][j].started
    BY <1>4 DEF CoreInv, OutcomeTimesOrdered, LoadReturns, Pc, ActivePc
  <2>7. /\ call[c].now <= r.started /\ r.started <= r.finished
        /\ r.pc \in ActivePc \ {"claimed"} /\ r.pc # "persist_failure"
        /\ r.adapter \in AdapterStates /\ r.status = StatusForPayload(r.adapter)
    BY <2>2, <2>4, <2>6 DEF ActivePc
  <2> QED
    BY <2>4, <2>5, <2>7, CoroutineStep
<1>5. ASSUME NEW status \in {"TIMED_OUT", "FAILED"}, LoadFails(c, j, status)
      PROVE  CoreInv'
  <2>1. PICK t \in SafeClockNotBefore(run[c][j].started) :
          Advance(c, j, [run[c][j] EXCEPT !.pc = "persist_failure", !.status = status,
                                          !.adapter = "DOWN", !.finished = t])
    BY <1>5 DEF LoadFails
  <2> DEFINE r == [run[c][j] EXCEPT !.pc = "persist_failure", !.status = status,
                                    !.adapter = "DOWN", !.finished = t]
  <2>2. t \in Int /\ run[c][j].started <= t
    BY <1>1, ClockTyping
  <2>3. /\ r \in Run /\ r.pc = "persist_failure" /\ r.id = run[c][j].id
        /\ r.started = run[c][j].started /\ r.finished = t
        /\ r.status = status /\ r.adapter = "DOWN"
    BY <1>1, <2>2 DEF Run, Pc, ActivePc, Statuses, AdapterStates
  <2>4. /\ run' = [run EXCEPT ![c][j] = r] /\ Active(c, j)
        /\ UNCHANGED <<clock, next_run_at, in_flight, call, runs, claimed_at>>
        /\ rows' \in SUBSET Row
    BY <1>1, <1>5, <2>1 DEF LoadFails, Advance, Active, ActivePc, TypeOK
  <2> HIDE DEF r
  <2>5. call[c].now <= run[c][j].started
    BY <1>5 DEF CoreInv, OutcomeTimesOrdered, LoadFails, Pc, ActivePc
  <2>6. /\ call[c].now <= r.started /\ r.started <= r.finished
        /\ r.pc \in ActivePc \ {"claimed"} /\ r.pc # "persist_payload"
        /\ r.status \in {"FAILED", "TIMED_OUT"}
    BY <2>2, <2>3, <2>5 DEF ActivePc
  <2> QED
    BY <2>3, <2>4, <2>6, CoroutineStep
<1>6. ASSUME Storing(c, j)
      PROVE  /\ Active(c, j) /\ RowsOf(j, run[c][j]) \subseteq Row
             /\ call[c].now <= run[c][j].started
             /\ run[c][j].started <= run[c][j].finished
             /\ run[c][j].status \in Statuses
  <2>1. run[c][j].status \in Statuses /\ run[c][j].adapter # "NONE"
    BY <1>6 DEF CoreInv, Shape, Storing, AdapterStates, StatusForPayload, Statuses
  <2>2. RowsOf(j, run[c][j]) \subseteq Row
    BY <1>1, <2>1, RowTyping DEF Statuses
  <2> QED
    BY <1>6, <2>1, <2>2 DEF CoreInv, OutcomeTimesOrdered, Storing, Active, Pc, ActivePc
<1>7. CASE StoreCommits(c, j)
  <2> DEFINE r == [run[c][j] EXCEPT !.pc = "releasing"]
  <2>1. /\ r \in Run /\ r.pc = "releasing" /\ r.id = run[c][j].id
        /\ r.started = run[c][j].started /\ r.finished = run[c][j].finished
        /\ r.status = run[c][j].status
    BY <1>1 DEF Run, Pc, ActivePc
  <2>2. /\ run' = [run EXCEPT ![c][j] = r]
        /\ UNCHANGED <<clock, next_run_at, in_flight, call, runs, claimed_at>>
    BY <1>7 DEF StoreCommits
  <2> HIDE DEF r
  <2>3. Active(c, j) /\ rows' \in SUBSET Row
    BY <1>1, <1>6, <1>7 DEF StoreCommits, TypeOK
  <2>4. /\ call[c].now <= r.started /\ r.started <= r.finished
        /\ r.pc \in ActivePc \ {"claimed"} /\ r.status \in Statuses
    BY <1>6, <1>7, <2>1 DEF StoreCommits, ActivePc
  <2> QED
    BY <2>1, <2>2, <2>3, <2>4, CoroutineStep
<1>8. ASSUME NEW committed \in BOOLEAN, StoreRaises(c, j, committed)
      PROVE  CoreInv'
  <2>1. PICK t \in SafeClockNotBefore(run[c][j].finished) :
          run' = [run EXCEPT ![c][j].pc = "releasing", ![c][j].finished = t,
                             ![c][j].status = "PERSISTENCE_FAILED"]
    BY <1>8 DEF StoreRaises
  <2> DEFINE r == [run[c][j] EXCEPT !.pc = "releasing", !.finished = t,
                                    !.status = "PERSISTENCE_FAILED"]
  <2>2. t \in Int /\ run[c][j].finished <= t
    BY <1>1, ClockTyping
  <2>3. /\ r \in Run /\ r.pc = "releasing" /\ r.id = run[c][j].id
        /\ r.started = run[c][j].started /\ r.finished = t
        /\ r.status \in Statuses
    BY <1>1, <2>2 DEF Run, Pc, ActivePc, Statuses
  <2>4. run' = [run EXCEPT ![c][j] = r]
    BY <1>1, <2>1 DEF TypeOK
  <2> HIDE DEF r
  <2>5. /\ UNCHANGED <<clock, next_run_at, in_flight, call, runs, claimed_at>>
        /\ Active(c, j) /\ rows' \in SUBSET Row
    BY <1>1, <1>6, <1>8 DEF StoreRaises, TypeOK
  <2>6. /\ call[c].now <= r.started /\ r.started <= r.finished
        /\ r.pc \in ActivePc \ {"claimed"}
    BY <1>1, <1>6, <1>8, <2>2, <2>3 DEF StoreRaises, ActivePc
  <2> QED
    BY <2>3, <2>4, <2>5, <2>6, CoroutineStep
<1> QED
  BY <1>2, <1>3, <1>4, <1>5, <1>7, <1>8, ReleaseStep DEF JobStep

\* The empty schedule of a fresh process.
LEMMA InitIsCore ==
    ASSUME Init
    PROVE  CoreInv
<1>1. TypeOK
  BY RunTyping, ScheduleAssumption DEF Init, TypeOK, NoCall
<1>2. \A c \in Callers, j \in Jobs : run[c][j] = Idle /\ ~Active(c, j)
  BY DEF Init, Active, ActivePc, Idle
<1>3. JobExclusion /\ InFlightIsActive
  BY <1>2 DEF JobExclusion, InFlightIsActive, Init
<1>4. CallGathersItsJobs /\ OutcomeTimesOrdered /\ Shape
  BY <1>2 DEF CallGathersItsJobs, OutcomeTimesOrdered, Shape, Init, Idle, NoCall
<1> QED
  BY <1>1, <1>3, <1>4 DEF CoreInv

\* The inductive invariant, for every number of jobs and callers.
THEOREM CoreCorrect == Spec => []CoreInv
<1>1. Init => CoreInv
  BY InitIsCore
<1>2. CoreInv /\ [Next]_vars => CoreInv'
  <2> SUFFICES ASSUME CoreInv, [Next]_vars PROVE CoreInv'
    OBVIOUS
  <2>1. CASE Tick \/ ClockStepsBack
    BY <2>1 DEF Tick, ClockStepsBack, CoreInv, TypeOK, JobExclusion, InFlightIsActive,
                CallGathersItsJobs, OutcomeTimesOrdered, Shape, Active
  <2>2. CASE \E c \in Callers : RunDue(c)
    BY <2>2, RunDueStep
  <2>3. CASE \E c \in Callers, j \in Jobs : JobStep(c, j)
    BY <2>3, JobStepStep
  <2>4. CASE \E c \in Callers : Return(c)
    BY <2>4, ReturnStep
  <2>5. CASE UNCHANGED vars
    BY <2>5 DEF vars, CoreInv, TypeOK, JobExclusion, InFlightIsActive,
                CallGathersItsJobs, OutcomeTimesOrdered, Shape, Active
  <2> QED
    BY <2>1, <2>2, <2>3, <2>4, <2>5 DEF Next
<1> QED
  BY <1>1, <1>2, PTL DEF Spec

\* The type invariant of the scheduler.
THEOREM TypeCorrect == Spec => []TypeOK
BY CoreCorrect, PTL DEF CoreInv

\* Overlapping calls of run_due never run one job twice at a time.
THEOREM ExclusionCorrect == Spec => []JobExclusion
BY CoreCorrect, PTL DEF CoreInv

\* _in_flight is exactly the set of running jobs: no path leaks an entry.
THEOREM InFlightCorrect == Spec => []InFlightIsActive
BY CoreCorrect, PTL DEF CoreInv

\* scheduled <= started <= finished, however the wall clock steps back.
THEOREM TimesCorrect == Spec => []OutcomeTimesOrdered
BY CoreCorrect, PTL DEF CoreInv

----------------------------------------------------------------------------
(* The cadence of the claims. *)

NextFollowsClaim ==
    \A j \in Jobs : claimed_at[j] # None => next_run_at[j] = claimed_at[j] + Interval[j]

\* Two claims of a job are at least its interval apart.
THEOREM CadenceCorrect == Spec => ClaimsSpaced
<1> DEFINE Spaced == \A j \in Jobs : runs'[j] # runs[j] /\ claimed_at[j] # None
                        => claimed_at'[j] >= claimed_at[j] + Interval[j]
<1>1. Init => NextFollowsClaim
  BY DEF Init, NextFollowsClaim
<1>2. ASSUME TypeOK, NextFollowsClaim, NEW c \in Callers, RunDue(c)
      PROVE  NextFollowsClaim' /\ Spaced
  <2> SUFFICES ASSUME NEW j \in Jobs
               PROVE  /\ claimed_at'[j] # None
                            => next_run_at'[j] = claimed_at'[j] + Interval[j]
                      /\ runs'[j] # runs[j] /\ claimed_at[j] # None
                            => claimed_at'[j] >= claimed_at[j] + Interval[j]
    BY DEF NextFollowsClaim
  <2>1. CASE j \in DueJobs(clock)
    <3>1. claimed_at'[j] = clock /\ next_run_at'[j] = clock + Interval[j]
      BY <1>2, <2>1 DEF RunDue, NextRunAt
    <3>2. claimed_at[j] # None => next_run_at[j] = claimed_at[j] + Interval[j]
      BY <1>2 DEF NextFollowsClaim
    <3>3. claimed_at[j] # None => claimed_at[j] + Interval[j] <= clock
      BY <1>2, <2>1, <3>2, ScheduleAssumption DEF DueJobs, ScheduledAt, TypeOK
    <3> QED
      BY <1>2, <3>1, <3>3, ScheduleAssumption DEF TypeOK
  <2>2. CASE j \notin DueJobs(clock)
    <3>1. /\ claimed_at'[j] = claimed_at[j] /\ runs'[j] = runs[j]
          /\ next_run_at'[j] = ScheduledAt(j, clock)
      BY <1>2, <2>2 DEF RunDue, NextRunAt
    <3>2. claimed_at[j] # None => next_run_at[j] # None
      <4> SUFFICES ASSUME claimed_at[j] # None PROVE next_run_at[j] # None
        OBVIOUS
      <4>1. claimed_at[j] \in Int /\ Interval[j] \in Int
        BY <1>2, ScheduleAssumption DEF TypeOK
      <4>2. next_run_at[j] \in Int
        BY <1>2, <4>1 DEF NextFollowsClaim
      <4> QED
        BY <4>2, ScheduleAssumption
    <3> QED
      BY <1>2, <3>1, <3>2 DEF NextFollowsClaim, ScheduledAt
  <2> QED
    BY <2>1, <2>2
<1>3. ASSUME UNCHANGED <<next_run_at, runs, claimed_at>>, NextFollowsClaim
      PROVE  NextFollowsClaim' /\ Spaced
  BY <1>3 DEF NextFollowsClaim
<1>4. TypeOK /\ NextFollowsClaim /\ [Next]_vars => NextFollowsClaim' /\ [Spaced]_vars
  <2> SUFFICES ASSUME TypeOK, NextFollowsClaim, [Next]_vars
               PROVE  NextFollowsClaim' /\ Spaced
    OBVIOUS
  <2>1. CASE \E c \in Callers : RunDue(c)
    BY <2>1, <1>2
  <2>2. CASE ~ \E c \in Callers : RunDue(c)
    <3>1. CASE \E c \in Callers, j \in Jobs : JobStep(c, j)
      <4>1. PICK c \in Callers, j \in Jobs : JobStep(c, j)
        BY <3>1
      <4>2. UNCHANGED <<next_run_at, runs, claimed_at>>
        BY <4>1, Zenon DEF JobStep, StartLoad, StartRaises, LoadReturns, LoadFails,
                           Advance, StoreCommits, StoreRaises, Release
      <4> QED
        BY <4>2, <1>3
    <3>2. CASE \E c \in Callers : Return(c)
      BY <3>2, <1>3 DEF Return
    <3>3. CASE Tick \/ ClockStepsBack \/ UNCHANGED vars
      BY <3>3, <1>3 DEF Tick, ClockStepsBack, vars
    <3> QED
      BY <2>2, <3>1, <3>2, <3>3 DEF Next
  <2> QED
    BY <2>1, <2>2
<1>5. Spec => [][Spaced]_vars
  BY <1>1, <1>4, TypeCorrect, PTL DEF Spec
<1> QED
  BY <1>5 DEF ClaimsSpaced

----------------------------------------------------------------------------
(* The records of the runs. *)

\* The row s is of a run that was claimed, and whose store call is not still to
\* come.
PastRun(s) ==
    /\ s.run <= runs[s.job]
    /\ \A c \in Callers :
         Active(c, s.job) /\ run[c][s.job].pc # "releasing" => s.run < runs[s.job]

\* The table A holds all the rows of a run or none.
Whole(A) == \A q \in A : OneTransaction({s \in A : s.job = q.job /\ s.run = q.run})

RecordsInv ==
    /\ \A s \in rows : PastRun(s)
    /\ Whole(rows)
    /\ OutcomeIsStored

\* The rows of one transaction: one health row, one run row with the run's
\* status, and a snapshot only when the run succeeded.
LEMMA TransactionRows ==
    ASSUME CoreInv, NEW c \in Callers, NEW j \in Jobs, Storing(c, j)
    PROVE  LET R == RowsOf(j, run[c][j])
           IN /\ \A s \in R : s.job = j /\ s.run = run[c][j].id
              /\ \E w \in R : w.type = "worker_run" /\ w.state = run[c][j].status
              /\ OneTransaction(R)
<1> DEFINE r == run[c][j]
<1>1. CASE r.pc = "persist_payload"
  <2>1. r.status = StatusForPayload(r.adapter)
    BY <1>1 DEF CoreInv, Shape
  <2>2. RowsOf(j, r) = PayloadRows(j, r)
    BY <1>1 DEF RowsOf
  <2>3. /\ r.adapter = "OK" => r.status = "SUCCEEDED"
        /\ PayloadRecordType(j, r.adapter) \notin {"source_health", "worker_run"}
        /\ PayloadRecordType(j, r.adapter) \in SnapshotTypes => r.adapter = "OK"
    BY <2>1 DEF StatusForPayload, PayloadRecordType, SnapshotType, SnapshotTypes
  <2> HIDE DEF r
  <2>4. /\ \A s \in PayloadRows(j, r) : s.job = j /\ s.run = r.id
        /\ \E w \in PayloadRows(j, r) : w.type = "worker_run" /\ w.state = r.status
        /\ OneTransaction(PayloadRows(j, r))
    BY <2>3 DEF PayloadRows, NewRow, SnapshotTypes, OneTransaction
  <2> QED
    BY <2>2, <2>4 DEF r
<1>2. CASE r.pc = "persist_failure"
  <2>1. RowsOf(j, r) = FailureRows(j, r)
    BY <1>2 DEF RowsOf
  <2> HIDE DEF r
  <2>2. /\ \A s \in FailureRows(j, r) : s.job = j /\ s.run = r.id
        /\ \E w \in FailureRows(j, r) : w.type = "worker_run" /\ w.state = r.status
        /\ OneTransaction(FailureRows(j, r))
    BY DEF FailureRows, NewRow, SnapshotTypes, OneTransaction
  <2> QED
    BY <2>1, <2>2 DEF r
<1> QED
  BY <1>1, <1>2 DEF Storing

\* A transaction adds to a table the rows of a run that has none there.
LEMMA WholeAfterCommit ==
    ASSUME NEW A, Whole(A), NEW R, OneTransaction(R), NEW j, NEW n,
           \A s \in R : s.job = j /\ s.run = n,
           \A s \in A : ~(s.job = j /\ s.run = n)
    PROVE  Whole(A \cup R)
<1> SUFFICES ASSUME NEW q \in A \cup R
             PROVE  OneTransaction({s \in A \cup R : s.job = q.job /\ s.run = q.run})
  BY DEF Whole
<1>1. CASE q \in R
  <2>1. {s \in A \cup R : s.job = q.job /\ s.run = q.run} = R
    BY <1>1
  <2> QED
    BY <2>1
<1>2. CASE q \in A
  <2>1. {s \in A \cup R : s.job = q.job /\ s.run = q.run}
          = {s \in A : s.job = q.job /\ s.run = q.run}
    BY <1>2
  <2> QED
    BY <1>2, <2>1 DEF Whole
<1> QED
  BY <1>1, <1>2

\* A run that is about to be stored has no row among those of past runs.
LEMMA StoringIsNew ==
    ASSUME CoreInv, NEW c \in Callers, NEW j \in Jobs, Storing(c, j),
           NEW s, PastRun(s)
    PROVE  ~(s.job = j /\ s.run = run[c][j].id)
<1>1. /\ Active(c, j) /\ run[c][j].pc # "releasing"
      /\ run[c][j].id = runs[j] /\ runs[j] \in Nat
  BY DEF CoreInv, Shape, Storing, Active, ActivePc, TypeOK
<1> QED
  BY <1>1 DEF PastRun

\* What a step of _run_job can do to the rest of the process: move on before its
\* store call, end the store call with or without its rows, or leave through the
\* finally clause.
Moves(c, j, r) ==
    /\ run[c][j].pc \in {"claimed", "loading"}
    /\ r.pc \in {"loading", "persist_payload", "persist_failure"}
    /\ UNCHANGED <<rows, in_flight>>

EndsStore(c, j, r) ==
    /\ Storing(c, j) /\ r.pc = "releasing"
    /\ \/ /\ rows' = rows \cup RowsOf(j, run[c][j])
          /\ r.status \in {run[c][j].status, "PERSISTENCE_FAILED"}
       \/ rows' = rows /\ r.status = "PERSISTENCE_FAILED"
    /\ UNCHANGED in_flight

Leaves(c, j, r) ==
    /\ run[c][j].pc = "releasing" /\ r.pc = "done" /\ r.status = run[c][j].status
    /\ in_flight' = in_flight \ {j}
    /\ UNCHANGED rows

RunStep(c, j, r) ==
    /\ run' = [run EXCEPT ![c][j] = r] /\ r.id = run[c][j].id
    /\ UNCHANGED <<call, runs>>
    /\ Moves(c, j, r) \/ EndsStore(c, j, r) \/ Leaves(c, j, r)

\* Every step of _run_job is one of the three.
LEMMA JobStepEffect ==
    ASSUME CoreInv, NEW c \in Callers, NEW j \in Jobs, JobStep(c, j)
    PROVE  \E r \in Run : RunStep(c, j, r)
<1>1. /\ TypeOK /\ run[c][j] \in Run /\ call[c].now \in Int
      /\ run \in [Callers -> [Jobs -> Run]]
      /\ run[c][j].started \in Int /\ run[c][j].finished \in Int
  BY RunTyping DEF CoreInv, TypeOK
<1>2. ASSUME NEW r \in Run, Advance(c, j, r), run[c][j].pc \in {"claimed", "loading"},
             r.pc \in {"loading", "persist_payload", "persist_failure"},
             r.id = run[c][j].id
      PROVE  RunStep(c, j, r)
  BY <1>2 DEF Advance, RunStep, Moves
<1>3. CASE StartLoad(c, j)
  <2> DEFINE r == [run[c][j] EXCEPT !.pc = "loading",
                                    !.started = ClockNotBefore(call[c].now)]
  <2>1. r \in Run /\ r.pc = "loading" /\ r.id = run[c][j].id
    BY <1>1, ClockTyping DEF Run, Pc, ActivePc
  <2>2. Advance(c, j, r) /\ run[c][j].pc = "claimed"
    BY <1>3 DEF StartLoad
  <2> HIDE DEF r
  <2> QED
    BY <2>1, <2>2, <1>2
<1>4. CASE StartRaises(c, j)
  <2>1. PICK t \in SafeClockNotBefore(call[c].now) :
          Advance(c, j, [run[c][j] EXCEPT !.pc = "persist_failure", !.status = "FAILED",
                                          !.adapter = "DOWN", !.started = call[c].now,
                                          !.finished = t])
    BY <1>4 DEF StartRaises
  <2> DEFINE r == [run[c][j] EXCEPT !.pc = "persist_failure", !.status = "FAILED",
                                    !.adapter = "DOWN", !.started = call[c].now,
                                    !.finished = t]
  <2>2. t \in Int
    BY <1>1, ClockTyping
  <2>3. r \in Run /\ r.pc = "persist_failure" /\ r.id = run[c][j].id
    BY <1>1, <2>2 DEF Run, Pc, ActivePc, Statuses, AdapterStates
  <2>4. Advance(c, j, r) /\ run[c][j].pc = "claimed"
    BY <1>4, <2>1 DEF StartRaises
  <2> HIDE DEF r
  <2> QED
    BY <2>3, <2>4, <1>2
<1>5. ASSUME NEW adapter \in AdapterStates, LoadReturns(c, j, adapter)
      PROVE  \E r \in Run : RunStep(c, j, r)
  <2>1. PICK t \in SafeClockNotBefore(run[c][j].started) :
          Advance(c, j, [run[c][j] EXCEPT !.pc = "persist_payload",
                                          !.status = StatusForPayload(adapter),
                                          !.adapter = adapter, !.finished = t])
    BY <1>5 DEF LoadReturns
  <2> DEFINE r == [run[c][j] EXCEPT !.pc = "persist_payload",
                                    !.status = StatusForPayload(adapter),
                                    !.adapter = adapter, !.finished = t]
  <2>2. t \in Int /\ StatusForPayload(adapter) \in Statuses
    BY <1>1, ClockTyping DEF StatusForPayload, Statuses
  <2>3. r \in Run /\ r.pc = "persist_payload" /\ r.id = run[c][j].id
    BY <1>1, <2>2 DEF Run, Pc, ActivePc
  <2>4. Advance(c, j, r) /\ run[c][j].pc = "loading"
    BY <1>5, <2>1 DEF LoadReturns
  <2> HIDE DEF r
  <2> QED
    BY <2>3, <2>4, <1>2
<1>6. ASSUME NEW status \in {"TIMED_OUT", "FAILED"}, LoadFails(c, j, status)
      PROVE  \E r \in Run : RunStep(c, j, r)
  <2>1. PICK t \in SafeClockNotBefore(run[c][j].started) :
          Advance(c, j, [run[c][j] EXCEPT !.pc = "persist_failure", !.status = status,
                                          !.adapter = "DOWN", !.finished = t])
    BY <1>6 DEF LoadFails
  <2> DEFINE r == [run[c][j] EXCEPT !.pc = "persist_failure", !.status = status,
                                    !.adapter = "DOWN", !.finished = t]
  <2>2. t \in Int
    BY <1>1, ClockTyping
  <2>3. r \in Run /\ r.pc = "persist_failure" /\ r.id = run[c][j].id
    BY <1>1, <2>2 DEF Run, Pc, ActivePc, Statuses, AdapterStates
  <2>4. Advance(c, j, r) /\ run[c][j].pc = "loading"
    BY <1>6, <2>1 DEF LoadFails
  <2> HIDE DEF r
  <2> QED
    BY <2>3, <2>4, <1>2
<1>7. CASE StoreCommits(c, j)
  <2> DEFINE r == [run[c][j] EXCEPT !.pc = "releasing"]
  <2>1. r \in Run /\ r.pc = "releasing" /\ r.id = run[c][j].id
        /\ r.status = run[c][j].status
    BY <1>1 DEF Run, Pc, ActivePc
  <2>2. /\ run' = [run EXCEPT ![c][j] = r] /\ Storing(c, j)
        /\ rows' = rows \cup RowsOf(j, run[c][j])
        /\ UNCHANGED <<call, runs, in_flight>>
    BY <1>7 DEF StoreCommits
  <2> HIDE DEF r
  <2> QED
    BY <2>1, <2>2 DEF RunStep, EndsStore
<1>8. ASSUME NEW committed \in BOOLEAN, StoreRaises(c, j, committed)
      PROVE  \E r \in Run : RunStep(c, j, r)
  <2>1. PICK t \in SafeClockNotBefore(run[c][j].finished) :
          run' = [run EXCEPT ![c][j].pc = "releasing", ![c][j].finished = t,
                             ![c][j].status = "PERSISTENCE_FAILED"]
    BY <1>8 DEF StoreRaises
  <2> DEFINE r == [run[c][j] EXCEPT !.pc = "releasing", !.finished = t,
                                    !.status = "PERSISTENCE_FAILED"]
  <2>2. t \in Int
    BY <1>1, ClockTyping
  <2>3. r \in Run /\ r.pc = "releasing" /\ r.id = run[c][j].id
        /\ r.status = "PERSISTENCE_FAILED"
    BY <1>1, <2>2 DEF Run, Pc, ActivePc, Statuses
  <2>4. run' = [run EXCEPT ![c][j] = r]
    BY <1>1, <2>1
  <2>5. /\ Storing(c, j) /\ UNCHANGED <<call, runs, in_flight>>
        /\ rows' = rows \cup RowsOf(j, run[c][j]) \/ rows' = rows
    BY <1>8 DEF StoreRaises
  <2> HIDE DEF r
  <2> QED
    BY <2>3, <2>4, <2>5 DEF RunStep, EndsStore
<1>9. CASE Release(c, j)
  <2> DEFINE r == [run[c][j] EXCEPT !.pc = "done"]
  <2>1. r \in Run /\ r.pc = "done" /\ r.id = run[c][j].id /\ r.status = run[c][j].status
    BY <1>1 DEF Run, Pc
  <2>2. /\ run' = [run EXCEPT ![c][j] = r] /\ UNCHANGED <<call, rows, runs>>
        /\ run[c][j].pc = "releasing" /\ in_flight' = in_flight \ {j}
    BY <1>9 DEF Release
  <2> HIDE DEF r
  <2> QED
    BY <2>1, <2>2 DEF RunStep, Leaves
<1> QED
  BY <1>3, <1>4, <1>5, <1>6, <1>7, <1>8, <1>9 DEF JobStep

\* A claim leaves the rows of past runs rows of past runs.
LEMMA RunDueKeepsPast ==
    ASSUME CoreInv, NEW c \in Callers, RunDue(c), NEW s \in Row, PastRun(s)
    PROVE  PastRun(s)'
<1>1. /\ s.job \in Jobs /\ s.run \in Nat /\ runs[s.job] \in Nat
      /\ s.run <= runs[s.job]
  BY DEF Row, CoreInv, TypeOK, PastRun
<1>2. CASE s.job \in DueJobs(clock)
  <2>1. runs'[s.job] = runs[s.job] + 1
    BY <1>1, <1>2 DEF RunDue
  <2> QED
    BY <1>1, <2>1 DEF PastRun
<1>3. CASE s.job \notin DueJobs(clock)
  <2>1. /\ runs'[s.job] = runs[s.job] /\ run'[c][s.job] = Idle
        /\ \A d \in Callers \ {c} : run'[d] = run[d]
    BY <1>1, <1>3 DEF RunDue, CoreInv, TypeOK
  <2> QED
    BY <1>1, <2>1 DEF PastRun, Active, ActivePc, Idle
<1> QED
  BY <1>2, <1>3

\* A step of _run_job of any job leaves the rows of past runs rows of past runs.
LEMMA RunStepKeepsPast ==
    ASSUME CoreInv, NEW c \in Callers, NEW j \in Jobs, NEW r \in Run,
           RunStep(c, j, r), NEW s \in Row, PastRun(s)
    PROVE  PastRun(s)'
<1>1. /\ run'[c][j] = r /\ runs' = runs
      /\ \A d \in Callers, k \in Jobs : <<d, k>> # <<c, j>> => run'[d][k] = run[d][k]
  BY DEF RunStep, CoreInv, TypeOK
<1>2. \A d \in Callers, k \in Jobs :
        Active(d, k)' /\ run'[d][k].pc # "releasing"
          => Active(d, k) /\ run[d][k].pc # "releasing"
  BY <1>1 DEF RunStep, Moves, EndsStore, Leaves, Active, ActivePc
<1> QED
  BY <1>1, <1>2 DEF PastRun, Row

\* The rows that a store call commits are of a run that is over but for its release.
LEMMA CommittedIsPast ==
    ASSUME CoreInv, NEW c \in Callers, NEW j \in Jobs, NEW r \in Run,
           RunStep(c, j, r), EndsStore(c, j, r), NEW s \in RowsOf(j, run[c][j])
    PROVE  PastRun(s)'
<1>1. /\ run'[c][j] = r /\ runs' = runs
      /\ \A d \in Callers, k \in Jobs : <<d, k>> # <<c, j>> => run'[d][k] = run[d][k]
  BY DEF RunStep, CoreInv, TypeOK
<1>2. s.job = j /\ s.run = run[c][j].id /\ r.pc = "releasing" /\ Active(c, j)
  BY TransactionRows DEF EndsStore, Storing, Active, ActivePc
<1>3. run[c][j].id = runs[j] /\ runs[j] \in Nat
  BY <1>2 DEF CoreInv, Shape, TypeOK
<1>4. \A d \in Callers : Active(d, j)' => d = c
  BY <1>1, <1>2 DEF CoreInv, JobExclusion, Active
<1> QED
  BY <1>1, <1>2, <1>3, <1>4 DEF PastRun

\* The end of a gather leaves the rows of past runs rows of past runs.
LEMMA ReturnKeepsPast ==
    ASSUME CoreInv, NEW c \in Callers, Return(c), NEW s \in Row, PastRun(s)
    PROVE  PastRun(s)'
<1>1. /\ UNCHANGED runs /\ s.job \in Jobs /\ run'[c][s.job] = Idle
      /\ \A d \in Callers \ {c} : run'[d] = run[d]
  BY DEF Return, CoreInv, TypeOK, Row
<1> QED
  BY <1>1 DEF PastRun, Active, ActivePc, Idle

\* Every step of _run_job keeps the records of the runs whole.
LEMMA JobStepKeepsRecords ==
    ASSUME CoreInv, RecordsInv, NEW c \in Callers, NEW j \in Jobs, JobStep(c, j)
    PROVE  RecordsInv'
<1>1. PICK r \in Run : RunStep(c, j, r)
  BY JobStepEffect
<1>2. /\ run'[c][j] = r /\ r.id = run[c][j].id
      /\ \A d \in Callers, k \in Jobs : <<d, k>> # <<c, j>> => run'[d][k] = run[d][k]
  BY <1>1 DEF RunStep, CoreInv, TypeOK
<1>3. rows' \in SUBSET Row
  BY JobStepStep DEF CoreInv, TypeOK
<1>4. CASE rows' = rows
  <2>1. ASSUME NEW s \in rows' PROVE PastRun(s)'
    <3>1. s \in Row /\ PastRun(s)
      BY <1>3, <1>4, <2>1 DEF RecordsInv
    <3> QED
      BY <1>1, <3>1, RunStepKeepsPast
  <2>2. Whole(rows)'
    BY <1>4 DEF RecordsInv, Whole
  <2>3. OutcomeIsStored'
    <3>1. r.pc \in {"releasing", "done"} /\ r.status # "PERSISTENCE_FAILED"
            => \E s \in rows' : /\ s.type = "worker_run" /\ s.job = j
                                /\ s.run = r.id /\ s.state = r.status
      <4>1. CASE Moves(c, j, r)
        BY <4>1 DEF Moves
      <4>2. CASE EndsStore(c, j, r)
        BY <1>2, <4>2, TransactionRows DEF EndsStore
      <4>3. CASE Leaves(c, j, r)
        BY <1>2, <1>4, <4>3 DEF Leaves, RecordsInv, OutcomeIsStored
      <4> QED
        BY <1>1, <4>1, <4>2, <4>3 DEF RunStep
    <3> QED
      BY <1>2, <1>4, <3>1 DEF RecordsInv, OutcomeIsStored
  <2> QED
    BY <2>1, <2>2, <2>3 DEF RecordsInv
<1>5. CASE rows' # rows
  <2> DEFINE R == RowsOf(j, run[c][j])
  <2>1. /\ EndsStore(c, j, r) /\ Storing(c, j) /\ rows' = rows \cup R
        /\ r.status \in {run[c][j].status, "PERSISTENCE_FAILED"}
    BY <1>1, <1>5 DEF RunStep, Moves, Leaves, EndsStore
  <2>2. ASSUME NEW s \in rows' PROVE PastRun(s)'
    <3>1. CASE s \in rows
      <4>1. s \in Row /\ PastRun(s)
        BY <3>1 DEF CoreInv, TypeOK, RecordsInv
      <4> QED
        BY <1>1, <4>1, RunStepKeepsPast
    <3>2. CASE s \in R
      BY <1>1, <2>1, <3>2, CommittedIsPast
    <3> QED
      BY <2>1, <2>2, <3>1, <3>2
  <2>3. Whole(rows)'
    <3>1. \A s \in rows : ~(s.job = j /\ s.run = run[c][j].id)
      BY <2>1, StoringIsNew DEF RecordsInv
    <3>2. (\A s \in R : s.job = j /\ s.run = run[c][j].id) /\ OneTransaction(R)
      BY <2>1, TransactionRows
    <3> HIDE DEF R
    <3>3. Whole(rows \cup R)
      BY <3>1, <3>2, WholeAfterCommit DEF RecordsInv
    <3> QED
      BY <2>1, <3>3 DEF Whole
  <2>4. OutcomeIsStored'
    <3>1. \E w \in R : /\ w.type = "worker_run" /\ w.state = run[c][j].status
                       /\ w.job = j /\ w.run = run[c][j].id
      BY <2>1, TransactionRows
    <3> QED
      BY <1>2, <2>1, <3>1 DEF RecordsInv, OutcomeIsStored
  <2> QED
    BY <2>2, <2>3, <2>4 DEF RecordsInv
<1> QED
  BY <1>4, <1>5

\* The records of the runs, with the invariant that makes them inductive.
THEOREM RecordsCorrect == Spec => []RecordsInv
<1>1. Init => RecordsInv
  BY DEF Init, RecordsInv, Whole, OutcomeIsStored, Idle
<1>2. CoreInv /\ RecordsInv /\ [Next]_vars => RecordsInv'
  <2> SUFFICES ASSUME CoreInv, RecordsInv, [Next]_vars PROVE RecordsInv'
    OBVIOUS
  <2>1. rows \in SUBSET Row
    BY DEF CoreInv, TypeOK
  <2>2. ASSUME NEW c \in Callers, RunDue(c) PROVE RecordsInv'
    <3>1. /\ rows' = rows
          /\ \A d \in Callers \ {c} : run'[d] = run[d]
          /\ \A j \in DueJobs(clock) : run'[c][j] = Claimed(runs[j] + 1)
          /\ \A j \in Jobs \ DueJobs(clock) : run'[c][j] = Idle
      BY <2>2 DEF RunDue, CoreInv, TypeOK, DueJobs
    <3>2. \A s \in rows' : PastRun(s)'
      BY <2>1, <2>2, <3>1, RunDueKeepsPast DEF RecordsInv
    <3>3. Whole(rows)'
      BY <3>1 DEF RecordsInv, Whole
    <3>4. OutcomeIsStored'
      <4>1. \A j \in Jobs : run'[c][j].pc \notin {"releasing", "done"}
        <5>1. \A n : Claimed(n).pc = "claimed" /\ Idle.pc = "none"
          BY DEF Claimed, Idle
        <5> QED
          BY <3>1, <5>1
      <4> QED
        BY <3>1, <4>1 DEF RecordsInv, OutcomeIsStored
    <3> QED
      BY <3>2, <3>3, <3>4 DEF RecordsInv
  <2>3. ASSUME NEW c \in Callers, Return(c) PROVE RecordsInv'
    <3>1. /\ UNCHANGED <<rows, runs>>
          /\ \A d \in Callers \ {c} : run'[d] = run[d]
          /\ \A j \in Jobs : run'[c][j] = Idle
      BY <2>3 DEF Return, CoreInv, TypeOK
    <3>2. \A s \in rows' : PastRun(s)'
      BY <2>1, <2>3, <3>1, ReturnKeepsPast DEF RecordsInv
    <3>3. Whole(rows)'
      BY <3>1 DEF RecordsInv, Whole
    <3>4. OutcomeIsStored'
      BY <3>1 DEF RecordsInv, OutcomeIsStored, Idle
    <3> QED
      BY <3>2, <3>3, <3>4 DEF RecordsInv
  <2>4. CASE UNCHANGED <<run, rows, runs>>
    BY <2>4 DEF RecordsInv, PastRun, Whole, OutcomeIsStored, Active
  <2>5. CASE Tick \/ ClockStepsBack \/ UNCHANGED vars
    BY <2>4, <2>5 DEF Tick, ClockStepsBack, vars
  <2> QED
    BY <2>2, <2>3, <2>5, JobStepKeepsRecords DEF Next
<1> QED
  BY <1>1, <1>2, CoreCorrect, PTL DEF Spec

\* Every run is recorded once, as a whole, by one path of the store.
THEOREM RecordedOnceCorrect == Spec => []RunRecordedOnce
<1>1. RecordsInv => RunRecordedOnce
  BY DEF RecordsInv, Whole, RunRecordedOnce
<1> QED
  BY <1>1, RecordsCorrect, PTL

\* run_due reports a status other than PERSISTENCE_FAILED only of a run
\* whose worker_run row carries it.
THEOREM OutcomeCorrect == Spec => []OutcomeIsStored
BY RecordsCorrect, PTL DEF RecordsInv
----------------------------------------------------------------------------
(* RuntimeOrchestrator implements JobScheduler: every step of run_due, of    *)
(* _run_job and of the store is a step of the abstract scheduler or leaves   *)
(* its state alone.                                                          *)

\* The runtime is in a state that its invariants describe.
RuntimeInv == CoreInv /\ RecordsInv

\* Of the rows of one transaction exactly one is a worker_run row, with the
\* number and the status of the run: a commit records one run.
LEMMA CommitRecords ==
    ASSUME CoreInv, NEW c \in Callers, NEW j \in Jobs, Storing(c, j),
           rows' = rows \cup RowsOf(j, run[c][j])
    PROVE  RecordedRuns' = RecordedRuns \cup
              {[job |-> j, run |-> run[c][j].id, status |-> run[c][j].status]}
<1> DEFINE r == run[c][j]
           w == NewRow("worker_run", j, r, r.status)
           R == RowsOf(j, r)
<1>1. {s \in R : s.type = "worker_run"} = {w}
  BY DEF RowsOf, PayloadRows, FailureRows, NewRow, PayloadRecordType, SnapshotType
<1>2. w.job = j /\ w.run = r.id /\ w.state = r.status
  BY DEF NewRow
<1> HIDE DEF w, R
<1>3. {s \in rows' : s.type = "worker_run"} = {s \in rows : s.type = "worker_run"} \cup {w}
  BY <1>1 DEF R
<1> QED
  BY <1>2, <1>3 DEF RecordedRuns

\* A coroutine that has not returned before a step and not after it has no
\* outcome to wait with.
LEMMA SameOutcomes ==
    ASSUME TypeOK, NEW c \in Callers, NEW j \in Jobs, NEW r \in Run,
           run' = [run EXCEPT ![c][j] = r], run[c][j].pc # "done", r.pc # "done"
    PROVE  WaitingOutcomes' = WaitingOutcomes
<1>1. \A d \in Callers, k \in Jobs :
        \/ run'[d][k] = run[d][k]
        \/ d = c /\ k = j /\ run'[d][k].pc # "done" /\ run[d][k].pc # "done"
  BY DEF TypeOK
<1>2. \A d \in Callers : OutcomesOf(d)' = OutcomesOf(d)
  BY <1>1 DEF OutcomesOf
<1> QED
  BY <1>2 DEF WaitingOutcomes

\* A step of _run_job before its finally clause that commits nothing leaves the
\* abstract scheduler alone.
LEMMA SilentStutter ==
    ASSUME TypeOK, NEW c \in Callers, NEW j \in Jobs, NEW r \in Run,
           run' = [run EXCEPT ![c][j] = r], run[c][j].pc # "done", r.pc # "done",
           UNCHANGED <<rows, runs, in_flight>>
    PROVE  UNCHANGED Scheduler!vars
<1>1. WaitingOutcomes' = WaitingOutcomes
  BY SameOutcomes
<1>2. RecordedRuns' = RecordedRuns
  BY DEF RecordedRuns
<1> QED
  BY <1>1, <1>2 DEF Scheduler!vars

\* run_due claims jobs that are not running, or none.
LEMMA RunDueClaims ==
    ASSUME RuntimeInv, NEW c \in Callers, RunDue(c)
    PROVE  [Scheduler!Next]_(Scheduler!vars)
<1> DEFINE S == DueJobs(clock)
<1>1. S \subseteq Jobs /\ S \cap in_flight = {}
  BY DEF DueJobs
<1>2. /\ in_flight' = in_flight \cup S
      /\ runs' = [j \in Jobs |-> IF j \in S THEN runs[j] + 1 ELSE runs[j]]
      /\ rows' = rows
  BY DEF RunDue
<1>3. RecordedRuns' = RecordedRuns
  BY <1>2 DEF RecordedRuns
<1>4. \A j \in Jobs : run[c][j].pc = "none"
  BY DEF RunDue, RuntimeInv, CoreInv, CallGathersItsJobs, TypeOK
<1>5. /\ \A d \in Callers \ {c} : run'[d] = run[d]
      /\ \A j \in S : run'[c][j] = Claimed(runs[j] + 1)
      /\ \A j \in Jobs \ S : run'[c][j] = Idle
  BY <1>1 DEF RunDue, RuntimeInv, CoreInv, TypeOK
<1> HIDE DEF S
<1>6. \A j \in Jobs : run'[c][j].pc # "done"
  <2> TAKE j \in Jobs
  <2>1. CASE j \in S
    <3>1. run'[c][j] = Claimed(runs[j] + 1)
      BY <1>5, <2>1
    <3> QED
      BY <3>1 DEF Claimed
  <2>2. CASE j \notin S
    BY <1>5, <2>2 DEF Idle
  <2> QED
    BY <2>1, <2>2
<1>7. WaitingOutcomes' = WaitingOutcomes
  <2>1. \A d \in Callers : OutcomesOf(d)' = OutcomesOf(d)
    BY <1>4, <1>5, <1>6 DEF OutcomesOf
  <2> QED
    BY <2>1 DEF WaitingOutcomes
<1>8. CASE S = {}
  <2>1. runs' = runs
    BY <1>2, <1>8 DEF RuntimeInv, CoreInv, TypeOK
  <2> QED
    BY <1>2, <1>3, <1>7, <1>8, <2>1 DEF Scheduler!vars
<1>9. CASE S # {}
  <2>1. Scheduler!Claim(S)
    BY <1>1, <1>2, <1>3, <1>7, <1>9 DEF Scheduler!Claim
  <2> QED
    BY <1>1, <2>1 DEF Scheduler!Next
<1> QED
  BY <1>8, <1>9

\* A commit of the store records a running run that has no record yet.
LEMMA CommitIsRecord ==
    ASSUME RuntimeInv, NEW c \in Callers, NEW j \in Jobs, NEW r \in Run, Storing(c, j),
           rows' = rows \cup RowsOf(j, run[c][j]), UNCHANGED <<runs, in_flight>>,
           run' = [run EXCEPT ![c][j] = r], r.pc = "releasing"
    PROVE  Scheduler!Next
<1> DEFINE status == run[c][j].status
<1>1. /\ Active(c, j) /\ run[c][j].id = runs[j]
      /\ status \in Statuses
  BY DEF Storing, Active, ActivePc, RuntimeInv, CoreInv, Shape, StatusForPayload, Statuses
<1>2. j \in in_flight
  BY <1>1 DEF RuntimeInv, CoreInv, InFlightIsActive
<1>3. \A s \in rows : ~(s.job = j /\ s.run = runs[j])
  BY <1>1, StoringIsNew DEF RuntimeInv, RecordsInv
<1>4. \A q \in RecordedRuns : q.job = j => q.run # runs[j]
  BY <1>3 DEF RecordedRuns
<1>5. RecordedRuns' = RecordedRuns \cup {Scheduler!Outcome(j, status)}
  BY <1>1, CommitRecords DEF RuntimeInv, Scheduler!Outcome
<1>6. WaitingOutcomes' = WaitingOutcomes
  <2>1. run[c][j].pc # "done" /\ r.pc # "done" /\ TypeOK
    BY DEF Storing, RuntimeInv, CoreInv
  <2> QED
    BY <2>1, SameOutcomes
<1>7. Scheduler!Record(j, status)
  BY <1>2, <1>4, <1>5, <1>6 DEF Scheduler!Record
<1> QED
  BY <1>1, <1>7 DEF Scheduler!Next

\* The finally clause ends a run with the status that was recorded, or with
\* PERSISTENCE_FAILED.
LEMMA ReleaseIsFinish ==
    ASSUME RuntimeInv, NEW c \in Callers, NEW j \in Jobs, NEW r \in Run,
           RunStep(c, j, r), Leaves(c, j, r)
    PROVE  Scheduler!Next
<1> DEFINE status == run[c][j].status
           o == [job |-> j, run |-> run[c][j].id, status |-> status]
<1>1. /\ run \in [Callers -> [Jobs -> Run]] /\ run[c][j] \in Run
      /\ run[c][j].pc = "releasing" /\ Active(c, j)
      /\ run' = [run EXCEPT ![c][j] = r]
      /\ in_flight' = in_flight \ {j} /\ UNCHANGED <<rows, runs>>
  BY DEF RunStep, Leaves, RuntimeInv, CoreInv, TypeOK, Active, ActivePc
<1>2. run[c][j].id = runs[j] /\ j \in in_flight
  BY <1>1 DEF RuntimeInv, CoreInv, Shape, InFlightIsActive
<1>3. status = "PERSISTENCE_FAILED" \/ o \in RecordedRuns
  <2> SUFFICES ASSUME status # "PERSISTENCE_FAILED" PROVE o \in RecordedRuns
    OBVIOUS
  <2>1. PICK s \in rows : /\ s.type = "worker_run" /\ s.job = j
                          /\ s.run = run[c][j].id /\ s.state = status
    BY <1>1 DEF RuntimeInv, RecordsInv, OutcomeIsStored
  <2> QED
    BY <2>1 DEF RecordedRuns
<1>4. status \in Statuses
  BY <1>1 DEF RuntimeInv, CoreInv, Shape
<1>5. /\ run'[c][j].pc = "done" /\ run'[c][j].id = run[c][j].id
      /\ run'[c][j].status = status
      /\ \A d \in Callers, k \in Jobs : <<d, k>> # <<c, j>> => run'[d][k] = run[d][k]
  BY <1>1 DEF RunStep, Leaves
<1>6. WaitingOutcomes' = WaitingOutcomes \cup {o}
  <2>1. \A d \in Callers \ {c} : OutcomesOf(d)' = OutcomesOf(d)
    BY <1>5 DEF OutcomesOf
  <2>2. OutcomesOf(c)' = OutcomesOf(c) \cup {o}
    BY <1>1, <1>5 DEF OutcomesOf
  <2> HIDE DEF o
  <2> QED
    BY <2>1, <2>2 DEF WaitingOutcomes
<1>7. RecordedRuns' = RecordedRuns
  BY <1>1 DEF RecordedRuns
<1>8. o = Scheduler!Outcome(j, status)
  BY <1>2 DEF Scheduler!Outcome
<1> HIDE DEF o, status
<1>9. Scheduler!Finish(j, status)
  BY <1>1, <1>2, <1>3, <1>6, <1>7, <1>8 DEF Scheduler!Finish
<1> QED
  BY <1>4, <1>9 DEF Scheduler!Next

\* The end of a gather gives its caller the outcomes of the gathered jobs.
LEMMA ReturnDelivers ==
    ASSUME RuntimeInv, NEW c \in Callers, Return(c)
    PROVE  [Scheduler!Next]_(Scheduler!vars)
<1>1. /\ UNCHANGED <<in_flight, rows, runs>>
      /\ \A d \in Callers \ {c} : run'[d] = run[d]
      /\ \A j \in Jobs : run'[c][j] = Idle
  BY DEF Return, RuntimeInv, CoreInv, TypeOK
<1>2. RecordedRuns' = RecordedRuns
  BY <1>1 DEF RecordedRuns
<1>3. WaitingOutcomes' \subseteq WaitingOutcomes
  <2>1. \A d \in Callers \ {c} : OutcomesOf(d)' = OutcomesOf(d)
    BY <1>1 DEF OutcomesOf
  <2>2. OutcomesOf(c)' = {}
    BY <1>1 DEF OutcomesOf, Idle
  <2> QED
    BY <2>1, <2>2 DEF WaitingOutcomes
<1> DEFINE given == WaitingOutcomes \ WaitingOutcomes'
<1>4. given \in SUBSET WaitingOutcomes /\ WaitingOutcomes' = WaitingOutcomes \ given
  BY <1>3
<1> HIDE DEF given
<1>5. CASE given = {}
  BY <1>1, <1>2, <1>4, <1>5 DEF Scheduler!vars
<1>6. CASE given # {}
  <2>1. Scheduler!Deliver(given)
    BY <1>1, <1>2, <1>4, <1>6 DEF Scheduler!Deliver
  <2> QED
    BY <1>4, <2>1 DEF Scheduler!Next
<1> QED
  BY <1>5, <1>6
\* Every step of _run_job is a step of the abstract scheduler or a stutter.
LEMMA JobStepRefines ==
    ASSUME RuntimeInv, NEW c \in Callers, NEW j \in Jobs, JobStep(c, j)
    PROVE  [Scheduler!Next]_(Scheduler!vars)
<1>1. TypeOK
  BY DEF RuntimeInv, CoreInv
<1>2. PICK r \in Run : RunStep(c, j, r)
  BY JobStepEffect DEF RuntimeInv
<1>3. run' = [run EXCEPT ![c][j] = r] /\ UNCHANGED runs
  BY <1>2 DEF RunStep
<1>4. CASE Moves(c, j, r)
  BY <1>1, <1>3, <1>4, SilentStutter DEF Moves
<1>5. CASE EndsStore(c, j, r)
  <2>1. /\ Storing(c, j) /\ r.pc = "releasing" /\ run[c][j].pc # "done"
        /\ UNCHANGED in_flight
    BY <1>5 DEF EndsStore, Storing
  <2>2. CASE rows' = rows
    BY <1>1, <1>3, <2>1, <2>2, SilentStutter
  <2>3. CASE rows' = rows \cup RowsOf(j, run[c][j])
    BY <1>3, <2>1, <2>3, CommitIsRecord
  <2> QED
    BY <1>5, <2>2, <2>3 DEF EndsStore
<1>6. CASE Leaves(c, j, r)
  BY <1>2, <1>3, <1>6, ReleaseIsFinish
<1> QED
  BY <1>2, <1>4, <1>5, <1>6 DEF RunStep

\* run_due and its coroutines implement the abstract scheduler: no job beside
\* itself, one record of a run, and outcomes that agree with the record.
THEOREM SchedulerRefinement == Spec => ImplementsJobScheduler
<1>1. Init => Scheduler!Init
  <2> SUFFICES ASSUME Init PROVE Scheduler!Init
    OBVIOUS
  <2>1. RecordedRuns = {}
    BY DEF Init, RecordedRuns
  <2>2. \A c \in Callers : OutcomesOf(c) = {}
    BY DEF Init, OutcomesOf, Idle
  <2>3. WaitingOutcomes = {}
    BY <2>2 DEF WaitingOutcomes
  <2> QED
    BY <2>1, <2>3 DEF Init, Scheduler!Init
<1>2. RuntimeInv /\ [Next]_vars => [Scheduler!Next]_(Scheduler!vars)
  <2> SUFFICES ASSUME RuntimeInv, [Next]_vars PROVE [Scheduler!Next]_(Scheduler!vars)
    OBVIOUS
  <2>1. CASE Tick \/ ClockStepsBack \/ UNCHANGED vars
    <3>1. UNCHANGED <<in_flight, run, rows, runs>>
      BY <2>1 DEF Tick, ClockStepsBack, vars
    <3> QED
      BY <3>1 DEF Scheduler!vars, RecordedRuns, WaitingOutcomes, OutcomesOf
  <2>2. CASE \E c \in Callers : RunDue(c)
    BY <2>2, RunDueClaims
  <2>3. CASE \E c \in Callers, j \in Jobs : JobStep(c, j)
    BY <2>3, JobStepRefines
  <2>4. CASE \E c \in Callers : Return(c)
    BY <2>4, ReturnDelivers
  <2> QED
    BY <2>1, <2>2, <2>3, <2>4 DEF Next
<1>3. Spec => []RuntimeInv
  BY CoreCorrect, RecordsCorrect, PTL DEF RuntimeInv
<1>4. Spec => Scheduler!Init /\ [][Scheduler!Next]_(Scheduler!vars)
  BY <1>1, <1>2, <1>3, PTL DEF Spec
<1> QED
  BY <1>4 DEF ImplementsJobScheduler, Scheduler!SafetySpec
----------------------------------------------------------------------------
(* The process: what the scheduler keeps true survives the worker's own       *)
(* steps, and outside of the gather no call of run_due is open.               *)

ProcessInv ==
    /\ CoreInv
    /\ phase \in Phases
    /\ phase # "gather" => call[supervisor].due = {}

\* A crash takes the coroutines, the in-flight set and the schedule with it.
LEMMA CrashKeepsProcess ==
    ASSUME ProcessInv, Crash
    PROVE  ProcessInv'
<1>1. /\ phase' = "dead" /\ in_flight' = {}
      /\ next_run_at' = [j \in Jobs |-> None] /\ claimed_at' = [j \in Jobs |-> None]
      /\ call' = [c \in Callers |-> NoCall]
      /\ run' = [c \in Callers |-> [j \in Jobs |-> Idle]]
      /\ UNCHANGED <<clock, rows, runs>>
  BY DEF Crash
<1>2. TypeOK'
  BY <1>1, RunTyping, ScheduleAssumption DEF ProcessInv, CoreInv, TypeOK, NoCall
<1>3. \A c \in Callers, j \in Jobs : run'[c][j] = Idle /\ ~Active(c, j)'
  BY <1>1 DEF Active, ActivePc, Idle
<1>4. JobExclusion' /\ InFlightIsActive'
  BY <1>1, <1>3 DEF JobExclusion, InFlightIsActive
<1>5. CallGathersItsJobs' /\ OutcomeTimesOrdered' /\ Shape'
  BY <1>1, <1>3 DEF CallGathersItsJobs, OutcomeTimesOrdered, Shape, Idle, NoCall
<1>6. phase' \in Phases /\ call'[supervisor].due = {}
  BY <1>1, WorkerAssumption DEF Phases, NoCall
<1> QED
  BY <1>2, <1>4, <1>5, <1>6 DEF ProcessInv, CoreInv

\* A step that touches neither the schedule nor the coroutines, and deletes rows
\* at most.
LEMMA QuietKeepsCore ==
    ASSUME CoreInv, rows' \subseteq rows, clock' \in Int,
           UNCHANGED <<next_run_at, in_flight, call, run, runs, claimed_at>>
    PROVE  CoreInv'
BY DEF CoreInv, TypeOK, JobExclusion, InFlightIsActive, CallGathersItsJobs,
       OutcomeTimesOrdered, Shape, Active

\* Every step of the worker, the cycle, signals, crashes and restarts, keeps ProcessInv.
LEMMA ProcessStep ==
    ASSUME ProcessInv, [WorkerNext]_wvars
    PROVE  ProcessInv'
<1>0. CoreInv /\ TypeOK /\ clock \in Int /\ supervisor \in Callers
  BY WorkerAssumption DEF ProcessInv, CoreInv, TypeOK
<1>1. CASE Environment
  <2>1. UNCHANGED <<phase, call>> /\ CoreInv'
    BY <1>0, <1>1, QuietKeepsCore DEF Environment, Tick, ClockStepsBack
  <2> QED
    BY <2>1 DEF ProcessInv
<1>2. CASE Signal \/ Restart
  <2>1. UNCHANGED vars /\ (phase' = phase \/ (phase' = "cycle" /\ phase = "dead"))
    BY <1>2 DEF Signal, Restart
  <2>2. CoreInv'
    BY <1>0, <2>1, QuietKeepsCore DEF vars
  <2> QED
    BY <2>1, <2>2 DEF ProcessInv, vars, Phases
<1>3. CASE StartCycle
  <2>1. CoreInv'
    BY <1>0, <1>3, RunDueStep DEF StartCycle
  <2>2. phase' \in Phases
    BY <1>3 DEF StartCycle, PhaseAfterJobs, Phases
  <2>3. phase' # "gather" => call'[supervisor].due = {}
    BY <1>0, <1>3 DEF StartCycle, RunDue, TypeOK, NoCall
  <2> QED
    BY <2>1, <2>2, <2>3 DEF ProcessInv
<1>4. CASE \E j \in Jobs : JobRuns(j)
  <2>1. CoreInv' /\ UNCHANGED phase
    BY <1>0, <1>4, JobStepStep DEF JobRuns
  <2>2. phase = "gather"
    BY <1>4 DEF JobRuns
  <2> QED
    BY <2>1, <2>2 DEF ProcessInv, Phases
<1>5. CASE CycleObserves
  <2>1. CoreInv'
    BY <1>0, <1>5, ReturnStep DEF CycleObserves
  <2>2. phase' \in Phases
    BY <1>5 DEF CycleObserves, PhaseAfterJobs, Phases
  <2>3. call'[supervisor].due = {}
    BY <1>0, <1>5 DEF CycleObserves, Return, TypeOK, NoCall
  <2> QED
    BY <2>1, <2>2, <2>3 DEF ProcessInv
<1>6. CASE \E ok \in BOOLEAN : Cleanup(ok)
  <2>1. /\ rows' \subseteq rows /\ phase' = "wait" /\ phase = "clean"
        /\ UNCHANGED <<clock, next_run_at, in_flight, call, run, runs, claimed_at>>
    BY <1>6 DEF Cleanup
  <2>2. CoreInv'
    BY <1>0, <2>1, QuietKeepsCore
  <2> QED
    BY <2>1, <2>2 DEF ProcessInv, Phases
<1>7. CASE Wake \/ LeaveLoop \/ UNCHANGED wvars
  <2>1. UNCHANGED vars /\ (phase' = phase \/ phase' \in {"cycle", "exited"})
        /\ (phase' # phase => phase \in {"cycle", "wait"})
    BY <1>7 DEF Wake, LeaveLoop, wvars
  <2>2. CoreInv'
    BY <1>0, <2>1, QuietKeepsCore DEF vars
  <2> QED
    BY <2>1, <2>2 DEF ProcessInv, vars, Phases
<1> QED
  BY <1>1, <1>2, <1>3, <1>4, <1>5, <1>6, <1>7, CrashKeepsProcess DEF WorkerNext

\* The invariant of the process, through every crash and restart.
THEOREM ProcessCorrect == WorkerSpec => []ProcessInv
<1>1. WorkerInit => ProcessInv
  <2> SUFFICES ASSUME WorkerInit PROVE ProcessInv
    OBVIOUS
  <2>1. Init /\ phase = "cycle"
    BY DEF WorkerInit
  <2>2. CoreInv
    BY <2>1, InitIsCore
  <2> QED
    BY <2>1, <2>2, WorkerAssumption DEF ProcessInv, Init, NoCall, Phases
<1>2. ProcessInv /\ [WorkerNext]_wvars => ProcessInv'
  BY ProcessStep
<1> QED
  BY <1>1, <1>2, PTL DEF WorkerSpec

\* Overlap of calls, crash and restart included, the worker never runs a job
\* twice at a time and leaks no entry of the in-flight set.
THEOREM WorkerExclusionCorrect == WorkerSpec => [](JobExclusion /\ InFlightIsActive)
BY ProcessCorrect, PTL DEF ProcessInv, CoreInv

\* The process leaves on a signal only after the jobs of the cycle have ended.
THEOREM GracefulExitCorrect == WorkerSpec => []GracefulExit
<1>1. ProcessInv => GracefulExit
  <2> SUFFICES ASSUME ProcessInv, phase = "exited"
               PROVE  in_flight = {} /\ \A c \in Callers : call[c].due = {}
    BY DEF GracefulExit
  <2>1. \A c \in Callers : c = supervisor /\ call[c].due = {}
    BY WorkerAssumption DEF ProcessInv
  <2>2. \A c \in Callers, j \in Jobs : ~Active(c, j)
    BY <2>1 DEF ProcessInv, CoreInv, CallGathersItsJobs, Active, ActivePc
  <2> QED
    BY <2>1, <2>2 DEF ProcessInv, CoreInv, InFlightIsActive
<1> QED
  BY <1>1, ProcessCorrect, PTL
----------------------------------------------------------------------------
(* The table: the rows of past runs, those in the database and those that    *)
(* retention took, are whole transactions.                                    *)

TableInv ==
    /\ purged \subseteq Row /\ purged \cap rows = {}
    /\ \A s \in rows \cup purged : PastRun(s)
    /\ Whole(rows \cup purged)

\* No step of the worker makes a past run current again: the numbers of the runs
\* go on across a restart.
LEMMA WorkerKeepsPast ==
    ASSUME ProcessInv, [WorkerNext]_wvars, NEW s \in Row, PastRun(s)
    PROVE  PastRun(s)'
<1>0. CoreInv /\ supervisor \in Callers /\ s.job \in Jobs
  BY WorkerAssumption DEF ProcessInv, Row
<1>1. CASE UNCHANGED <<run, runs>>
  BY <1>1 DEF PastRun, Active
<1>2. CASE Environment \/ Signal \/ LeaveLoop \/ Wake \/ Restart \/ UNCHANGED wvars
  BY <1>1, <1>2 DEF Environment, Tick, ClockStepsBack, Signal, LeaveLoop, Wake, Restart,
                    wvars, vars
<1>3. CASE \E ok \in BOOLEAN : Cleanup(ok)
  BY <1>1, <1>3 DEF Cleanup, vars
<1>4. CASE StartCycle
  BY <1>0, <1>4, RunDueKeepsPast DEF StartCycle
<1>5. CASE \E j \in Jobs : JobRuns(j)
  <2>1. PICK j \in Jobs : JobStep(supervisor, j)
    BY <1>5 DEF JobRuns
  <2>2. PICK r \in Run : RunStep(supervisor, j, r)
    BY <1>0, <2>1, JobStepEffect
  <2> QED
    BY <1>0, <2>2, RunStepKeepsPast
<1>6. CASE CycleObserves
  BY <1>0, <1>6, ReturnKeepsPast DEF CycleObserves
<1>7. CASE Crash
  <2>1. /\ UNCHANGED runs
        /\ \A c \in Callers : run'[c][s.job] = Idle
    BY <1>0, <1>7 DEF Crash
  <2> QED
    BY <2>1 DEF PastRun, Active, ActivePc, Idle
<1> QED
  BY <1>2, <1>3, <1>4, <1>5, <1>6, <1>7 DEF WorkerNext

\* A step that moves rows from the table to the deleted ones, if anything.
LEMMA SameTable ==
    ASSUME ProcessInv, TableInv, [WorkerNext]_wvars,
           rows' \cup purged' = rows \cup purged
    PROVE  /\ \A s \in rows' \cup purged' : PastRun(s)'
           /\ Whole(rows \cup purged)'
<1>1. ASSUME NEW s \in rows' \cup purged' PROVE PastRun(s)'
  <2>1. s \in Row /\ PastRun(s)
    BY <1>1 DEF TableInv, ProcessInv, CoreInv, TypeOK
  <2> QED
    BY <2>1, WorkerKeepsPast
<1>2. Whole(rows \cup purged)'
  BY DEF TableInv, Whole
<1> QED
  BY <1>1, <1>2

\* Neither the jobs nor the cleanup nor a crash breaks the records of a run apart.
LEMMA TableStep ==
    ASSUME ProcessInv, TableInv, [WorkerNext]_wvars
    PROVE  TableInv'
<1>0. CoreInv /\ supervisor \in Callers /\ rows \subseteq Row
  BY WorkerAssumption DEF ProcessInv, CoreInv, TypeOK
<1>1. CASE UNCHANGED <<rows, purged>>
  BY <1>1, SameTable DEF TableInv
<1>2. CASE \E j \in Jobs : JobRuns(j)
  <2>1. PICK j \in Jobs : JobStep(supervisor, j)
    BY <1>2 DEF JobRuns
  <2>2. PICK r \in Run : RunStep(supervisor, j, r)
    BY <1>0, <2>1, JobStepEffect
  <2>3. UNCHANGED purged
    BY <1>2 DEF JobRuns
  <2>4. CASE rows' = rows
    BY <1>1, <2>3, <2>4 DEF TableInv
  <2>5. CASE rows' # rows
    <3> DEFINE R == RowsOf(j, run[supervisor][j])
               A == rows \cup purged
    <3>1. EndsStore(supervisor, j, r) /\ Storing(supervisor, j) /\ rows' = rows \cup R
      BY <2>2, <2>5 DEF RunStep, Moves, Leaves, EndsStore
    <3>2. /\ \A s \in R : s.job = j /\ s.run = run[supervisor][j].id
          /\ OneTransaction(R)
      BY <1>0, <3>1, TransactionRows
    <3>3. \A s \in A : ~(s.job = j /\ s.run = run[supervisor][j].id)
      BY <1>0, <3>1, StoringIsNew DEF TableInv
    <3> HIDE DEF R
    <3>4. Whole(A \cup R)
      BY <3>2, <3>3, WholeAfterCommit DEF TableInv
    <3>5. rows' \cup purged' = A \cup R
      BY <2>3, <3>1
    <3>6. Whole(rows \cup purged)'
      BY <3>4, <3>5 DEF Whole
    <3>7. ASSUME NEW s \in rows' \cup purged' PROVE PastRun(s)'
      <4>1. CASE s \in A
        <5>1. s \in Row /\ PastRun(s)
          BY <1>0, <4>1 DEF TableInv
        <5> QED
          BY <5>1, WorkerKeepsPast
      <4>2. CASE s \in R
        BY <1>0, <2>2, <3>1, <4>2, CommittedIsPast DEF R
      <4> QED
        BY <3>5, <3>7, <4>1, <4>2
    <3>8. purged \cap R = {}
      BY <3>2, <3>3
    <3> QED
      BY <2>3, <3>1, <3>6, <3>7, <3>8 DEF TableInv
  <2> QED
    BY <2>4, <2>5
<1>3. CASE \E ok \in BOOLEAN : Cleanup(ok)
  <2>1. PICK ok \in BOOLEAN : Cleanup(ok)
    BY <1>3
  <2>2. Deletable \subseteq rows
    BY DEF Deletable
  <2>3. rows' \cup purged' = rows \cup purged
    BY <2>1, <2>2 DEF Cleanup
  <2>4. purged' \subseteq Row /\ purged' \cap rows' = {}
    BY <1>0, <2>1, <2>2 DEF Cleanup, TableInv
  <2> QED
    BY <2>3, <2>4, SameTable DEF TableInv
<1>4. CASE Environment \/ Signal \/ LeaveLoop \/ UNCHANGED wvars
  BY <1>1, <1>4 DEF Environment, Tick, ClockStepsBack, Signal, LeaveLoop, wvars, vars,
                    retention, table, TableInv
<1>6. CASE StartCycle
  BY <1>1, <1>6 DEF StartCycle, RunDue, TableInv
<1>7. CASE CycleObserves
  BY <1>1, <1>7 DEF CycleObserves, Return, retention, table, TableInv
<1>8. CASE Wake \/ Crash \/ Restart
  BY <1>1, <1>8 DEF Wake, Crash, Restart, vars, retention, table, TableInv
<1> QED
  BY <1>2, <1>3, <1>4, <1>6, <1>7, <1>8 DEF WorkerNext

\* The invariant of the table.
THEOREM TableCorrect == WorkerSpec => []TableInv
<1>1. WorkerInit => TableInv
  BY DEF WorkerInit, Init, TableInv, Whole
<1> QED
  BY <1>1, TableStep, ProcessCorrect, PTL DEF WorkerSpec

\* Whatever crashed and whatever retention took, a run left all of its rows or
\* none.
THEOREM RecordsWholeCorrect == WorkerSpec => []RecordsWhole
<1>1. TableInv => RecordsWhole
  BY DEF TableInv, Whole, RecordsWhole
<1> QED
  BY <1>1, TableCorrect, PTL

----------------------------------------------------------------------------
(* The stamps of the rows against true time, and the cutoff of the cycle.     *)

StampTypes ==
    /\ clock \in Int /\ observed_at \in Int
    /\ created_at \in [rows -> Int] /\ written_at \in [rows -> Int]
    /\ set_back \in Nat /\ cycle_set_back \in 0..set_back

\* A row is stamped too early by what the clock has been set back, and a row of
\* this cycle no earlier than the cycle began, less what was set back since.
Stamped(r) ==
    /\ written_at[r] <= created_at[r] + set_back
    /\ phase \in {"gather", "clean"} =>
         \/ written_at[r] <= created_at[r] + cycle_set_back
         \/ created_at[r] >= observed_at - (set_back - cycle_set_back)

StampInv ==
    /\ StampTypes
    /\ phase \in {"gather", "clean"} => observed_at + cycle_set_back <= TrueTime
    /\ \A r \in rows : Stamped(r)

\* A step that leaves the rows, their stamps and the clock alone.
LEMMA SameStamps ==
    ASSUME StampInv, UNCHANGED <<clock, rows, created_at, written_at, set_back>>,
           UNCHANGED cycle_set_back,
           \/ phase' \notin {"gather", "clean"} /\ observed_at' \in Int
           \/ phase \in {"gather", "clean"} /\ UNCHANGED observed_at
    PROVE  StampInv'
BY DEF StampInv, StampTypes, Stamped, TrueTime

\* Whatever runs, crashes or is set back, the stamps stay that close to true time.
LEMMA StampStep ==
    ASSUME StampInv, [WorkerNext]_wvars
    PROVE  StampInv'
<1>1. CASE Environment
  BY <1>1 DEF Environment, Tick, ClockStepsBack, StampInv, StampTypes, Stamped, TrueTime
<1>2. CASE StartCycle
  BY <1>2 DEF StartCycle, RunDue, StampInv, StampTypes, Stamped, TrueTime
<1>3. CASE \E j \in Jobs : JobRuns(j)
  <2>1. PICK j \in Jobs : JobRuns(j)
    BY <1>3
  <2>2. UNCHANGED clock
    BY <2>1 DEF JobRuns, JobStep, StartLoad, StartRaises, LoadReturns, LoadFails,
                StoreCommits, StoreRaises, Release, Advance
  <2>3. /\ phase = "gather" /\ phase' = "gather"
        /\ UNCHANGED <<observed_at, set_back, cycle_set_back>>
        /\ created_at' = [q \in rows' |-> IF q \in rows THEN created_at[q] ELSE clock]
        /\ written_at' = [q \in rows' |-> IF q \in rows THEN written_at[q] ELSE TrueTime]
    BY <2>1 DEF JobRuns
  <2> QED
    BY <2>2, <2>3 DEF StampInv, StampTypes, Stamped, TrueTime
<1>4. CASE CycleObserves
  BY <1>4, SameStamps DEF CycleObserves, Return, retention, table, StampInv
<1>5. CASE \E ok \in BOOLEAN : Cleanup(ok)
  <2>1. /\ rows' \subseteq rows /\ phase' = "wait"
        /\ created_at' = [q \in rows' |-> created_at[q]]
        /\ written_at' = [q \in rows' |-> written_at[q]]
        /\ UNCHANGED <<clock, observed_at, set_back, cycle_set_back>>
    BY <1>5 DEF Cleanup
  <2> QED
    BY <2>1 DEF StampInv, StampTypes, Stamped
<1>6. CASE Signal \/ UNCHANGED wvars
  BY <1>6 DEF Signal, wvars, vars, retention, table, StampInv, StampTypes, Stamped,
              TrueTime
<1>7. CASE Wake \/ LeaveLoop \/ Crash \/ Restart
  <2>1. /\ UNCHANGED <<clock, rows, created_at, written_at, set_back, cycle_set_back>>
        /\ phase' \notin {"gather", "clean"} /\ observed_at' \in {observed_at, 0}
    BY <1>7 DEF Wake, LeaveLoop, Crash, Restart, vars, retention, table
  <2> QED
    BY <2>1, SameStamps DEF StampInv, StampTypes
<1> QED
  BY <1>1, <1>2, <1>3, <1>4, <1>5, <1>6, <1>7 DEF WorkerNext

\* The invariant of the stamps.
THEOREM StampCorrect == WorkerSpec => []StampInv
<1>1. WorkerInit => StampInv
  BY DEF WorkerInit, Init, StampInv, StampTypes
<1> QED
  BY <1>1, StampStep, PTL DEF WorkerSpec

\* What the delete of a cycle matches has really outlived the retention period,
\* unless the clock was set back by more than the period since the cycle began.
LEMMA DeletedIsOld ==
    ASSUME StampInv, phase = "clean", NEW r \in Deletable,
           set_back - cycle_set_back <= Retention
    PROVE  r \in rows /\ TrueTime - written_at[r] > Retention
<1>1. /\ r \in rows /\ created_at[r] < observed_at - Retention
      /\ observed_at + cycle_set_back <= TrueTime
      /\ \/ written_at[r] <= created_at[r] + cycle_set_back
         \/ created_at[r] >= observed_at - (set_back - cycle_set_back)
  BY DEF StampInv, Stamped, Deletable
<1>2. /\ created_at[r] \in Int /\ written_at[r] \in Int /\ Retention \in Nat
      /\ observed_at \in Int /\ TrueTime \in Int
      /\ set_back \in Int /\ cycle_set_back \in Int
  BY <1>1, WorkerAssumption DEF StampInv, StampTypes, TrueTime
<1> QED
  BY <1>1, <1>2

\* Retention deletes no structure snapshot, and no row before it has outlived the
\* period in true time, whenever the cycle took its cutoff and whichever rows its
\* own jobs have added since; the clock may be set back at any time, but not by more
\* than the period within one cycle.
THEOREM RetentionCorrect == WorkerSpec => RetentionSpares
<1> DEFINE Spares == \A r \in rows \ rows' :
                        /\ r.type # "structure_snapshot"
                        /\ set_back - cycle_set_back <= Retention
                             => TrueTime - written_at[r] > Retention
<1>1. ProcessInv /\ StampInv /\ [WorkerNext]_wvars => [Spares]_wvars
  <2> SUFFICES ASSUME ProcessInv, StampInv, [WorkerNext]_wvars PROVE Spares
    OBVIOUS
  <2>1. CASE rows \subseteq rows'
    BY <2>1
  <2>2. CASE \E j \in Jobs : JobRuns(j)
    <3>1. PICK j \in Jobs : JobStep(supervisor, j)
      BY <2>2 DEF JobRuns
    <3>2. PICK r \in Run : RunStep(supervisor, j, r)
      BY <3>1, WorkerAssumption, JobStepEffect DEF ProcessInv
    <3> QED
      BY <2>1, <3>2 DEF RunStep, Moves, EndsStore, Leaves
  <2>3. CASE \E ok \in BOOLEAN : Cleanup(ok)
    <3>1. phase = "clean" /\ rows \ rows' \subseteq Deletable
      BY <2>3 DEF Cleanup
    <3>2. \A r \in Deletable : r.type # "structure_snapshot"
      BY DEF Deletable, RuntimeRecordTypes
    <3> QED
      BY <3>1, <3>2, DeletedIsOld
  <2>4. CASE Environment \/ Signal \/ LeaveLoop \/ Wake \/ UNCHANGED wvars
    BY <2>1, <2>4 DEF Environment, Tick, ClockStepsBack, Signal, LeaveLoop, Wake, wvars,
                      vars
  <2>5. CASE Crash \/ Restart
    BY <2>1, <2>5 DEF Crash, Restart, vars
  <2>6. CASE StartCycle \/ CycleObserves
    BY <2>1, <2>6 DEF StartCycle, RunDue, CycleObserves, Return
  <2> QED
    BY <2>2, <2>3, <2>4, <2>5, <2>6 DEF WorkerNext
<1>2. WorkerSpec => [][Spares]_wvars
  BY <1>1, ProcessCorrect, StampCorrect, PTL DEF WorkerSpec
<1> QED
  BY <1>2 DEF RetentionSpares
----------------------------------------------------------------------------
(* The attempts of the cleanup. *)

CleanupInv ==
    /\ observed_at \in Int
    /\ next_cleanup_at \in Int \cup {None} /\ last_cleanup \in Int \cup {None}
    /\ last_cleanup # None => next_cleanup_at = last_cleanup + CleanupInterval
    /\ phase = "clean" => CleanupDue(observed_at)

\* The cleanup is started only when it is due, and sets its next time first.
LEMMA CleanupStep ==
    ASSUME TypeOK, CleanupInv, [WorkerNext]_wvars
    PROVE  CleanupInv'
<1>1. CASE /\ UNCHANGED <<observed_at, next_cleanup_at, last_cleanup>>
           /\ phase' = "clean" => phase = "clean"
  BY <1>1 DEF CleanupInv, CleanupDue
<1>2. CASE StartCycle
  BY <1>2 DEF StartCycle, PhaseAfterJobs, CleanupDue, CleanupInv, TypeOK
<1>3. CASE CycleObserves
  BY <1>3 DEF CycleObserves, PhaseAfterJobs, CleanupDue, CleanupInv, retention
<1>4. CASE \E ok \in BOOLEAN : Cleanup(ok)
  BY <1>4, WorkerAssumption DEF Cleanup, NextCleanup, CleanupInv
<1>5. CASE Restart
  BY <1>5, ScheduleAssumption DEF Restart, CleanupInv
<1>6. CASE Environment \/ Signal \/ LeaveLoop \/ UNCHANGED wvars
  BY <1>1, <1>6 DEF Environment, Signal, LeaveLoop, wvars, retention
<1>7. CASE \E j \in Jobs : JobRuns(j)
  BY <1>1, <1>7 DEF JobRuns
<1>8. CASE Wake \/ Crash
  BY <1>1, <1>8 DEF Wake, Crash, retention
<1> QED
  BY <1>2, <1>3, <1>4, <1>5, <1>6, <1>7, <1>8 DEF WorkerNext

\* The invariant of the cleanup.
THEOREM CleanupInvCorrect == WorkerSpec => []CleanupInv
<1>1. WorkerInit => CleanupInv
  BY DEF WorkerInit, CleanupInv
<1>2. ProcessInv => TypeOK
  BY DEF ProcessInv, CoreInv
<1> QED
  BY <1>1, <1>2, CleanupStep, ProcessCorrect, PTL DEF WorkerSpec

\* Attempts at a cleanup are at least the interval apart, whether they succeed or
\* fail and however the clock steps back between two cycles.
THEOREM CleanupCorrect == WorkerSpec => CleanupsSpaced
<1> DEFINE Spaced == phase = "clean" /\ phase' = "wait" /\ last_cleanup # None
                       => observed_at >= last_cleanup + CleanupInterval
<1>1. CleanupInv => Spaced
  BY ScheduleAssumption, WorkerAssumption DEF CleanupInv, CleanupDue
<1>2. WorkerSpec => [][Spaced]_wvars
  BY <1>1, CleanupInvCorrect, PTL DEF WorkerSpec
<1> QED
  BY <1>2 DEF CleanupsSpaced
----------------------------------------------------------------------------
(* The metrics: the counter of consecutive failures against the statuses that *)
(* observe was given.                                                         *)

\* The statuses s end with exactly n failures.
Streak(s, n) ==
    /\ n <= Len(s)
    /\ \A k \in (Len(s) - n + 1)..Len(s) : Failing(s, k)
    /\ n = Len(s) \/ ~Failing(s, Len(s) - n)

\* One more outcome keeps the counter equal to the length of the last streak.
LEMMA StreakAppend ==
    ASSUME NEW s \in Seq(Statuses), NEW x \in Statuses, NEW n \in Nat, Streak(s, n)
    PROVE  Streak(Append(s, x), FailureCount(n, x))
<1> DEFINE t == Append(s, x)
           L == Len(s)
<1>1. L \in Nat /\ Len(t) = L + 1 /\ t[L + 1] = x /\ \A i \in 1..L : t[i] = s[i]
  OBVIOUS
<1> HIDE DEF t
<1>2. /\ \A i \in 1..L : Failing(t, i) <=> Failing(s, i)
      /\ Failing(t, L + 1) <=> x \in FailureStatuses
  BY <1>1 DEF Failing
<1>3. CASE x \in FailureStatuses
  <2>1. FailureCount(n, x) = n + 1 /\ n + 1 <= Len(t)
    BY <1>1, <1>3 DEF FailureCount, Streak
  <2>2. \A k \in (Len(t) - (n + 1) + 1)..Len(t) : Failing(t, k)
    BY <1>1, <1>2, <1>3 DEF Streak
  <2>3. n + 1 = Len(t) \/ ~Failing(t, Len(t) - (n + 1))
    BY <1>1, <1>2 DEF Streak
  <2> QED
    BY <2>1, <2>2, <2>3 DEF Streak, t
<1>4. CASE x \notin FailureStatuses
  <2>1. FailureCount(n, x) = 0 /\ 0 <= Len(t)
    BY <1>1, <1>4 DEF FailureCount
  <2>2. \A k \in (Len(t) - 0 + 1)..Len(t) : Failing(t, k)
    BY <1>1
  <2>3. ~Failing(t, Len(t) - 0)
    BY <1>1, <1>2, <1>4
  <2> QED
    BY <2>1, <2>2, <2>3 DEF Streak, t
<1> QED
  BY <1>3, <1>4

\* The outcome that alerts is the one at which a streak reaches the threshold.
LEMMA ReachesAppend ==
    ASSUME NEW s \in Seq(Statuses), NEW x \in Statuses, NEW n \in Nat, Streak(s, n)
    PROVE  StreakReaches(Append(s, x)) =
              StreakReaches(s) \cup (IF Alerts(n, x) THEN {Len(s) + 1} ELSE {})
<1> DEFINE t == Append(s, x)
           L == Len(s)
           Reached(q, i) == /\ \A k \in (i - Threshold + 1)..i : Failing(q, k)
                            /\ i = Threshold \/ ~Failing(q, i - Threshold)
<1>1. /\ L \in Nat /\ Len(t) = L + 1 /\ t[L + 1] = x
      /\ \A i \in 1..L : t[i] = s[i]
      /\ Threshold \in Nat /\ Threshold > 0
  BY WorkerAssumption
<1> HIDE DEF t
<1>2. /\ \A i \in 1..L : Failing(t, i) <=> Failing(s, i)
      /\ Failing(t, L + 1) <=> x \in FailureStatuses
  BY <1>1 DEF Failing
<1>3. \A i \in Threshold..L : Reached(t, i) <=> Reached(s, i)
  BY <1>1, <1>2
<1>4. L + 1 >= Threshold /\ Reached(t, L + 1) <=> Alerts(n, x)
  <2>1. Alerts(n, x) <=> x \in FailureStatuses /\ n + 1 = Threshold
    BY DEF Alerts, FailureCount
  <2>2. ASSUME x \in FailureStatuses, n + 1 = Threshold
        PROVE  L + 1 >= Threshold /\ Reached(t, L + 1)
    <3>1. /\ n <= L /\ (L + 1) - Threshold + 1 = L - n + 1
          /\ (L + 1) - Threshold = L - n /\ (L + 1 = Threshold <=> n = L)
      BY <1>1, <2>2 DEF Streak
    <3>2. \A k \in (L - n + 1)..(L + 1) : Failing(t, k)
      BY <1>1, <1>2, <2>2, <3>1 DEF Streak
    <3>3. n = L \/ ~Failing(t, L - n)
      BY <1>1, <1>2, <3>1 DEF Streak
    <3> QED
      BY <1>1, <2>2, <3>1, <3>2, <3>3
  <2>3. ASSUME L + 1 >= Threshold, Reached(t, L + 1)
        PROVE  x \in FailureStatuses /\ n + 1 = Threshold
    <3>1. x \in FailureStatuses
      BY <1>1, <1>2, <2>3
    <3>2. ~(n + 1 > Threshold)
      <4> SUFFICES ASSUME n + 1 > Threshold PROVE FALSE
        OBVIOUS
      <4>1. L + 1 - Threshold \in (L - n + 1)..L /\ L + 1 - Threshold \in 1..L
        BY <1>1 DEF Streak
      <4> QED
        BY <1>1, <1>2, <2>3, <4>1 DEF Streak
    <3>3. ~(n + 1 < Threshold)
      <4> SUFFICES ASSUME n + 1 < Threshold PROVE FALSE
        OBVIOUS
      <4>1. n # L /\ L - n \in 1..L /\ L - n \in ((L + 1) - Threshold + 1)..(L + 1)
        BY <1>1, <2>3 DEF Streak
      <4> QED
        BY <1>1, <1>2, <2>3, <4>1 DEF Streak
    <3> QED
      BY <1>1, <3>1, <3>2, <3>3
  <2> QED
    BY <2>1, <2>2, <2>3
<1>5. /\ StreakReaches(s) = {i \in Threshold..L : Reached(s, i)}
      /\ StreakReaches(t) = {i \in Threshold..(L + 1) : Reached(t, i)}
  BY <1>1 DEF StreakReaches
<1> HIDE DEF Reached
<1>6. StreakReaches(t) = StreakReaches(s) \cup (IF Alerts(n, x) THEN {L + 1} ELSE {})
  BY <1>1, <1>3, <1>4, <1>5
<1> QED
  BY <1>6 DEF t

\* Only past outcomes are in the reference, and there are finitely many.
LEMMA ReachesFinite ==
    ASSUME NEW s \in Seq(Statuses)
    PROVE  IsFiniteSet(StreakReaches(s)) /\ Len(s) + 1 \notin StreakReaches(s)
<1>1. Len(s) \in Nat /\ Threshold \in Nat
  BY WorkerAssumption
<1>2. IsFiniteSet(Threshold..Len(s)) /\ StreakReaches(s) \subseteq Threshold..Len(s)
  BY <1>1, FS_Interval DEF StreakReaches
<1> QED
  BY <1>1, <1>2, FS_Subset

\* What the metrics say of one job: n failures in a row, a alerts, statuses s.
JobMetrics(s, n, a) ==
    /\ s \in Seq(Statuses) /\ n \in Nat /\ a \in Nat
    /\ Streak(s, n)
    /\ a = Cardinality(StreakReaches(s))

\* observe keeps the counters what the history of statuses says they are.
LEMMA MetricsAppend ==
    ASSUME NEW s, NEW n, NEW a, JobMetrics(s, n, a), NEW x \in Statuses
    PROVE  JobMetrics(Append(s, x), FailureCount(n, x), IF Alerts(n, x) THEN a + 1 ELSE a)
<1>1. s \in Seq(Statuses) /\ n \in Nat /\ a \in Nat /\ Streak(s, n)
      /\ a = Cardinality(StreakReaches(s))
  BY DEF JobMetrics
<1>2. Append(s, x) \in Seq(Statuses) /\ FailureCount(n, x) \in Nat
  BY <1>1 DEF FailureCount
<1>3. Streak(Append(s, x), FailureCount(n, x))
  BY <1>1, StreakAppend
<1>4. StreakReaches(Append(s, x)) =
        StreakReaches(s) \cup (IF Alerts(n, x) THEN {Len(s) + 1} ELSE {})
  BY <1>1, ReachesAppend
<1>5. CASE Alerts(n, x)
  <2>1. StreakReaches(Append(s, x)) = StreakReaches(s) \cup {Len(s) + 1}
    BY <1>4, <1>5
  <2>2. Cardinality(StreakReaches(s) \cup {Len(s) + 1}) = a + 1
    BY <1>1, ReachesFinite, FS_AddElement
  <2> QED
    BY <1>1, <1>2, <1>3, <1>5, <2>1, <2>2 DEF JobMetrics
<1>6. CASE ~Alerts(n, x)
  <2>1. StreakReaches(Append(s, x)) = StreakReaches(s)
    BY <1>4, <1>6
  <2> QED
    BY <1>1, <1>2, <1>3, <1>6, <2>1 DEF JobMetrics
<1> QED
  BY <1>5, <1>6

MetricsInv ==
    /\ consecutive_failures \in [Jobs -> Nat] /\ alerts \in [Jobs -> Nat]
    /\ observed \in [Jobs -> Seq(Statuses)]
    /\ \A j \in Jobs : JobMetrics(observed[j], consecutive_failures[j], alerts[j])

\* The metrics of a fresh process.
LEMMA NoMetrics == JobMetrics(<<>>, 0, 0)
<1>1. StreakReaches(<<>>) = {}
  BY WorkerAssumption DEF StreakReaches
<1> QED
  BY <1>1, FS_EmptySet DEF JobMetrics, Streak

\* observe is given the status of every claimed run, each of them once.
LEMMA ObserveStep ==
    ASSUME ProcessInv, MetricsInv, CycleObserves
    PROVE  MetricsInv'
<1> DEFINE due == call[supervisor].due
           status == [j \in Jobs |-> run[supervisor][j].status]
<1>1. due \subseteq Jobs /\ supervisor \in Callers
  BY WorkerAssumption DEF ProcessInv, CoreInv, TypeOK
<1>2. \A j \in due : status[j] \in Statuses
  BY <1>1 DEF CycleObserves, Return, ProcessInv, CoreInv, Shape
<1>3. Observe(due, status)
  BY DEF CycleObserves
<1> HIDE DEF due, status
<1>4. ASSUME NEW j \in Jobs
      PROVE  /\ JobMetrics(observed[j], consecutive_failures[j], alerts[j])'
             /\ observed'[j] \in Seq(Statuses)
             /\ consecutive_failures'[j] \in Nat /\ alerts'[j] \in Nat
  <2>1. JobMetrics(observed[j], consecutive_failures[j], alerts[j])
    BY DEF MetricsInv
  <2>2. CASE j \in due
    <3>1. /\ observed'[j] = Append(observed[j], status[j])
          /\ consecutive_failures'[j] = FailureCount(consecutive_failures[j], status[j])
          /\ alerts'[j] = IF Alerts(consecutive_failures[j], status[j])
                          THEN alerts[j] + 1 ELSE alerts[j]
      BY <1>3, <2>2 DEF Observe
    <3>2. status[j] \in Statuses
      BY <1>2, <2>2
    <3>3. JobMetrics(observed'[j], consecutive_failures'[j], alerts'[j])
      BY <2>1, <3>1, <3>2, MetricsAppend
    <3> QED
      BY <3>3 DEF JobMetrics
  <2>3. CASE j \notin due
    <3>1. /\ observed'[j] = observed[j] /\ alerts'[j] = alerts[j]
          /\ consecutive_failures'[j] = consecutive_failures[j]
      BY <1>3, <2>3 DEF Observe
    <3>2. JobMetrics(observed'[j], consecutive_failures'[j], alerts'[j])
      BY <2>1, <3>1
    <3> QED
      BY <3>2 DEF JobMetrics
  <2> QED
    BY <2>2, <2>3
<1>5. /\ consecutive_failures' \in [Jobs -> Nat] /\ alerts' \in [Jobs -> Nat]
      /\ observed' \in [Jobs -> Seq(Statuses)]
  BY <1>3, <1>4 DEF Observe
<1> QED
  BY <1>4, <1>5 DEF MetricsInv

\* The invariant of the metrics.
THEOREM MetricsCorrect == WorkerSpec => []MetricsInv
<1>1. WorkerInit => MetricsInv
  BY NoMetrics DEF WorkerInit, MetricsInv
<1>2. ASSUME ProcessInv, MetricsInv, [WorkerNext]_wvars PROVE MetricsInv'
  <2>1. CASE UNCHANGED metrics
    BY <1>2, <2>1 DEF MetricsInv, metrics
  <2>2. CASE CycleObserves
    BY <1>2, <2>2, ObserveStep
  <2>3. CASE Restart
    BY <2>3, NoMetrics DEF Restart, MetricsInv
  <2>4. CASE Environment \/ Signal \/ StartCycle \/ LeaveLoop \/ Wake \/ Crash
    BY <2>1, <2>4 DEF Environment, Signal, StartCycle, LeaveLoop, Wake, Crash
  <2>5. CASE \/ \E j \in Jobs : JobRuns(j)
             \/ \E ok \in BOOLEAN : Cleanup(ok)
             \/ UNCHANGED wvars
    BY <2>1, <2>5 DEF JobRuns, Cleanup, wvars
  <2> QED
    BY <1>2, <2>2, <2>3, <2>4, <2>5 DEF WorkerNext
<1> QED
  BY <1>1, <1>2, ProcessCorrect, PTL DEF WorkerSpec

\* One alert for each streak of hard failures that reaches the threshold, for every
\* threshold and every sequence of outcomes.
THEOREM AlertsCorrect == WorkerSpec => []AlertOncePerStreak
<1>1. MetricsInv => AlertOncePerStreak
  BY DEF MetricsInv, JobMetrics, AlertOncePerStreak
<1> QED
  BY <1>1, MetricsCorrect, PTL

\* The type invariant of the worker.
THEOREM WorkerTypeCorrect == WorkerSpec => []WorkerTypeOK
<1> DEFINE Killed == crashes \in 0..MaxCrashes
           Stopped == stop \in BOOLEAN
<1>1. (WorkerInit => Killed) /\ (WorkerInit => Stopped)
  <2>1. WorkerInit => Killed
    BY WorkerAssumption DEF WorkerInit
  <2>2. WorkerInit => Stopped
    BY Zenon DEF WorkerInit
  <2> QED
    BY <2>1, <2>2
<1>2. ASSUME Killed, Stopped, [WorkerNext]_wvars PROVE Killed' /\ Stopped'
  <2>1. CASE UNCHANGED <<stop, crashes>>
    BY <1>2, <2>1
  <2>2. CASE Environment \/ StartCycle \/ LeaveLoop \/ Wake \/ UNCHANGED wvars
    BY <2>1, <2>2 DEF Environment, StartCycle, LeaveLoop, Wake, wvars
  <2>3. CASE \/ \E j \in Jobs : JobRuns(j)
             \/ \E ok \in BOOLEAN : Cleanup(ok)
             \/ CycleObserves
    BY <2>1, <2>3 DEF JobRuns, Cleanup, CycleObserves
  <2>4. CASE Signal \/ Crash \/ Restart
    <3>1. Killed'
      BY <1>2, <2>4, WorkerAssumption DEF Signal, Crash, Restart
    <3>2. Stopped'
      BY <1>2, <2>4, Zenon DEF Signal, Crash, Restart
    <3> QED
      BY <3>1, <3>2
  <2> QED
    BY <1>2, <2>2, <2>3, <2>4 DEF WorkerNext
<1>3. ProcessInv /\ TableInv /\ StampInv /\ CleanupInv /\ MetricsInv /\ Killed /\ Stopped
        => WorkerTypeOK
  BY DEF ProcessInv, CoreInv, TableInv, StampInv, StampTypes, CleanupInv, MetricsInv,
         WorkerTypeOK
<1>4. WorkerSpec => [](Killed /\ Stopped)
  BY <1>1, <1>2, PTL DEF WorkerSpec
<1> QED
  BY <1>3, <1>4, ProcessCorrect, TableCorrect, StampCorrect, CleanupInvCorrect,
     MetricsCorrect, PTL
=============================================================================
