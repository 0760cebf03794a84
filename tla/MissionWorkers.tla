--------------------------- MODULE MissionWorkers ---------------------------
(***************************************************************************)
(* The actors that run the missions of MissionQueue: the loop of each      *)
(* EmployeeWorker (employee-worker.ts) with its heartbeat row and its      *)
(* parallel heartbeat timer, and the recoveries (boot of the Continuous    *)
(* Runtime, supervisor cycles) that requeue RUNNING rows whose owner does  *)
(* not prove liveness.                                                     *)
(*                                                                         *)
(* A worker loses its memory in a crash; the rows and the heartbeats stay. *)
(* Two workers of one employee model two processes of the API, as in a     *)
(* rolling restart: they share one WorkerHeartbeat row.                    *)
(***************************************************************************)
EXTENDS MissionQueue

CONSTANTS
  Workers,      \* worker loops
  EmployeeOf,   \* EmployeeOf[w]: the employee a loop works for
  Recoverers,   \* callers of recoverStaleRunning
  Nobody,       \* currentMissionId = null
  NoRow,        \* an employee without a WorkerHeartbeat row
  Faults        \* the faults the environment may inject, see FaultKinds

\* "crash": a worker's process dies; "stop": graceful stop(); "db": a statement
\* fails or its answer is lost; "late": a live worker's beats are delayed, in
\* the event loop or in flight; "supervisor": a recovery is cut short.
FaultKinds == {"crash", "stop", "db", "late", "supervisor"}

ASSUME WorkersAssumption ==
  /\ EmployeeOf \in [Workers -> Employees]
  /\ Nobody \notin Missions
  /\ NoRow \notin Missions \cup {Nobody}
  /\ Faults \subseteq FaultKinds

VARIABLES
  pc,        \* where the worker's loop is
  cur,       \* this.currentMissionId
  run,       \* the claimed row the loop iteration holds (id, leaseVersion, attempt)
  timer,     \* executionHeartbeatTimer is set
  stopping,  \* stopRequested
  late,      \* timer beats in flight: the currentMissionId each one carries
  hb,        \* WorkerHeartbeat.currentMissionId per employee
  fresh,     \* WorkerHeartbeat.lastSeenAt is within the liveness window
  rpc,       \* where a recovery is
  snap       \* the RUNNING rows a recovery has read and still has to treat

workerVars == <<pc, cur, run, timer, stopping, late>>
beatVars == <<hb, fresh>>
recoveryVars == <<rpc, snap>>
vars == <<queueVars, workerVars, beatVars, recoveryVars>>

PC == {"down", "idle", "polling", "claimed", "executing", "failing", "closing", "dead"}
Run == [m : Missions \cup {Nobody}, lease : Nat, attempt : Nat]
NoRun == [m |-> Nobody, lease |-> 0, attempt |-> 0]
Seen == [m : Missions, lease : Nat, owner : Employees \cup {NoOne}]

Init ==
  /\ QueueInit
  /\ pc = [w \in Workers |-> "down"]
  /\ cur = [w \in Workers |-> Nobody]
  /\ run = [w \in Workers |-> NoRun]
  /\ timer = [w \in Workers |-> FALSE]
  /\ stopping = [w \in Workers |-> FALSE]
  /\ late = [w \in Workers |-> {}]
  /\ hb = [e \in Employees |-> NoRow]
  /\ fresh = [e \in Employees |-> FALSE]
  /\ rpc = [r \in Recoverers |-> "idle"]
  /\ snap = [r \in Recoverers |-> {}]

-----------------------------------------------------------------------------
(* Heartbeats *)

\* persistHeartbeat: an upsert of the employee's row, stamped with now.
Beat(e, m) ==
  /\ hb' = [hb EXCEPT ![e] = m]
  /\ fresh' = [fresh EXCEPT ![e] = TRUE]

\* The same where the caller survives a failed upsert.
BeatOrFail(e, m) ==
  \/ Beat(e, m)
  \/ "db" \in Faults /\ UNCHANGED beatVars

\* The pulse of startExecutionHeartbeat is not awaited by the loop.
TimerBeat(w) ==
  /\ timer[w]
  /\ IF "late" \in Faults
       THEN /\ late' = [late EXCEPT ![w] = @ \cup {cur[w]}]
            /\ UNCHANGED beatVars
       ELSE /\ Beat(EmployeeOf[w], cur[w])
            /\ UNCHANGED late
  /\ UNCHANGED <<queueVars, pc, cur, run, timer, stopping, recoveryVars>>

\* A delayed upsert lands, over whatever was written since; lastSeenAt was
\* taken when it was issued, so it may already be outside the window.
LateBeatLands(w, m) ==
  /\ m \in late[w]
  /\ late' = [late EXCEPT ![w] = @ \ {m}]
  /\ hb' = [hb EXCEPT ![EmployeeOf[w]] = m]
  /\ \E f \in BOOLEAN : fresh' = [fresh EXCEPT ![EmployeeOf[w]] = f]
  /\ UNCHANGED <<queueVars, pc, cur, run, timer, stopping, recoveryVars>>

\* The worker still writes its heartbeat, from its loop or its timer.
Beats(w) == timer[w] \/ pc[w] \in {"idle", "polling", "claimed", "closing"}

\* The liveness window elapses without a beat.
Lapse(e) ==
  /\ fresh[e]
  /\ "late" \in Faults \/ \A w \in Workers : EmployeeOf[w] = e => ~Beats(w)
  /\ fresh' = [fresh EXCEPT ![e] = FALSE]
  /\ UNCHANGED <<queueVars, workerVars, hb, recoveryVars>>

-----------------------------------------------------------------------------
(* The worker loop *)

Start(w) ==
  /\ pc[w] = "down"
  /\ pc' = [pc EXCEPT ![w] = "idle"]
  /\ Beat(EmployeeOf[w], Nobody)
  /\ UNCHANGED <<queueVars, cur, run, timer, stopping, late, recoveryVars>>

\* Top of the loop: the stop flag, then a heartbeat when one is due (LoopBeat).
LoopTop(w) ==
  /\ pc[w] = "idle"
  /\ ~stopping[w]
  /\ pc' = [pc EXCEPT ![w] = "polling"]
  /\ UNCHANGED <<queueVars, cur, run, timer, stopping, late, beatVars, recoveryVars>>

LoopBeat(w) ==
  /\ pc[w] = "idle"
  /\ ~stopping[w]
  /\ pc' = [pc EXCEPT ![w] = "polling"]
  /\ Beat(EmployeeOf[w], cur[w])
  /\ UNCHANGED <<queueVars, cur, run, timer, stopping, late, recoveryVars>>

\* That heartbeat is outside the try: a failed upsert rejects loopPromise and
\* the loop never runs again in this process.
LoopDies(w) ==
  /\ "db" \in Faults
  /\ pc[w] = "idle"
  /\ ~stopping[w]
  /\ pc' = [pc EXCEPT ![w] = "dead"]
  /\ UNCHANGED <<queueVars, cur, run, timer, stopping, late, beatVars, recoveryVars>>

ClaimNothing(w) ==
  /\ pc[w] = "polling"
  /\ pc' = [pc EXCEPT ![w] = "idle"]
  /\ UNCHANGED <<queueVars, cur, run, timer, stopping, late, beatVars, recoveryVars>>

ClaimMission(w, m) ==
  /\ pc[w] = "polling"
  /\ Claim(m, EmployeeOf[w])
  /\ pc' = [pc EXCEPT ![w] = "claimed"]
  /\ cur' = [cur EXCEPT ![w] = m]
  /\ run' = [run EXCEPT ![w] = [m |-> m, lease |-> lease'[m], attempt |-> attempt'[m]]]
  /\ UNCHANGED <<timer, stopping, late, beatVars, recoveryVars>>

\* The claim commits and its answer is lost: the loop's catch, then a new turn.
ClaimLost(w, m) ==
  /\ "db" \in Faults
  /\ pc[w] = "polling"
  /\ Claim(m, EmployeeOf[w])
  /\ pc' = [pc EXCEPT ![w] = "idle"]
  /\ UNCHANGED <<cur, run, timer, stopping, late, beatVars, recoveryVars>>

\* BeatingRunIsNotListed, when only the timer beats.
FaultyBusyBeat(w) ==
  /\ pc[w] = "claimed"
  /\ timer' = [timer EXCEPT ![w] = TRUE]
  /\ pc' = [pc EXCEPT ![w] = "executing"]
  /\ UNCHANGED <<queueVars, cur, run, stopping, late, beatVars, recoveryVars>>

\* The heartbeat that first names the mission, and the timer.
BusyBeat(w) ==
  /\ pc[w] = "claimed"
  /\ Beat(EmployeeOf[w], cur[w])
  /\ timer' = [timer EXCEPT ![w] = TRUE]
  /\ pc' = [pc EXCEPT ![w] = "executing"]
  /\ UNCHANGED <<queueVars, cur, run, stopping, late, recoveryVars>>

\* When it fails the outer catch drops the mission: it stops the timer and
\* goes on polling, and currentMissionId keeps its value.
BusyBeatFails(w) ==
  /\ "db" \in Faults
  /\ pc[w] = "claimed"
  /\ timer' = [timer EXCEPT ![w] = FALSE]
  /\ run' = [run EXCEPT ![w] = NoRun]
  /\ pc' = [pc EXCEPT ![w] = "idle"]
  /\ UNCHANGED <<queueVars, cur, stopping, late, beatVars, recoveryVars>>

\* The start of the finally block: the timer and currentMissionId.
EnterFinally(w) ==
  /\ pc' = [pc EXCEPT ![w] = "closing"]
  /\ timer' = [timer EXCEPT ![w] = FALSE]
  /\ cur' = [cur EXCEPT ![w] = Nobody]
  /\ run' = [run EXCEPT ![w] = NoRun]

\* execute() ends with complete(), or with markWaiting() for a root that
\* delegated.  The statement commits under the run's lease; what follows it in
\* execute() (events, promotion of dependents, the answer itself) may throw.
Settle(w) ==
  /\ pc[w] = "executing"
  /\ Complete(run[w].m, run[w].lease) \/ MarkWaiting(run[w].m, run[w].lease)
  /\ \/ EnterFinally(w)
     \/ /\ "db" \in Faults
        /\ pc' = [pc EXCEPT ![w] = "failing"]
        /\ UNCHANGED <<timer, cur, run>>
  /\ UNCHANGED <<stopping, late, beatVars, recoveryVars>>

\* The same statement finds the row under another lease or status: it changes
\* nothing and the StaleMissionOwnershipError is logged.
SettleStale(w) ==
  /\ pc[w] = "executing"
  /\ ~Owns(run[w].m, run[w].lease)
  /\ EnterFinally(w)
  /\ UNCHANGED <<queueVars, stopping, late, beatVars, recoveryVars>>

ExecuteThrows(w) ==
  /\ pc[w] = "executing"
  /\ pc' = [pc EXCEPT ![w] = "failing"]
  /\ UNCHANGED <<queueVars, cur, run, timer, stopping, late, beatVars, recoveryVars>>

\* The catch reports the error with fail(), under the same lease.
ReportFailure(w) ==
  /\ pc[w] = "failing"
  /\ \E err \in {"quota", "other"} : Fail(run[w].m, run[w].lease, err)
  /\ EnterFinally(w)
  /\ UNCHANGED <<stopping, late, beatVars, recoveryVars>>

ReportFailureStale(w) ==
  /\ pc[w] = "failing"
  /\ ~Owns(run[w].m, run[w].lease) \/ "db" \in Faults
  /\ EnterFinally(w)
  /\ UNCHANGED <<queueVars, stopping, late, beatVars, recoveryVars>>

\* The last statement of the finally block; a failure goes to the outer catch.
CloseBeat(w) ==
  /\ pc[w] = "closing"
  /\ BeatOrFail(EmployeeOf[w], cur[w])
  /\ pc' = [pc EXCEPT ![w] = "idle"]
  /\ UNCHANGED <<queueVars, cur, run, timer, stopping, late, recoveryVars>>

\* stop() ends the execution heartbeat at once, whatever the loop is doing,
\* and then waits for the loop.
RequestStop(w) ==
  /\ "stop" \in Faults
  /\ pc[w] \notin {"down", "dead"}
  /\ ~stopping[w]
  /\ stopping' = [stopping EXCEPT ![w] = TRUE]
  /\ timer' = [timer EXCEPT ![w] = FALSE]
  /\ BeatOrFail(EmployeeOf[w], cur[w])
  /\ UNCHANGED <<queueVars, pc, cur, run, late, recoveryVars>>

LoopExits(w) ==
  /\ pc[w] = "idle"
  /\ stopping[w]
  /\ pc' = [pc EXCEPT ![w] = "down"]
  /\ cur' = [cur EXCEPT ![w] = Nobody]
  /\ stopping' = [stopping EXCEPT ![w] = FALSE]
  /\ BeatOrFail(EmployeeOf[w], Nobody)
  /\ UNCHANGED <<queueVars, run, timer, late, recoveryVars>>

\* The process dies; statements already sent may still land.
Crash(w) ==
  /\ "crash" \in Faults
  /\ pc[w] # "down"
  /\ pc' = [pc EXCEPT ![w] = "down"]
  /\ cur' = [cur EXCEPT ![w] = Nobody]
  /\ run' = [run EXCEPT ![w] = NoRun]
  /\ timer' = [timer EXCEPT ![w] = FALSE]
  /\ stopping' = [stopping EXCEPT ![w] = FALSE]
  /\ UNCHANGED <<queueVars, late, beatVars, recoveryVars>>

-----------------------------------------------------------------------------
(* Recovery of RUNNING rows *)

\* OrphanIsRecovered, without the test of lastSeenAt.
FaultyAbandoned(m, e) == e \notin Employees \/ hb[e] # m

\* isRunningMissionAbandoned, for a positive liveness window.
Abandoned(m, e) == e \notin Employees \/ hb[e] # m \/ ~fresh[e]

\* findAbandonedRunning reads the RUNNING rows ...
ReadRunning(r) ==
  /\ rpc[r] = "idle"
  /\ LET running == {m \in Missions : status[m] = "RUNNING"} IN
       /\ running # {}
       /\ snap' = [snap EXCEPT ![r] =
            {[m |-> m, lease |-> lease[m], owner |-> owner[m]] : m \in running}]
  /\ rpc' = [rpc EXCEPT ![r] = "rows"]
  /\ UNCHANGED <<queueVars, workerVars, beatVars>>

\* ... and, in a second query, the heartbeats of their owners.
ReadHeartbeats(r) ==
  /\ rpc[r] = "rows"
  /\ snap' = [snap EXCEPT ![r] = {x \in @ : Abandoned(x.m, x.owner)}]
  /\ rpc' = [rpc EXCEPT ![r] = "found"]
  /\ UNCHANGED <<queueVars, workerVars, beatVars>>

\* One conditional update per abandoned row; a row that moved on is skipped.
RequeueOne(r, x) ==
  /\ rpc[r] = "found"
  /\ x \in snap[r]
  /\ \/ RecoverStale(x.m, x.lease)
     \/ ~Owns(x.m, x.lease) /\ UNCHANGED queueVars
  /\ snap' = [snap EXCEPT ![r] = @ \ {x}]
  /\ UNCHANGED <<rpc, workerVars, beatVars>>

RecoveryEnds(r) ==
  /\ rpc[r] = "found" /\ snap[r] = {}
  /\ rpc' = [rpc EXCEPT ![r] = "idle"]
  /\ UNCHANGED <<snap, queueVars, workerVars, beatVars>>

RecoveryCut(r) ==
  /\ "supervisor" \in Faults
  /\ rpc[r] # "idle"
  /\ rpc' = [rpc EXCEPT ![r] = "idle"]
  /\ snap' = [snap EXCEPT ![r] = {}]
  /\ UNCHANGED <<queueVars, workerVars, beatVars>>

-----------------------------------------------------------------------------

\* The rest of the system: producers, consolidation, other recoveries, maintenance.
Outside ==
  /\ \E m \in Missions :
       \/ Enqueue(m)
       \/ CompleteRoot(m)
       \/ RecoverFailed(m, attempt[m])
       \/ CancelOrphanWaiting(m)
       \/ PurgeExpiredRetry(m)
  /\ UNCHANGED <<workerVars, beatVars, recoveryVars>>

WorkerStep(w) ==
  \/ LoopTop(w)
  \/ LoopBeat(w)
  \/ LoopDies(w)
  \/ ClaimNothing(w)
  \/ \E m \in Missions : ClaimMission(w, m) \/ ClaimLost(w, m)
  \/ BusyBeat(w)
  \/ BusyBeatFails(w)
  \/ Settle(w)
  \/ SettleStale(w)
  \/ ExecuteThrows(w)
  \/ ReportFailure(w)
  \/ ReportFailureStale(w)
  \/ CloseBeat(w)
  \/ LoopExits(w)

RecoveryStep(r) ==
  \/ ReadRunning(r)
  \/ ReadHeartbeats(r)
  \/ \E x \in snap[r] : RequeueOne(r, x)
  \/ RecoveryEnds(r)

Next ==
  \/ \E w \in Workers :
       \/ WorkerStep(w)
       \/ Start(w)
       \/ TimerBeat(w)
       \/ \E m \in late[w] : LateBeatLands(w, m)
       \/ RequestStop(w)
       \/ Crash(w)
  \/ \E e \in Employees : Lapse(e)
  \/ \E r \in Recoverers : RecoveryStep(r) \/ RecoveryCut(r)
  \/ Outside

Spec == Init /\ [][Next]_vars

\* A worker that runs keeps looping and beats every heartbeatIntervalMs; the
\* supervisor's timer keeps calling the recovery; time passes.
FairSpec ==
  /\ Spec
  /\ \A w \in Workers : WF_vars(WorkerStep(w)) /\ SF_vars(LoopBeat(w))
  /\ \A r \in Recoverers : WF_vars(RecoveryStep(r))
  /\ \A e \in Employees : WF_vars(Lapse(e))

-----------------------------------------------------------------------------
(* Properties *)

TypeOK ==
  /\ QueueTypeOK
  /\ pc \in [Workers -> PC]
  /\ cur \in [Workers -> Missions \cup {Nobody}]
  /\ run \in [Workers -> Run]
  /\ timer \in [Workers -> BOOLEAN]
  /\ stopping \in [Workers -> BOOLEAN]
  /\ late \in [Workers -> SUBSET (Missions \cup {Nobody})]
  /\ hb \in [Employees -> Missions \cup {Nobody, NoRow}]
  /\ fresh \in [Employees -> BOOLEAN]
  /\ rpc \in [Recoverers -> {"idle", "rows", "found"}]
  /\ snap \in [Recoverers -> SUBSET Seen]

\* The loop iteration of w still has the right to settle mission m.
Holds(w, m) == status[m] = "RUNNING" /\ run[w].m = m /\ run[w].lease = lease[m]

\* However claims, crashes, late heartbeats and recoveries interleave, two loop
\* iterations never work under the same lease of the same mission, so at most
\* one can settle it (MQ-2, StaleMissionOwnershipError).
LeaseIsExclusive ==
  \A v, w \in Workers :
    /\ v # w
    /\ run[v].m # Nobody
    => ~(run[v].m = run[w].m /\ run[v].lease = run[w].lease)

\* The iteration that holds a RUNNING row is the last one that claimed it: the
\* row names its employee and counts its claim as the latest attempt.
HolderIsLastClaimant ==
  \A w \in Workers : \A m \in Missions :
    Holds(w, m) => owner[m] = EmployeeOf[w] /\ attempt[m] = run[w].attempt

\* A RUNNING mission is settled, failed or retried only by the iteration that
\* holds it, and that iteration drops it in the same step or on its way to
\* fail(); everybody else can only requeue it under a new lease.
OnlyTheHolderSettles ==
  [][\A m \in Missions :
       status[m] = "RUNNING" /\ status'[m] # "RUNNING" =>
         \/ status'[m] = "QUEUED" /\ lease'[m] > lease[m]
         \/ \E w \in Workers : Holds(w, m) /\ pc'[w] # pc[w]]_vars

\* With punctual heartbeats and one process per employee, an execution whose
\* busy heartbeat was written is not taken for abandoned, unless its worker is
\* being stopped (MQ-3: a healthy worker is not recovered).
BeatingRunIsNotListed ==
  [][\A r \in Recoverers : \A w \in Workers :
       /\ rpc[r] = "rows" /\ rpc'[r] = "found"
       /\ timer[w]
       => \A x \in snap'[r] : ~(x.m = run[w].m /\ x.lease = run[w].lease)]_vars

\* A RUNNING row that nobody works on.
Orphan(m) ==
  /\ status[m] = "RUNNING"
  /\ \A w \in Workers : ~Holds(w, m)

\* Every orphan is taken back: after a crash, a graceful stop or a lost
\* heartbeat the mission does not stay RUNNING for ever.
OrphanIsRecovered == \A m \in Missions : Orphan(m) ~> ~Orphan(m)

(***************************************************************************)
(* The implementation of MissionOwnership: leaseVersion, which recovery    *)
(* increments too, fences as well as a ticket per claim would.             *)
(***************************************************************************)
PhaseOf(s) ==
  CASE s = "ABSENT" -> "absent"
    [] s = "QUEUED" -> "free"
    [] s = "RUNNING" -> "held"
    [] s = "WAITING" -> "handed"
    [] s = "COMPLETED" -> "done"
    [] OTHER -> "dropped"

Ownership == INSTANCE MissionOwnership WITH
  Clients <- Workers,
  phase <- [m \in Missions |-> PhaseOf(status[m])],
  granted <- attempt,
  ticket <- [w \in Workers |-> [m |-> run[w].m, n |-> run[w].attempt]]

\* Every behaviour of the workers and recoveries is one of MissionOwnership:
\* only the newest claimant of a RUNNING mission decides its outcome.
ImplementsOwnership == Ownership!OwnershipSpec

=============================================================================
