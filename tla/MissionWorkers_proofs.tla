----------------------- MODULE MissionWorkers_proofs -----------------------
(***************************************************************************)
(* Theorems about MissionWorkers, for any set of workers, employees,       *)
(* missions, recoveries and faults.                                        *)
(***************************************************************************)
EXTENDS MissionWorkers, MissionQueue_proofs

(***************************************************************************)
(* The inductive invariant.  LeaseIsExclusive alone is not inductive: a    *)
(* claim issues a fresh lease only because every lease that a run or a     *)
(* recovery snapshot remembers was issued before.                          *)
(***************************************************************************)
BusyHasRun ==
  \A w \in Workers :
    pc[w] \in {"claimed", "executing", "failing"} => run[w].m \in Missions

RunLeaseIssued ==
  \A w \in Workers : run[w].m # Nobody => run[w].lease <= lease[run[w].m]

SnapLeaseIssued ==
  \A r \in Recoverers : \A x \in snap[r] : x.lease <= lease[x.m]

Fence == RunLeaseIssued /\ LeaseIsExclusive /\ HolderIsLastClaimant

IInv == TypeOK /\ BusyHasRun /\ SnapLeaseIssued /\ Fence

-----------------------------------------------------------------------------
(* What a step that is no claim does to rows and runs. *)

RowsRelease ==
  \A m \in Missions :
    /\ lease[m] <= lease'[m]
    /\ status'[m] = "RUNNING" =>
         /\ status[m] = "RUNNING"
         /\ lease'[m] = lease[m]
         /\ owner'[m] = owner[m]
         /\ attempt'[m] = attempt[m]

RunsShrink == \A w \in Workers : run'[w] \in {run[w], NoRun}

\* A step that claims nothing keeps the fence.
LEMMA FrameKeepsFence ==
  TypeOK /\ TypeOK' /\ Fence /\ RowsRelease /\ RunsShrink => Fence'
  <1> SUFFICES ASSUME TypeOK, TypeOK', Fence, RowsRelease, RunsShrink
               PROVE  Fence'
    OBVIOUS
  <1> USE WorkersAssumption DEF TypeOK, QueueTypeOK, Run, NoRun
  <1>1. RunLeaseIssued'
    <2> SUFFICES ASSUME NEW w \in Workers, run'[w].m # Nobody
                 PROVE  run'[w].lease <= lease'[run'[w].m]
      BY DEF RunLeaseIssued
    <2>1. run'[w] = run[w] /\ run[w].m \in Missions
      BY DEF RunsShrink
    <2>2. run[w].lease <= lease[run[w].m] /\ lease[run[w].m] <= lease'[run[w].m]
      BY <2>1 DEF Fence, RunLeaseIssued, RowsRelease
    <2>3. run[w].lease \in Nat /\ lease[run[w].m] \in Nat /\ lease'[run[w].m] \in Nat
      BY <2>1
    <2> QED
      BY <2>1, <2>2, <2>3
  <1>2. LeaseIsExclusive'
    <2> SUFFICES ASSUME NEW v \in Workers, NEW w \in Workers, v # w, run'[v].m # Nobody,
                        run'[v].m = run'[w].m, run'[v].lease = run'[w].lease
                 PROVE  FALSE
      BY DEF LeaseIsExclusive
    <2>1. run'[v] = run[v] /\ run'[w] = run[w]
      BY DEF RunsShrink
    <2> QED
      BY <2>1 DEF Fence, LeaseIsExclusive
  <1>3. HolderIsLastClaimant'
    <2> SUFFICES ASSUME NEW w \in Workers, NEW m \in Missions, Holds(w, m)'
                 PROVE  owner'[m] = EmployeeOf[w] /\ attempt'[m] = run'[w].attempt
      BY DEF HolderIsLastClaimant
    <2>1. run'[w] = run[w] /\ run[w].m = m
      BY DEF RunsShrink, Holds
    <2>2. Holds(w, m) /\ owner'[m] = owner[m] /\ attempt'[m] = attempt[m]
      BY <2>1 DEF RowsRelease, Holds, Owns
    <2> QED
      BY <2>1, <2>2 DEF Fence, HolderIsLastClaimant
  <1> QED
    BY <1>1, <1>2, <1>3 DEF Fence

\* A claim keeps the fence, whether or not its answer arrives: its lease is new.
LEMMA ClaimKeepsFence ==
  ASSUME NEW w \in Workers, NEW m \in Missions,
         TypeOK, TypeOK', Fence, Claim(m, EmployeeOf[w]),
         \/ run' = [run EXCEPT ![w] =
                      [m |-> m, lease |-> lease[m] + 1, attempt |-> attempt[m] + 1]]
         \/ UNCHANGED run
  PROVE  Fence'
  <1> USE QueueAssumption, WorkersAssumption DEF TypeOK, QueueTypeOK, Run, Claim
  <1>1. /\ lease' = [lease EXCEPT ![m] = @ + 1]
        /\ attempt' = [attempt EXCEPT ![m] = @ + 1]
        /\ owner' = [owner EXCEPT ![m] = EmployeeOf[w]]
        /\ status' = [status EXCEPT ![m] = "RUNNING"]
    OBVIOUS
  <1>2. \A v \in Workers : run[v].m = m => run[v].lease <= lease[m]
    <2>1. m # Nobody
      BY WorkersAssumption
    <2> QED
      BY <2>1 DEF Fence, RunLeaseIssued
  <1>3. \A v \in Workers :
          \/ run'[v] = run[v]
          \/ v = w /\ run'[v] = [m |-> m, lease |-> lease[m] + 1, attempt |-> attempt[m] + 1]
    OBVIOUS
  <1>4. RunLeaseIssued'
    <2> SUFFICES ASSUME NEW v \in Workers, run'[v].m # Nobody
                 PROVE  run'[v].lease <= lease'[run'[v].m]
      BY DEF RunLeaseIssued
    <2>1. CASE run'[v] = run[v]
      <3>1. run[v].m \in Missions /\ run[v].lease \in Nat
        BY <2>1
      <3>2. run[v].lease <= lease[run[v].m] /\ lease[run[v].m] <= lease'[run[v].m]
        BY <1>1, <2>1, <3>1 DEF Fence, RunLeaseIssued
      <3> QED
        BY <2>1, <3>1, <3>2
    <2>2. CASE run'[v] # run[v]
      BY <1>1, <1>3, <2>2
    <2> QED
      BY <2>1, <2>2
  <1>5. LeaseIsExclusive'
    <2> SUFFICES ASSUME NEW u \in Workers, NEW v \in Workers, u # v, run'[u].m # Nobody,
                        run'[u].m = run'[v].m, run'[u].lease = run'[v].lease
                 PROVE  FALSE
      BY DEF LeaseIsExclusive
    <2>1. CASE run'[u] = run[u] /\ run'[v] = run[v]
      BY <2>1 DEF Fence, LeaseIsExclusive
    <2>2. CASE run'[u] # run[u]
      BY <2>2, <1>2, <1>3
    <2>3. CASE run'[v] # run[v]
      BY <2>3, <1>2, <1>3
    <2> QED
      BY <2>1, <2>2, <2>3
  <1>6. HolderIsLastClaimant'
    <2> SUFFICES ASSUME NEW v \in Workers, NEW k \in Missions, Holds(v, k)'
                 PROVE  owner'[k] = EmployeeOf[v] /\ attempt'[k] = run'[v].attempt
      BY DEF HolderIsLastClaimant
    <2>1. CASE run'[v] # run[v]
      BY <1>1, <1>3, <2>1 DEF Holds
    <2>2. CASE run'[v] = run[v] /\ k # m
      <3>1. Holds(v, k) /\ owner'[k] = owner[k] /\ attempt'[k] = attempt[k]
        BY <1>1, <2>2 DEF Holds, Owns
      <3> QED
        BY <3>1, <2>2 DEF Fence, HolderIsLastClaimant
    <2>3. CASE run'[v] = run[v] /\ k = m
      <3>1. run[v].m = m /\ run[v].lease = lease[m] + 1
        BY <1>1, <2>3 DEF Holds, Owns
      <3> QED
        BY <3>1, <1>2
    <2> QED
      BY <2>1, <2>2, <2>3
  <1> QED
    BY <1>4, <1>5, <1>6 DEF Fence

\* The lease that an iteration presents is one that its row has issued.
LEMMA RunInRange ==
  ASSUME IInv, NEW w \in Workers, run[w].m \in Missions
  PROVE  run[w].lease \in 0..lease[run[w].m]
  <1>1. run[w].lease \in Nat /\ lease[run[w].m] \in Nat
    BY DEF IInv, TypeOK, QueueTypeOK, Run
  <1>2. run[w].lease <= lease[run[w].m]
    BY WorkersAssumption DEF IInv, Fence, RunLeaseIssued
  <1> QED
    BY <1>1, <1>2

\* So is the lease that a recovery has read.
LEMMA SnapInRange ==
  ASSUME IInv, NEW r \in Recoverers, NEW x \in snap[r]
  PROVE  x \in Seen /\ x.m \in Missions /\ x.lease \in 0..lease[x.m]
  <1>1. x \in Seen
    BY DEF IInv, TypeOK
  <1>2. x.m \in Missions /\ x.lease \in Nat /\ lease[x.m] \in Nat
    BY <1>1 DEF Seen, IInv, TypeOK, QueueTypeOK
  <1>3. x.lease <= lease[x.m]
    BY DEF IInv, SnapLeaseIssued
  <1> QED
    BY <1>1, <1>2, <1>3

-----------------------------------------------------------------------------
(* The workers and recoveries drive the mission table only by its own      *)
(* actions, so what is proved of MissionQueue holds here.                  *)

\* Every step of the actors is a step of the table or leaves the table alone.
LEMMA QueueStep == IInv /\ [Next]_vars => [QueueNext]_queueVars
  <1> SUFFICES ASSUME IInv, [Next]_vars
               PROVE  [QueueNext]_queueVars
    OBVIOUS
  <1> USE QueueAssumption, WorkersAssumption DEF IInv
  <1>1. ASSUME NEW w \in Workers, LoopTop(w)
         PROVE  [QueueNext]_queueVars
    BY <1>1 DEF LoopTop
  <1>2. ASSUME NEW w \in Workers, LoopBeat(w)
         PROVE  [QueueNext]_queueVars
    BY <1>2 DEF LoopBeat
  <1>3. ASSUME NEW w \in Workers, LoopDies(w)
         PROVE  [QueueNext]_queueVars
    BY <1>3 DEF LoopDies
  <1>4. ASSUME NEW w \in Workers, ClaimNothing(w)
         PROVE  [QueueNext]_queueVars
    BY <1>4 DEF ClaimNothing
  <1>5. ASSUME NEW w \in Workers, NEW m \in Missions, ClaimMission(w, m)
         PROVE  [QueueNext]_queueVars
    <2>1. EmployeeOf[w] \in Employees /\ Claim(m, EmployeeOf[w])
      BY <1>5 DEF ClaimMission
    <2> QED
      BY <2>1 DEF QueueNext
  <1>6. ASSUME NEW w \in Workers, NEW m \in Missions, ClaimLost(w, m)
         PROVE  [QueueNext]_queueVars
    <2>1. EmployeeOf[w] \in Employees /\ Claim(m, EmployeeOf[w])
      BY <1>6 DEF ClaimLost
    <2> QED
      BY <2>1 DEF QueueNext
  <1>7. ASSUME NEW w \in Workers, BusyBeat(w)
         PROVE  [QueueNext]_queueVars
    BY <1>7 DEF BusyBeat
  <1>8. ASSUME NEW w \in Workers, BusyBeatFails(w)
         PROVE  [QueueNext]_queueVars
    BY <1>8 DEF BusyBeatFails
  <1>9. ASSUME NEW w \in Workers, Settle(w)
         PROVE  [QueueNext]_queueVars
    <2>1. run[w].m \in Missions /\ run[w].lease \in 0..lease[run[w].m]
      BY <1>9, RunInRange DEF Settle, BusyHasRun
    <2> QED
      BY <1>9, <2>1 DEF Settle, QueueNext
  <1>10. ASSUME NEW w \in Workers, SettleStale(w)
         PROVE  [QueueNext]_queueVars
    BY <1>10 DEF SettleStale
  <1>11. ASSUME NEW w \in Workers, ExecuteThrows(w)
         PROVE  [QueueNext]_queueVars
    BY <1>11 DEF ExecuteThrows
  <1>12. ASSUME NEW w \in Workers, ReportFailure(w)
         PROVE  [QueueNext]_queueVars
    <2>1. run[w].m \in Missions /\ run[w].lease \in 0..lease[run[w].m]
      BY <1>12, RunInRange DEF ReportFailure, BusyHasRun
    <2> QED
      BY <1>12, <2>1 DEF ReportFailure, QueueNext
  <1>13. ASSUME NEW w \in Workers, ReportFailureStale(w)
         PROVE  [QueueNext]_queueVars
    BY <1>13 DEF ReportFailureStale
  <1>14. ASSUME NEW w \in Workers, CloseBeat(w)
         PROVE  [QueueNext]_queueVars
    BY <1>14 DEF CloseBeat
  <1>15. ASSUME NEW w \in Workers, LoopExits(w)
         PROVE  [QueueNext]_queueVars
    BY <1>15 DEF LoopExits
  <1>16. ASSUME NEW w \in Workers, Start(w)
         PROVE  [QueueNext]_queueVars
    BY <1>16 DEF Start
  <1>17. ASSUME NEW w \in Workers, TimerBeat(w)
         PROVE  [QueueNext]_queueVars
    BY <1>17 DEF TimerBeat
  <1>18. ASSUME NEW w \in Workers, NEW m \in late[w], LateBeatLands(w, m)
         PROVE  [QueueNext]_queueVars
    BY <1>18 DEF LateBeatLands
  <1>19. ASSUME NEW w \in Workers, RequestStop(w)
         PROVE  [QueueNext]_queueVars
    BY <1>19 DEF RequestStop
  <1>20. ASSUME NEW w \in Workers, Crash(w)
         PROVE  [QueueNext]_queueVars
    BY <1>20 DEF Crash
  <1>21. ASSUME NEW e \in Employees, Lapse(e)
         PROVE  [QueueNext]_queueVars
    BY <1>21 DEF Lapse
  <1>22. ASSUME NEW r \in Recoverers, ReadRunning(r)
         PROVE  [QueueNext]_queueVars
    BY <1>22 DEF ReadRunning
  <1>23. ASSUME NEW r \in Recoverers, ReadHeartbeats(r)
         PROVE  [QueueNext]_queueVars
    BY <1>23 DEF ReadHeartbeats
  <1>24. ASSUME NEW r \in Recoverers, NEW x \in snap[r], RequeueOne(r, x)
         PROVE  [QueueNext]_queueVars
    <2>1. x.m \in Missions /\ x.lease \in 0..lease[x.m]
      BY SnapInRange
    <2> QED
      BY <1>24, <2>1 DEF RequeueOne, QueueNext
  <1>25. ASSUME NEW r \in Recoverers, RecoveryEnds(r)
         PROVE  [QueueNext]_queueVars
    BY <1>25 DEF RecoveryEnds
  <1>26. ASSUME NEW r \in Recoverers, RecoveryCut(r)
         PROVE  [QueueNext]_queueVars
    BY <1>26 DEF RecoveryCut
  <1>27. ASSUME Outside
         PROVE  [QueueNext]_queueVars
    BY <1>27 DEF Outside, QueueNext
  <1>28. CASE UNCHANGED vars
    BY <1>28 DEF vars, queueVars
  <1> QED
    BY <1>1, <1>2, <1>3, <1>4, <1>5, <1>6, <1>7, <1>8, <1>9, <1>10, <1>11,
       <1>12, <1>13, <1>14, <1>15, <1>16, <1>17, <1>18, <1>19, <1>20, <1>21,
       <1>22, <1>23, <1>24, <1>25, <1>26, <1>27, <1>28
    DEF Next, WorkerStep, RecoveryStep

-----------------------------------------------------------------------------
(* Types of the worker, heartbeat and recovery variables. *)

ActorTypeOK ==
  /\ pc \in [Workers -> PC]
  /\ cur \in [Workers -> Missions \cup {Nobody}]
  /\ run \in [Workers -> Run]
  /\ timer \in [Workers -> BOOLEAN]
  /\ stopping \in [Workers -> BOOLEAN]
  /\ late \in [Workers -> SUBSET (Missions \cup {Nobody})]
  /\ hb \in [Employees -> Missions \cup {Nobody, NoRow}]
  /\ fresh \in [Employees -> BOOLEAN]
  /\ rpc \in [Recoverers -> {"idle", "rows", "found"}]
  /\ snap \in [Recoverers -> SUBSET Seen]

\* A heartbeat, written or failed, keeps the types of the heartbeat rows.
LEMMA BeatTypes ==
  ASSUME ActorTypeOK, NEW w \in Workers, NEW m \in Missions \cup {Nobody},
         BeatOrFail(EmployeeOf[w], m)
  PROVE  /\ hb' \in [Employees -> Missions \cup {Nobody, NoRow}]
         /\ fresh' \in [Employees -> BOOLEAN]
  BY DEF ActorTypeOK, BeatOrFail, Beat, beatVars

\* The finally block keeps the types of the worker's memory.
LEMMA FinallyTypes ==
  ASSUME ActorTypeOK, NEW w \in Workers, EnterFinally(w)
  PROVE  /\ pc' \in [Workers -> PC]
         /\ timer' \in [Workers -> BOOLEAN]
         /\ cur' \in [Workers -> Missions \cup {Nobody}]
         /\ run' \in [Workers -> Run]
  BY DEF ActorTypeOK, EnterFinally, PC, Run, NoRun

\* Every step keeps the types of the actors' memory.
LEMMA ActorTypeStep == IInv /\ [Next]_vars => ActorTypeOK'
  <1> SUFFICES ASSUME IInv, [Next]_vars
               PROVE  ActorTypeOK'
    OBVIOUS
  <1>0. ActorTypeOK /\ QueueTypeOK
    BY DEF IInv, TypeOK, ActorTypeOK
  <1> USE <1>0, QueueAssumption, WorkersAssumption DEF ActorTypeOK, PC, Run
  <1>1. ASSUME NEW w \in Workers, LoopTop(w)
         PROVE  ActorTypeOK'
    BY <1>1 DEF LoopTop, workerVars, beatVars, recoveryVars
  <1>2. ASSUME NEW w \in Workers, LoopBeat(w)
         PROVE  ActorTypeOK'
    <2>1. BeatOrFail(EmployeeOf[w], cur[w])
      BY <1>2 DEF LoopBeat, BeatOrFail
    <2>2. hb' \in [Employees -> Missions \cup {Nobody, NoRow}] /\ fresh' \in [Employees -> BOOLEAN]
      BY <2>1, BeatTypes
    <2> QED
      BY <1>2, <2>2 DEF LoopBeat, workerVars, recoveryVars
  <1>3. ASSUME NEW w \in Workers, LoopDies(w)
         PROVE  ActorTypeOK'
    BY <1>3 DEF LoopDies, workerVars, beatVars, recoveryVars
  <1>4. ASSUME NEW w \in Workers, ClaimNothing(w)
         PROVE  ActorTypeOK'
    BY <1>4 DEF ClaimNothing, workerVars, beatVars, recoveryVars
  <1>5. ASSUME NEW w \in Workers, NEW m \in Missions, ClaimMission(w, m)
         PROVE  ActorTypeOK'
    <2>1. lease'[m] \in Nat /\ attempt'[m] \in Nat
      BY <1>5 DEF ClaimMission, Claim, QueueTypeOK
    <2> QED
      BY <1>5, <2>1 DEF ClaimMission, workerVars, beatVars, recoveryVars
  <1>6. ASSUME NEW w \in Workers, NEW m \in Missions, ClaimLost(w, m)
         PROVE  ActorTypeOK'
    BY <1>6 DEF ClaimLost, workerVars, beatVars, recoveryVars
  <1>7. ASSUME NEW w \in Workers, BusyBeat(w)
         PROVE  ActorTypeOK'
    <2>1. BeatOrFail(EmployeeOf[w], cur[w])
      BY <1>7 DEF BusyBeat, BeatOrFail
    <2>2. hb' \in [Employees -> Missions \cup {Nobody, NoRow}] /\ fresh' \in [Employees -> BOOLEAN]
      BY <2>1, BeatTypes
    <2> QED
      BY <1>7, <2>2 DEF BusyBeat, workerVars, recoveryVars
  <1>8. ASSUME NEW w \in Workers, BusyBeatFails(w)
         PROVE  ActorTypeOK'
    BY <1>8 DEF BusyBeatFails, NoRun, workerVars, beatVars, recoveryVars
  <1>9. ASSUME NEW w \in Workers, Settle(w)
         PROVE  ActorTypeOK'
    <2>1. CASE EnterFinally(w)
      BY <1>9, <2>1, FinallyTypes DEF Settle, beatVars, recoveryVars
    <2>2. CASE ~EnterFinally(w)
      BY <1>9, <2>2 DEF Settle, beatVars, recoveryVars
    <2> QED
      BY <2>1, <2>2
  <1>10. ASSUME NEW w \in Workers, SettleStale(w)
         PROVE  ActorTypeOK'
    <2>1. EnterFinally(w)
      BY <1>10 DEF SettleStale
    <2> QED
      BY <1>10, <2>1, FinallyTypes DEF SettleStale, beatVars, recoveryVars
  <1>11. ASSUME NEW w \in Workers, ExecuteThrows(w)
         PROVE  ActorTypeOK'
    BY <1>11 DEF ExecuteThrows, workerVars, beatVars, recoveryVars
  <1>12. ASSUME NEW w \in Workers, ReportFailure(w)
         PROVE  ActorTypeOK'
    <2>1. EnterFinally(w)
      BY <1>12 DEF ReportFailure
    <2> QED
      BY <1>12, <2>1, FinallyTypes DEF ReportFailure, beatVars, recoveryVars
  <1>13. ASSUME NEW w \in Workers, ReportFailureStale(w)
         PROVE  ActorTypeOK'
    <2>1. EnterFinally(w)
      BY <1>13 DEF ReportFailureStale
    <2> QED
      BY <1>13, <2>1, FinallyTypes DEF ReportFailureStale, beatVars, recoveryVars
  <1>14. ASSUME NEW w \in Workers, CloseBeat(w)
         PROVE  ActorTypeOK'
    <2>1. BeatOrFail(EmployeeOf[w], cur[w])
      BY <1>14 DEF CloseBeat, BeatOrFail
    <2>2. hb' \in [Employees -> Missions \cup {Nobody, NoRow}] /\ fresh' \in [Employees -> BOOLEAN]
      BY <2>1, BeatTypes
    <2> QED
      BY <1>14, <2>2 DEF CloseBeat, workerVars, recoveryVars
  <1>15. ASSUME NEW w \in Workers, LoopExits(w)
         PROVE  ActorTypeOK'
    <2>1. BeatOrFail(EmployeeOf[w], Nobody)
      BY <1>15 DEF LoopExits, BeatOrFail
    <2>2. hb' \in [Employees -> Missions \cup {Nobody, NoRow}] /\ fresh' \in [Employees -> BOOLEAN]
      BY <2>1, BeatTypes
    <2> QED
      BY <1>15, <2>2 DEF LoopExits, workerVars, recoveryVars
  <1>16. ASSUME NEW w \in Workers, Start(w)
         PROVE  ActorTypeOK'
    <2>1. BeatOrFail(EmployeeOf[w], Nobody)
      BY <1>16 DEF Start, BeatOrFail
    <2>2. hb' \in [Employees -> Missions \cup {Nobody, NoRow}] /\ fresh' \in [Employees -> BOOLEAN]
      BY <2>1, BeatTypes
    <2> QED
      BY <1>16, <2>2 DEF Start, workerVars, recoveryVars
  <1>17. ASSUME NEW w \in Workers, TimerBeat(w)
         PROVE  ActorTypeOK'
    <2>1. late' \in [Workers -> SUBSET (Missions \cup {Nobody})]
      BY <1>17 DEF TimerBeat
    <2>2. BeatOrFail(EmployeeOf[w], cur[w]) \/ UNCHANGED beatVars
      BY <1>17 DEF TimerBeat, BeatOrFail
    <2>3. hb' \in [Employees -> Missions \cup {Nobody, NoRow}] /\ fresh' \in [Employees -> BOOLEAN]
      BY <2>2, BeatTypes DEF beatVars
    <2> QED
      BY <1>17, <2>1, <2>3 DEF TimerBeat, recoveryVars
  <1>18. ASSUME NEW w \in Workers, NEW m \in late[w], LateBeatLands(w, m)
         PROVE  ActorTypeOK'
    BY <1>18 DEF LateBeatLands, workerVars, beatVars, recoveryVars
  <1>19. ASSUME NEW w \in Workers, RequestStop(w)
         PROVE  ActorTypeOK'
    <2>1. BeatOrFail(EmployeeOf[w], cur[w])
      BY <1>19 DEF RequestStop, BeatOrFail
    <2>2. hb' \in [Employees -> Missions \cup {Nobody, NoRow}] /\ fresh' \in [Employees -> BOOLEAN]
      BY <2>1, BeatTypes
    <2> QED
      BY <1>19, <2>2 DEF RequestStop, workerVars, recoveryVars
  <1>20. ASSUME NEW w \in Workers, Crash(w)
         PROVE  ActorTypeOK'
    BY <1>20 DEF Crash, NoRun, workerVars, beatVars, recoveryVars
  <1>21. ASSUME NEW e \in Employees, Lapse(e)
         PROVE  ActorTypeOK'
    BY <1>21 DEF Lapse, workerVars, beatVars, recoveryVars
  <1>22. ASSUME NEW r \in Recoverers, ReadRunning(r)
         PROVE  ActorTypeOK'
    <2>1. snap'[r] \subseteq Seen
      BY <1>22 DEF ReadRunning, QueueTypeOK, Seen
    <2> QED
      BY <1>22, <2>1 DEF ReadRunning, workerVars, beatVars, recoveryVars
  <1>23. ASSUME NEW r \in Recoverers, ReadHeartbeats(r)
         PROVE  ActorTypeOK'
    BY <1>23 DEF ReadHeartbeats, workerVars, beatVars, recoveryVars
  <1>24. ASSUME NEW r \in Recoverers, NEW x \in snap[r], RequeueOne(r, x)
         PROVE  ActorTypeOK'
    BY <1>24 DEF RequeueOne, workerVars, beatVars, recoveryVars
  <1>25. ASSUME NEW r \in Recoverers, RecoveryEnds(r)
         PROVE  ActorTypeOK'
    BY <1>25 DEF RecoveryEnds, workerVars, beatVars, recoveryVars
  <1>26. ASSUME NEW r \in Recoverers, RecoveryCut(r)
         PROVE  ActorTypeOK'
    BY <1>26 DEF RecoveryCut, workerVars, beatVars, recoveryVars
  <1>27. ASSUME Outside
         PROVE  ActorTypeOK'
    BY <1>27 DEF Outside, workerVars, beatVars, recoveryVars
  <1>28. CASE UNCHANGED vars
    BY <1>28 DEF vars, workerVars, beatVars, recoveryVars
  <1> QED
    BY <1>1, <1>2, <1>3, <1>4, <1>5, <1>6, <1>7, <1>8, <1>9, <1>10, <1>11,
       <1>12, <1>13, <1>14, <1>15, <1>16, <1>17, <1>18, <1>19, <1>20, <1>21,
       <1>22, <1>23, <1>24, <1>25, <1>26, <1>27, <1>28
    DEF Next, WorkerStep, RecoveryStep

-----------------------------------------------------------------------------
(* The shape of a step.  Towards the mission table every step is one of    *)
(* six moves; snapshots only hold what was read from the table; a busy     *)
(* loop has a mission.                                                     *)

Rests == UNCHANGED <<queueVars, run>>

Drops(w) == UNCHANGED queueVars /\ run' = [run EXCEPT ![w] = NoRun]

Claims(w, m) ==
  /\ Claim(m, EmployeeOf[w])
  /\ \/ run' = [run EXCEPT ![w] =
                  [m |-> m, lease |-> lease[m] + 1, attempt |-> attempt[m] + 1]]
     \/ UNCHANGED run

Decides(w, m, l) ==
  /\ run[w].m = m /\ run[w].lease = l
  /\ \/ Complete(m, l)
     \/ MarkWaiting(m, l)
     \/ \E err \in {"quota", "other"} : Fail(m, l, err)
  /\ run' \in {run, [run EXCEPT ![w] = NoRun]}
  /\ pc'[w] # pc[w]

Requeues(m, l) == RecoverStale(m, l) /\ UNCHANGED run

Administers(m) ==
  /\ \/ Enqueue(m)
     \/ CompleteRoot(m)
     \/ RecoverFailed(m, attempt[m])
     \/ CancelOrphanWaiting(m)
     \/ PurgeExpiredRetry(m)
  /\ UNCHANGED run

Move ==
  \/ Rests
  \/ \E w \in Workers : Drops(w)
  \/ \E w \in Workers, m \in Missions : Claims(w, m)
  \/ \E w \in Workers, m \in Missions, l \in Nat : Decides(w, m, l)
  \/ \E m \in Missions, l \in Nat : Requeues(m, l)
  \/ \E m \in Missions : Administers(m)

SnapsRead ==
  \A r \in Recoverers : \A x \in snap'[r] :
    \/ x \in snap[r]
    \/ status[x.m] = "RUNNING" /\ x.lease = lease[x.m] /\ x.owner = owner[x.m]

StepShape == Move /\ SnapsRead /\ BusyHasRun'

\* Every step is one of the moves above: the case split that all proofs below use.
LEMMA StepHasShape == IInv /\ [Next]_vars => StepShape
  <1> SUFFICES ASSUME IInv, [Next]_vars
               PROVE  StepShape
    OBVIOUS
  <1>0. TypeOK /\ BusyHasRun
    BY DEF IInv
  <1> USE <1>0, QueueAssumption, WorkersAssumption
      DEF StepShape, Move, SnapsRead, TypeOK, BusyHasRun
  <1>1. ASSUME NEW w \in Workers, LoopTop(w)
         PROVE  StepShape
    BY <1>1 DEF LoopTop, Rests, workerVars, beatVars, recoveryVars
  <1>2. ASSUME NEW w \in Workers, LoopBeat(w)
         PROVE  StepShape
    BY <1>2 DEF LoopBeat, Rests, workerVars, beatVars, recoveryVars
  <1>3. ASSUME NEW w \in Workers, LoopDies(w)
         PROVE  StepShape
    BY <1>3 DEF LoopDies, Rests, workerVars, beatVars, recoveryVars
  <1>4. ASSUME NEW w \in Workers, ClaimNothing(w)
         PROVE  StepShape
    BY <1>4 DEF ClaimNothing, Rests, workerVars, beatVars, recoveryVars
  <1>5. ASSUME NEW w \in Workers, NEW m \in Missions, ClaimMission(w, m)
         PROVE  StepShape
    <2>1. Claims(w, m)
      <3>1. lease'[m] = lease[m] + 1 /\ attempt'[m] = attempt[m] + 1
        BY <1>5 DEF ClaimMission, Claim, QueueTypeOK
      <3> QED
        BY <1>5, <3>1 DEF ClaimMission, Claims
    <2>2. SnapsRead /\ BusyHasRun'
      BY <1>5 DEF ClaimMission, Run, recoveryVars
    <2> QED
      BY <2>1, <2>2
  <1>6. ASSUME NEW w \in Workers, NEW m \in Missions, ClaimLost(w, m)
         PROVE  StepShape
    <2>1. Claims(w, m)
      BY <1>6 DEF ClaimLost, Claims
    <2> QED
      BY <1>6, <2>1 DEF ClaimLost, recoveryVars
  <1>7. ASSUME NEW w \in Workers, BusyBeat(w)
         PROVE  StepShape
    BY <1>7 DEF BusyBeat, Rests, workerVars, beatVars, recoveryVars
  <1>8. ASSUME NEW w \in Workers, BusyBeatFails(w)
         PROVE  StepShape
    <2>1. Drops(w)
      BY <1>8 DEF BusyBeatFails, Drops
    <2> QED
      BY <1>8, <2>1 DEF BusyBeatFails, recoveryVars
  <1>9. ASSUME NEW w \in Workers, Settle(w)
         PROVE  StepShape
    <2>1. run[w].m \in Missions /\ run[w].lease \in Nat
      BY <1>9 DEF Settle, Run
    <2>2. Decides(w, run[w].m, run[w].lease)
      BY <1>9 DEF Settle, EnterFinally, Decides, PC
    <2>3. SnapsRead /\ BusyHasRun'
      BY <1>9 DEF Settle, EnterFinally, recoveryVars
    <2> QED
      BY <2>1, <2>2, <2>3
  <1>10. ASSUME NEW w \in Workers, SettleStale(w)
         PROVE  StepShape
    <2>1. Drops(w)
      BY <1>10 DEF SettleStale, EnterFinally, Drops
    <2> QED
      BY <1>10, <2>1 DEF SettleStale, EnterFinally, recoveryVars
  <1>11. ASSUME NEW w \in Workers, ExecuteThrows(w)
         PROVE  StepShape
    BY <1>11 DEF ExecuteThrows, Rests, workerVars, beatVars, recoveryVars
  <1>12. ASSUME NEW w \in Workers, ReportFailure(w)
         PROVE  StepShape
    <2>1. run[w].m \in Missions /\ run[w].lease \in Nat
      BY <1>12 DEF ReportFailure, Run
    <2>2. Decides(w, run[w].m, run[w].lease)
      BY <1>12 DEF ReportFailure, EnterFinally, Decides, PC
    <2>3. SnapsRead /\ BusyHasRun'
      BY <1>12 DEF ReportFailure, EnterFinally, recoveryVars
    <2> QED
      BY <2>1, <2>2, <2>3
  <1>13. ASSUME NEW w \in Workers, ReportFailureStale(w)
         PROVE  StepShape
    <2>1. Drops(w)
      BY <1>13 DEF ReportFailureStale, EnterFinally, Drops
    <2> QED
      BY <1>13, <2>1 DEF ReportFailureStale, EnterFinally, recoveryVars
  <1>14. ASSUME NEW w \in Workers, CloseBeat(w)
         PROVE  StepShape
    BY <1>14 DEF CloseBeat, Rests, workerVars, beatVars, recoveryVars
  <1>15. ASSUME NEW w \in Workers, LoopExits(w)
         PROVE  StepShape
    BY <1>15 DEF LoopExits, Rests, workerVars, beatVars, recoveryVars
  <1>16. ASSUME NEW w \in Workers, Start(w)
         PROVE  StepShape
    BY <1>16 DEF Start, Rests, workerVars, beatVars, recoveryVars
  <1>17. ASSUME NEW w \in Workers, TimerBeat(w)
         PROVE  StepShape
    BY <1>17 DEF TimerBeat, Rests, workerVars, beatVars, recoveryVars
  <1>18. ASSUME NEW w \in Workers, NEW m \in late[w], LateBeatLands(w, m)
         PROVE  StepShape
    BY <1>18 DEF LateBeatLands, Rests, workerVars, beatVars, recoveryVars
  <1>19. ASSUME NEW w \in Workers, RequestStop(w)
         PROVE  StepShape
    BY <1>19 DEF RequestStop, Rests, workerVars, beatVars, recoveryVars
  <1>20. ASSUME NEW w \in Workers, Crash(w)
         PROVE  StepShape
    <2>1. Drops(w)
      BY <1>20 DEF Crash, Drops
    <2> QED
      BY <1>20, <2>1 DEF Crash, recoveryVars
  <1>21. ASSUME NEW e \in Employees, Lapse(e)
         PROVE  StepShape
    BY <1>21 DEF Lapse, Rests, workerVars, beatVars, recoveryVars
  <1>22. ASSUME NEW r \in Recoverers, ReadRunning(r)
         PROVE  StepShape
    BY <1>22 DEF ReadRunning, Rests, workerVars, beatVars, recoveryVars
  <1>23. ASSUME NEW r \in Recoverers, ReadHeartbeats(r)
         PROVE  StepShape
    BY <1>23 DEF ReadHeartbeats, Rests, workerVars, beatVars, recoveryVars
  <1>24. ASSUME NEW r \in Recoverers, NEW x \in snap[r], RequeueOne(r, x)
         PROVE  StepShape
    <2>1. x.m \in Missions /\ x.lease \in Nat
      BY SnapInRange DEF Seen
    <2>2. Rests \/ Requeues(x.m, x.lease)
      BY <1>24, <2>1 DEF RequeueOne, Rests, Requeues, workerVars
    <2> QED
      BY <1>24, <2>1, <2>2 DEF RequeueOne, workerVars
  <1>25. ASSUME NEW r \in Recoverers, RecoveryEnds(r)
         PROVE  StepShape
    BY <1>25 DEF RecoveryEnds, Rests, workerVars, beatVars, recoveryVars
  <1>26. ASSUME NEW r \in Recoverers, RecoveryCut(r)
         PROVE  StepShape
    BY <1>26 DEF RecoveryCut, Rests, workerVars, beatVars, recoveryVars
  <1>27. ASSUME Outside
         PROVE  StepShape
    BY <1>27 DEF Outside, Administers, workerVars, beatVars, recoveryVars
  <1>28. CASE UNCHANGED vars
    BY <1>28 DEF Rests, vars, workerVars, beatVars, recoveryVars
  <1> QED
    BY <1>1, <1>2, <1>3, <1>4, <1>5, <1>6, <1>7, <1>8, <1>9, <1>10, <1>11,
       <1>12, <1>13, <1>14, <1>15, <1>16, <1>17, <1>18, <1>19, <1>20, <1>21,
       <1>22, <1>23, <1>24, <1>25, <1>26, <1>27, <1>28
    DEF Next, WorkerStep, RecoveryStep

-----------------------------------------------------------------------------
(* The theorems. *)

\* Only a claim makes a row RUNNING, and no statement lowers a lease.
LEMMA MovesRelease ==
  ASSUME TypeOK, Move
  PROVE  \/ RowsRelease /\ RunsShrink
         \/ \E w \in Workers, m \in Missions : Claims(w, m)
  <1> USE QueueAssumption DEF TypeOK, QueueTypeOK
  <1>1. CASE Rests
    BY <1>1 DEF Rests, queueVars, RowsRelease, RunsShrink
  <1>2. ASSUME NEW w \in Workers, Drops(w)
        PROVE  RowsRelease /\ RunsShrink
    BY <1>2 DEF Drops, queueVars, RowsRelease, RunsShrink
  <1>3. ASSUME NEW w \in Workers, NEW m \in Missions, NEW l \in Nat, Decides(w, m, l)
        PROVE  RowsRelease /\ RunsShrink
    BY <1>3 DEF Decides, RowsRelease, RunsShrink, Owns, Complete, MarkWaiting, Fail
  <1>4. ASSUME NEW m \in Missions, NEW l \in Nat, Requeues(m, l)
        PROVE  RowsRelease /\ RunsShrink
    BY <1>4 DEF Requeues, RowsRelease, RunsShrink, Owns, RecoverStale
  <1>5. ASSUME NEW m \in Missions, Administers(m)
        PROVE  RowsRelease /\ RunsShrink
    BY <1>5 DEF Administers, RowsRelease, RunsShrink, Enqueue, CompleteRoot, RecoverFailed,
                CancelOrphanWaiting, PurgeExpiredRetry
  <1> QED
    BY <1>1, <1>2, <1>3, <1>4, <1>5 DEF Move

\* The types and the fence hold initially and every step keeps them.
LEMMA InvInit == Init => IInv
  <1> SUFFICES ASSUME Init
               PROVE  IInv
    OBVIOUS
  <1>1. TypeOK
    BY QueueTypeInit DEF Init, TypeOK, PC, Run, NoRun, Seen
  <1>2. \A w \in Workers : run[w].m = Nobody /\ pc[w] = "down"
    BY DEF Init, NoRun
  <1>3. BusyHasRun /\ RunLeaseIssued /\ LeaseIsExclusive
    BY <1>2 DEF BusyHasRun, RunLeaseIssued, LeaseIsExclusive
  <1>4. HolderIsLastClaimant
    BY <1>2, WorkersAssumption DEF HolderIsLastClaimant, Holds
  <1>5. SnapLeaseIssued
    BY DEF Init, SnapLeaseIssued
  <1> QED
    BY <1>1, <1>3, <1>4, <1>5 DEF IInv, Fence

\* Every step keeps the inductive invariant.
LEMMA InvStep == IInv /\ [Next]_vars => IInv'
  <1> SUFFICES ASSUME IInv, [Next]_vars
               PROVE  IInv'
    OBVIOUS
  <1>1. TypeOK /\ QueueTypeOK /\ Fence
    BY DEF IInv, TypeOK
  <1>2. TypeOK'
    <2>1. QueueTypeOK' /\ ActorTypeOK'
      BY <1>1, QueueStep, QueueTypeStep, ActorTypeStep
    <2> QED
      BY <2>1 DEF TypeOK, ActorTypeOK
  <1>3. StepShape
    BY StepHasShape
  <1>4. Fence' /\ \A m \in Missions : lease[m] <= lease'[m]
    <2>1. CASE RowsRelease /\ RunsShrink
      BY <1>1, <1>2, <2>1, FrameKeepsFence DEF RowsRelease
    <2>2. ASSUME NEW w \in Workers, NEW m \in Missions, Claims(w, m)
          PROVE  Fence' /\ \A k \in Missions : lease[k] <= lease'[k]
      <3>1. Fence'
        BY <1>1, <1>2, <2>2, ClaimKeepsFence DEF Claims
      <3>2. \A k \in Missions : lease[k] <= lease'[k]
        BY <1>1, <2>2 DEF Claims, Claim, QueueTypeOK
      <3> QED
        BY <3>1, <3>2
    <2> QED
      BY <1>1, <1>3, <2>1, <2>2, MovesRelease DEF StepShape
  <1>5. SnapLeaseIssued'
    <2>2. SUFFICES ASSUME NEW r \in Recoverers, NEW x \in snap'[r]
                   PROVE  x.lease <= lease'[x.m]
      BY DEF SnapLeaseIssued
    <2>3. x.m \in Missions /\ x.lease \in Nat
      BY <1>2 DEF TypeOK, Seen
    <2>4. x.lease <= lease[x.m]
      BY <1>1, <1>3, <2>3 DEF StepShape, SnapsRead, IInv, SnapLeaseIssued, QueueTypeOK
    <2> QED
      BY <1>1, <1>2, <1>4, <2>3, <2>4 DEF TypeOK, QueueTypeOK
  <1> QED
    BY <1>2, <1>3, <1>4, <1>5 DEF IInv, StepShape

\* The inductive invariant (types, table accounting and fence) always holds.
THEOREM Invariance == Spec => []IInv
  BY InvInit, InvStep, PTL DEF Spec

\* Rows, worker memory, heartbeats and snapshots keep their types.
THEOREM Types == Spec => []TypeOK
  BY Invariance, PTL DEF IInv

\* However claims, crashes, late heartbeats and recoveries interleave, two loop
\* iterations never work under one lease of one mission.
THEOREM ExclusiveLease == Spec => []LeaseIsExclusive
  BY Invariance, PTL DEF IInv, Fence

\* The iteration that may settle a RUNNING row is the one that claimed it last.
THEOREM LastClaimantHolds == Spec => []HolderIsLastClaimant
  BY Invariance, PTL DEF IInv, Fence

\* Workers and recoveries, with every fault, only make steps of the mission
\* table's own specification.
THEOREM WorkersImplementQueue == Spec => QueueSpec
  <1>1. Init => QueueInit
    BY DEF Init
  <1> QED
    BY <1>1, QueueStep, Invariance, PTL DEF Spec, QueueSpec

\* Hence recovery takes back each claim at most once in the composed system ...
THEOREM WorkersRecoverOnce == Spec => []OneRecoveryPerClaim
  BY WorkersImplementQueue, RecoveryAccounting, PTL

\* ... a mission rests in FAILED only when it is exhausted, whatever workers report ...
THEOREM WorkersFailExhausted == Spec => []FailedIsExhausted
  BY WorkersImplementQueue, FailedOnlyExhausted, PTL

\* ... and no worker, late answer or recovery revives a settled mission.
THEOREM WorkersSettleForGood == Spec => SettledIsFinal
  BY WorkersImplementQueue, SettledStaysSettled, PTL

-----------------------------------------------------------------------------
(* Ownership. *)

\* A RUNNING mission is settled by the iteration that holds it; everybody else
\* can only requeue it under a new lease.
LEMMA HolderStep ==
  ASSUME TypeOK, Move, NEW m \in Missions, status[m] = "RUNNING", status'[m] # "RUNNING"
  PROVE  \/ status'[m] = "QUEUED" /\ lease'[m] > lease[m]
         \/ \E w \in Workers : Holds(w, m) /\ pc'[w] # pc[w]
  <1> USE QueueAssumption DEF TypeOK, QueueTypeOK
  <1>1. CASE Rests
    BY <1>1 DEF Rests, queueVars
  <1>2. ASSUME NEW w \in Workers, Drops(w)
        PROVE  FALSE
    BY <1>2 DEF Drops, queueVars
  <1>3. ASSUME NEW w \in Workers, NEW k \in Missions, Claims(w, k)
        PROVE  FALSE
    BY <1>3 DEF Claims, Claim
  <1>4. ASSUME NEW w \in Workers, NEW k \in Missions, NEW l \in Nat, Decides(w, k, l)
        PROVE  Holds(w, m) /\ pc'[w] # pc[w]
    BY <1>4 DEF Decides, Holds, Owns, Complete, MarkWaiting, Fail
  <1>5. ASSUME NEW k \in Missions, NEW l \in Nat, Requeues(k, l)
        PROVE  status'[m] = "QUEUED" /\ lease'[m] > lease[m]
    BY <1>5 DEF Requeues, RecoverStale
  <1>6. ASSUME NEW k \in Missions, Administers(k)
        PROVE  FALSE
    BY <1>6 DEF Administers, Enqueue, CompleteRoot, RecoverFailed, CancelOrphanWaiting,
                PurgeExpiredRetry
  <1> QED
    BY <1>1, <1>2, <1>3, <1>4, <1>5, <1>6 DEF Move

\* The outcome of a RUNNING mission is decided by its holder alone.
THEOREM HolderAloneSettles == Spec => OnlyTheHolderSettles
  <1>1. IInv /\ [Next]_vars
          => [\A m \in Missions :
                status[m] = "RUNNING" /\ status'[m] # "RUNNING" =>
                  \/ status'[m] = "QUEUED" /\ lease'[m] > lease[m]
                  \/ \E w \in Workers : Holds(w, m) /\ pc'[w] # pc[w]]_vars
    BY StepHasShape, HolderStep DEF IInv, StepShape
  <1> QED
    BY <1>1, Invariance, PTL DEF Spec, OnlyTheHolderSettles

\* What a write of one column, or of one worker's run, does to the mapped state.
PhaseMap == [m \in Missions |-> PhaseOf(status[m])]
TicketMap == [w \in Workers |-> [m |-> run[w].m, n |-> run[w].attempt]]

\* Changing one row's status changes one phase of the abstract state.
LEMMA PhaseUpdate ==
  ASSUME TypeOK, NEW m \in Missions, NEW s, status' = [status EXCEPT ![m] = s]
  PROVE  PhaseMap' = [PhaseMap EXCEPT ![m] = PhaseOf(s)]
  <1>1. \A k \in Missions : status'[k] = IF k = m THEN s ELSE status[k]
    BY DEF TypeOK, QueueTypeOK
  <1>2. \A k \in Missions :
          PhaseOf(status'[k]) = IF k = m THEN PhaseOf(s) ELSE PhaseOf(status[k])
    BY <1>1
  <1> QED
    BY <1>2 DEF PhaseMap

\* Changing one iteration's run changes one ticket of the abstract state.
LEMMA TicketUpdate ==
  ASSUME TypeOK, NEW w \in Workers, NEW x, run' = [run EXCEPT ![w] = x]
  PROVE  TicketMap' = [TicketMap EXCEPT ![w] = [m |-> x.m, n |-> x.attempt]]
  <1>1. \A v \in Workers : run'[v] = IF v = w THEN x ELSE run[v]
    BY DEF TypeOK
  <1>2. \A v \in Workers :
          [m |-> run'[v].m, n |-> run'[v].attempt]
            = IF v = w THEN [m |-> x.m, n |-> x.attempt]
                       ELSE [m |-> run[v].m, n |-> run[v].attempt]
    BY <1>1
  <1> QED
    BY <1>2 DEF TicketMap

\* Every move of the implementation is a step of the abstract specification, or
\* changes nothing that it can see.
LEMMA OwnershipStep ==
  ASSUME IInv, Move
  PROVE  [Ownership!OwnershipNext]_(Ownership!ownershipVars)
  <1> USE QueueAssumption, WorkersAssumption DEF IInv, TypeOK, QueueTypeOK
  <1>1. CASE Rests
    BY <1>1 DEF Rests, queueVars, Ownership!ownershipVars
  <1>2. ASSUME NEW w \in Workers, Drops(w)
        PROVE  Ownership!Forget(w)
    BY <1>2 DEF Drops, queueVars, NoRun, Ownership!Forget, Ownership!NoTicket
  <1>3. ASSUME NEW w \in Workers, NEW m \in Missions, Claims(w, m)
        PROVE  Ownership!Grant(w, m)
    <2>1. PhaseMap[m] = "free" /\ PhaseMap' = [PhaseMap EXCEPT ![m] = "held"]
      BY <1>3, PhaseUpdate DEF Claims, Claim, PhaseOf, PhaseMap
    <2>2. attempt' = [attempt EXCEPT ![m] = @ + 1]
      BY <1>3 DEF Claims, Claim
    <2>3. \/ TicketMap' = [TicketMap EXCEPT ![w] = [m |-> m, n |-> attempt[m] + 1]]
          \/ UNCHANGED TicketMap
      <3>1. CASE UNCHANGED run
        BY <3>1 DEF TicketMap
      <3>2. CASE run' = [run EXCEPT ![w] =
                   [m |-> m, lease |-> lease[m] + 1, attempt |-> attempt[m] + 1]]
        <4> DEFINE x == [m |-> m, lease |-> lease[m] + 1, attempt |-> attempt[m] + 1]
        <4>1. x.m = m /\ x.attempt = attempt[m] + 1
          OBVIOUS
        <4>2. TypeOK /\ run' = [run EXCEPT ![w] = x]
          BY <3>2
        <4> HIDE DEF x
        <4>3. TicketMap' = [TicketMap EXCEPT ![w] = [m |-> x.m, n |-> x.attempt]]
          BY <4>2, TicketUpdate
        <4> QED
          BY <4>1, <4>3
      <3> QED
        BY <1>3, <3>1, <3>2 DEF Claims
    <2> QED
      BY <2>1, <2>2, <2>3 DEF Ownership!Grant, PhaseMap, TicketMap
  <1>4. ASSUME NEW w \in Workers, NEW m \in Missions, NEW l \in Nat, Decides(w, m, l)
        PROVE  Ownership!Decide(w, m)
    <2>1. Holds(w, m)
      BY <1>4 DEF Decides, Holds, Owns, Complete, MarkWaiting, Fail
    <2>2. attempt[m] = run[w].attempt
      BY <2>1 DEF Fence, HolderIsLastClaimant
    <2>3. Ownership!Newest(w, m) /\ PhaseOf(status[m]) = "held"
      BY <2>1, <2>2 DEF Holds, Owns, PhaseOf, Ownership!Newest
    <2>4. \E p \in {"done", "handed", "free", "dropped"} : PhaseMap' = [PhaseMap EXCEPT ![m] = p]
      <3>1. PICK s \in {"COMPLETED", "WAITING", "QUEUED", "FAILED"} :
              status' = [status EXCEPT ![m] = s]
        BY <1>4 DEF Decides, Complete, MarkWaiting, Fail
      <3>2. PhaseMap' = [PhaseMap EXCEPT ![m] = PhaseOf(s)]
        BY <3>1, PhaseUpdate
      <3> QED
        BY <3>2 DEF PhaseOf
    <2>5. UNCHANGED attempt
      BY <1>4 DEF Decides, Complete, MarkWaiting, Fail
    <2>6. TicketMap' \in {TicketMap, [TicketMap EXCEPT ![w] = [m |-> Nobody, n |-> 0]]}
      <3>1. CASE UNCHANGED run
        BY <3>1 DEF TicketMap
      <3>2. CASE run' = [run EXCEPT ![w] = NoRun]
        <4>1. TicketMap' = [TicketMap EXCEPT ![w] = [m |-> NoRun.m, n |-> NoRun.attempt]]
          BY <3>2, TicketUpdate
        <4> QED
          BY <4>1 DEF NoRun
      <3> QED
        BY <1>4, <3>1, <3>2 DEF Decides
    <2> QED
      BY <2>3, <2>4, <2>5, <2>6
      DEF Ownership!Decide, Ownership!NoTicket, PhaseMap, TicketMap
  <1>5. ASSUME NEW m \in Missions, NEW l \in Nat, Requeues(m, l)
        PROVE  Ownership!Revoke(m)
    BY <1>5 DEF Requeues, Owns, RecoverStale, PhaseOf, Ownership!Revoke
  <1>6. ASSUME NEW m \in Missions, Administers(m)
        PROVE  [Ownership!Administer(m)]_(Ownership!ownershipVars)
    <2>1. UNCHANGED <<attempt, run>>
      BY <1>6 DEF Administers, Enqueue, CompleteRoot, RecoverFailed, CancelOrphanWaiting,
                  PurgeExpiredRetry
    <2>2. PICK p \in {"free", "done", "dropped"} :
            /\ PhaseMap' = [PhaseMap EXCEPT ![m] = p]
            /\ \/ p = "free" /\ PhaseMap[m] \in {"absent", "dropped"}
               \/ p = "done" /\ PhaseMap[m] \in {"handed", "dropped", "done"}
               \/ p = "dropped" /\ PhaseMap[m] \in {"free", "handed"}
      <3>1. PICK s \in {"QUEUED", "COMPLETED", "CANCELLED", "FAILED"} :
              /\ status' = [status EXCEPT ![m] = s]
              /\ \/ s = "QUEUED" /\ status[m] \in {"ABSENT", "FAILED"}
                 \/ s = "COMPLETED" /\ status[m] \in {"WAITING", "CANCELLED", "COMPLETED"}
                 \/ s = "CANCELLED" /\ status[m] = "WAITING"
                 \/ s = "FAILED" /\ status[m] = "QUEUED"
        BY <1>6 DEF Administers, Enqueue, CompleteRoot, RecoverFailed, CancelOrphanWaiting,
                    PurgeExpiredRetry
      <3>2. PhaseMap' = [PhaseMap EXCEPT ![m] = PhaseOf(s)]
        BY <3>1, PhaseUpdate
      <3> QED
        BY <3>1, <3>2 DEF PhaseOf, PhaseMap
    <2>3. PhaseMap[m] = "done" /\ PhaseMap' = [PhaseMap EXCEPT ![m] = "done"]
            => UNCHANGED PhaseMap
      <3>1. \A f : f = [k \in Missions |-> f[k]] /\ f[m] = "done" => [f EXCEPT ![m] = "done"] = f
        OBVIOUS
      <3>2. PhaseMap = [k \in Missions |-> PhaseMap[k]]
        BY DEF PhaseMap
      <3> QED
        BY <3>1, <3>2
    <2>4. UNCHANGED TicketMap
      BY <2>1 DEF TicketMap
    <2> QED
      BY <2>1, <2>2, <2>3, <2>4
      DEF Ownership!Administer, Ownership!ownershipVars, PhaseMap, TicketMap
  <1> QED
    BY <1>1, <1>2, <1>3, <1>4, <1>5, <1>6 DEF Move, Ownership!OwnershipNext

\* The leases, heartbeats and recoveries implement the abstract ownership: only
\* the newest claimant of a mission decides its outcome.
THEOREM Refinement == Spec => ImplementsOwnership
  <1>1. Init => Ownership!OwnershipInit
    BY DEF Init, QueueInit, NoRun, PhaseOf, Ownership!OwnershipInit, Ownership!NoTicket
  <1>2. IInv /\ [Next]_vars => [Ownership!OwnershipNext]_(Ownership!ownershipVars)
    BY StepHasShape, OwnershipStep DEF StepShape
  <1> QED
    BY <1>1, <1>2, Invariance, PTL DEF Spec, ImplementsOwnership, Ownership!OwnershipSpec

-----------------------------------------------------------------------------
(* Recovery and heartbeats, when beats are punctual and no statement fails, *)
(* and every employee runs in one process.                                  *)

Punctual == "late" \notin Faults /\ "db" \notin Faults

OneProcess == \A v, w \in Workers : EmployeeOf[v] = EmployeeOf[w] => v = w

\* The row that a recovery has read under the lease of a run names that run's
\* employee, so the heartbeat it looks at is the right one.
SnapsNameTheOwner ==
  \A r \in Recoverers : \A x \in snap[r] : \A w \in Workers :
    x.m = run[w].m /\ x.lease = run[w].lease => x.owner = EmployeeOf[w]

\* While its timer runs, the heartbeat row of a worker is fresh and names its mission.
BeatsItsMission(w) ==
  /\ pc[w] = "claimed" => cur[w] = run[w].m
  /\ timer[w] => /\ pc[w] \in {"executing", "failing"}
                 /\ cur[w] = run[w].m
                 /\ hb[EmployeeOf[w]] = run[w].m
                 /\ fresh[EmployeeOf[w]]
  /\ late[w] = {}

BInv == SnapsNameTheOwner /\ \A w \in Workers : BeatsItsMission(w)

\* A snapshot is older than the claims that follow it.
LEMMA SnapsStep ==
  ASSUME IInv, IInv', SnapsNameTheOwner, StepShape
  PROVE  SnapsNameTheOwner'
  <1> SUFFICES ASSUME NEW r \in Recoverers, NEW x \in snap'[r], NEW w \in Workers,
                      x.m = run'[w].m, x.lease = run'[w].lease
               PROVE  x.owner = EmployeeOf[w]
    BY DEF SnapsNameTheOwner
  <1>1. x.m \in Missions /\ x.m # Nobody /\ x.lease \in Nat
    BY WorkersAssumption DEF IInv, TypeOK, Seen
  <1>2. \/ x \in snap[r]
        \/ status[x.m] = "RUNNING" /\ x.lease = lease[x.m] /\ x.owner = owner[x.m]
    BY DEF StepShape, SnapsRead
  <1>3. x.lease <= lease[x.m] /\ lease[x.m] \in Nat
    BY <1>1, <1>2 DEF IInv, TypeOK, QueueTypeOK, SnapLeaseIssued
  <1>4. CASE run'[w] = run[w]
    <2>1. CASE x \in snap[r]
      BY <1>4, <2>1 DEF SnapsNameTheOwner
    <2>2. CASE x \notin snap[r]
      BY <1>1, <1>2, <1>4, <2>2 DEF IInv, Fence, HolderIsLastClaimant, Holds
    <2> QED
      BY <2>1, <2>2
  <1>5. CASE run'[w] # run[w]
    <2>1. ASSUME NEW v \in Workers, NEW m \in Missions, Claims(v, m)
          PROVE  FALSE
      <3>1. run'[w] = [m |-> m, lease |-> lease[m] + 1, attempt |-> attempt[m] + 1]
        BY <1>5, <2>1 DEF Claims, IInv, TypeOK
      <3> QED
        BY <1>3, <3>1
    <2>2. CASE RunsShrink
      BY <1>1, <1>5, <2>2 DEF RunsShrink, NoRun
    <2> QED
      BY <2>1, <2>2, MovesRelease DEF IInv, StepShape
  <1> QED
    BY <1>4, <1>5

\* A step of worker v that leaves the others and their heartbeat rows alone.
Alone(v) ==
  \A w \in Workers \ {v} :
    /\ UNCHANGED <<pc[w], cur[w], run[w], timer[w], late[w]>>
    /\ UNCHANGED <<hb[EmployeeOf[w]], fresh[EmployeeOf[w]]>>

LEMMA AloneKeepsBeats ==
  ASSUME NEW v \in Workers, \A w \in Workers : BeatsItsMission(w), Alone(v), BeatsItsMission(v)'
  PROVE  \A w \in Workers : BeatsItsMission(w)'
  BY DEF Alone, BeatsItsMission

\* A step that no worker and no heartbeat row takes part in.
LEMMA QuietKeepsBeats ==
  ASSUME \A w \in Workers : BeatsItsMission(w),
         UNCHANGED <<pc, cur, run, timer, late, hb, fresh>>
  PROVE  \A w \in Workers : BeatsItsMission(w)'
  BY DEF BeatsItsMission

\* A worker's own steps: an iteration that ends stops its timer first.
LEMMA WorkerKeepsBeats ==
  ASSUME Punctual, OneProcess, TypeOK, NEW v \in Workers, \A w \in Workers : BeatsItsMission(w),
         \/ WorkerStep(v) \/ Start(v) \/ TimerBeat(v) \/ RequestStop(v) \/ Crash(v)
  PROVE  Alone(v) /\ BeatsItsMission(v)'
  <1> USE DEF TypeOK, Alone, BeatsItsMission
  <1>0. \A w \in Workers \ {v} : EmployeeOf[w] # EmployeeOf[v]
    BY DEF OneProcess
  <1>1. ASSUME LoopTop(v) \/ ClaimNothing(v) \/ ExecuteThrows(v)
        PROVE  Alone(v) /\ BeatsItsMission(v)'
    BY <1>1 DEF LoopTop, ClaimNothing, ExecuteThrows, beatVars
  <1>2. ASSUME LoopBeat(v) \/ Start(v) \/ TimerBeat(v) \/ BusyBeat(v)
        PROVE  Alone(v) /\ BeatsItsMission(v)'
    BY <1>0, <1>2, WorkersAssumption
    DEF LoopBeat, Start, TimerBeat, BusyBeat, Beat, beatVars, Punctual
  <1>3. ASSUME NEW m \in Missions, ClaimMission(v, m)
        PROVE  Alone(v) /\ BeatsItsMission(v)'
    BY <1>3 DEF ClaimMission, beatVars
  <1>4. ASSUME \/ LoopDies(v) \/ BusyBeatFails(v) \/ \E m \in Missions : ClaimLost(v, m)
        PROVE  FALSE
    BY <1>4 DEF LoopDies, BusyBeatFails, ClaimLost, Punctual
  <1>5. ASSUME Settle(v) \/ SettleStale(v) \/ ReportFailure(v) \/ ReportFailureStale(v)
        PROVE  Alone(v) /\ BeatsItsMission(v)'
    <2>1. EnterFinally(v) /\ UNCHANGED <<late, hb, fresh>>
      BY <1>5 DEF Settle, SettleStale, ReportFailure, ReportFailureStale, beatVars, Punctual
    <2> QED
      BY <2>1 DEF EnterFinally
  <1>6. ASSUME CloseBeat(v) \/ RequestStop(v) \/ LoopExits(v)
        PROVE  Alone(v) /\ BeatsItsMission(v)'
    BY <1>0, <1>6, WorkersAssumption
    DEF CloseBeat, RequestStop, LoopExits, BeatOrFail, Beat, beatVars, Punctual
  <1>7. ASSUME Crash(v)
        PROVE  Alone(v) /\ BeatsItsMission(v)'
    BY <1>7 DEF Crash, beatVars
  <1> QED
    BY <1>1, <1>2, <1>3, <1>4, <1>5, <1>6, <1>7 DEF WorkerStep

LEMMA BInvInit == Init => BInv
  BY DEF Init, BInv, SnapsNameTheOwner, BeatsItsMission

LEMMA BInvStep ==
  ASSUME Punctual, OneProcess
  PROVE  IInv /\ BInv /\ [Next]_vars => BInv'
  <1> SUFFICES ASSUME IInv, BInv, [Next]_vars
               PROVE  BInv'
    OBVIOUS
  <1>1. IInv' /\ StepShape /\ TypeOK
    BY InvStep, StepHasShape DEF IInv
  <1>2. SnapsNameTheOwner'
    BY <1>1, SnapsStep DEF BInv
  <1>3. \A w \in Workers : BeatsItsMission(w)
    BY DEF BInv
  <1> DEFINE Kept == \A w \in Workers : BeatsItsMission(w)'
  <1>4. ASSUME NEW v \in Workers,
               WorkerStep(v) \/ Start(v) \/ TimerBeat(v) \/ RequestStop(v) \/ Crash(v)
        PROVE  Kept
    BY <1>1, <1>3, <1>4, WorkerKeepsBeats, AloneKeepsBeats
  <1>5. \A v \in Workers : \A m \in late[v] : FALSE
    BY <1>3 DEF BeatsItsMission
  <1>6. ASSUME NEW e \in Employees, Lapse(e)
        PROVE  Kept
    <2>1. \A w \in Workers : timer[w] => EmployeeOf[w] # e
      BY <1>6 DEF Lapse, Punctual, Beats
    <2> QED
      BY <1>1, <1>3, <1>6, <2>1, WorkersAssumption DEF Lapse, workerVars, BeatsItsMission, TypeOK
  <1>7. ASSUME NEW r \in Recoverers, RecoveryStep(r) \/ RecoveryCut(r)
        PROVE  Kept
    BY <1>3, <1>7, QuietKeepsBeats
    DEF RecoveryStep, ReadRunning, ReadHeartbeats, RequeueOne, RecoveryEnds, RecoveryCut,
        workerVars, beatVars
  <1>8. ASSUME Outside \/ UNCHANGED vars
        PROVE  Kept
    BY <1>3, <1>8, QuietKeepsBeats DEF Outside, vars, workerVars, beatVars
  <1>9. Kept
    BY <1>4, <1>5, <1>6, <1>7, <1>8 DEF Next
  <1> QED
    BY <1>2, <1>9 DEF BInv

\* A recovery whose two queries interleave with claims, beats, stops and crashes in
\* any way does not take an execution for abandoned while its timer beats, however
\* many employees and recoveries there are.
THEOREM HealthyRunsAreLeftAlone ==
  ASSUME Punctual, OneProcess
  PROVE  Spec => BeatingRunIsNotListed
  <1>1. ASSUME BInv, IInv, [Next]_vars, NEW r \in Recoverers, NEW w \in Workers,
               rpc[r] = "rows", rpc'[r] = "found", timer[w], NEW x \in snap'[r]
        PROVE  ~(x.m = run[w].m /\ x.lease = run[w].lease)
    <2>1. rpc' = rpc \/ \E q \in Recoverers : RecoveryStep(q) \/ RecoveryCut(q)
      BY <1>1
      DEF Next, WorkerStep, LoopTop, LoopBeat, LoopDies, ClaimNothing, ClaimMission, ClaimLost,
          BusyBeat, BusyBeatFails, Settle, SettleStale, ExecuteThrows, ReportFailure,
          ReportFailureStale, CloseBeat, LoopExits, Start, TimerBeat, LateBeatLands, RequestStop,
          Crash, Lapse, Outside, vars, recoveryVars
    <2>2. ReadHeartbeats(r)
      BY <1>1, <2>1
      DEF RecoveryStep, ReadRunning, ReadHeartbeats, RequeueOne, RecoveryEnds, RecoveryCut,
          IInv, TypeOK
    <2>3. x \in snap[r] /\ Abandoned(x.m, x.owner)
      BY <1>1, <2>2 DEF ReadHeartbeats, IInv, TypeOK
    <2> QED
      BY <1>1, <2>3, WorkersAssumption DEF BInv, SnapsNameTheOwner, BeatsItsMission, Abandoned
  <1>2. BInv /\ IInv /\ [Next]_vars
          => [\A r \in Recoverers : \A w \in Workers :
                /\ rpc[r] = "rows" /\ rpc'[r] = "found"
                /\ timer[w]
                => \A x \in snap'[r] : ~(x.m = run[w].m /\ x.lease = run[w].lease)]_vars
    BY <1>1
  <1> QED
    BY <1>2, BInvInit, BInvStep, Invariance, PTL DEF Spec, BeatingRunIsNotListed

=============================================================================
