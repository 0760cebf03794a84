------------------------ MODULE MissionQueue_proofs ------------------------
(* Theorems about MissionQueue, for any missions, employees and bounds. *)
EXTENDS MissionQueue, TLAPS

(***************************************************************************)
(* Type correctness.                                                       *)
(***************************************************************************)
\* The empty table is typed.
LEMMA QueueTypeInit == QueueInit => QueueTypeOK
  BY QueueAssumption DEF QueueInit, QueueTypeOK, Status, Errors

\* Every statement keeps the types of the columns.
LEMMA QueueTypeStep == QueueTypeOK /\ [QueueNext]_queueVars => QueueTypeOK'
  <1> USE QueueAssumption DEF QueueTypeOK, Status, Errors
  <1> SUFFICES ASSUME QueueTypeOK, [QueueNext]_queueVars
               PROVE  QueueTypeOK'
    OBVIOUS
  <1>1. ASSUME NEW m \in Missions, Enqueue(m)
        PROVE  QueueTypeOK'
    BY <1>1 DEF Enqueue
  <1>2. ASSUME NEW m \in Missions, NEW e \in Employees, Claim(m, e)
        PROVE  QueueTypeOK'
    BY <1>2 DEF Claim
  <1>3. ASSUME NEW m \in Missions, NEW l \in 0..lease[m], MarkWaiting(m, l)
        PROVE  QueueTypeOK'
    BY <1>3 DEF MarkWaiting
  <1>4. ASSUME NEW m \in Missions, NEW l \in 0..lease[m], Complete(m, l)
        PROVE  QueueTypeOK'
    BY <1>4 DEF Complete
  <1>5. ASSUME NEW m \in Missions, NEW l \in 0..lease[m],
               NEW err \in {"quota", "other"}, Fail(m, l, err)
        PROVE  QueueTypeOK'
    BY <1>5 DEF Fail
  <1>6. ASSUME NEW m \in Missions, NEW l \in 0..lease[m], RecoverStale(m, l)
        PROVE  QueueTypeOK'
    BY <1>6 DEF RecoverStale
  <1>7. ASSUME NEW m \in Missions, CompleteRoot(m)
        PROVE  QueueTypeOK'
    BY <1>7 DEF CompleteRoot
  <1>8. ASSUME NEW m \in Missions, RecoverFailed(m, attempt[m])
        PROVE  QueueTypeOK'
    BY <1>8 DEF RecoverFailed
  <1>9. ASSUME NEW m \in Missions, CancelOrphanWaiting(m)
        PROVE  QueueTypeOK'
    BY <1>9 DEF CancelOrphanWaiting
  <1>10. ASSUME NEW m \in Missions, PurgeExpiredRetry(m)
         PROVE  QueueTypeOK'
    BY <1>10 DEF PurgeExpiredRetry
  <1>11. CASE UNCHANGED queueVars
    BY <1>11 DEF queueVars
  <1> QED
    BY <1>1, <1>2, <1>3, <1>4, <1>5, <1>6, <1>7, <1>8, <1>9, <1>10, <1>11
    DEF QueueNext

\* The columns of every row keep their types (mission-queue.ts).
THEOREM QueueTypes == QueueSpec => []QueueTypeOK
  BY QueueTypeInit, QueueTypeStep, PTL DEF QueueSpec

(***************************************************************************)
(* Recovery takes back each claim at most once.  The invariant is          *)
(* inductive: a claim adds one to lease and to attempt, which leaves a     *)
(* running row strictly below 2 * attempt; the one recovery it allows uses *)
(* that margin up.                                                         *)
(***************************************************************************)
\* No claims and no leases: the account is balanced.
LEMMA AccountInit == QueueInit => OneRecoveryPerClaim
  <1> SUFFICES ASSUME QueueInit, NEW m \in Missions
               PROVE  /\ attempt[m] <= lease[m]
                      /\ lease[m] <= 2 * attempt[m]
                      /\ status[m] = "ABSENT"
    BY DEF OneRecoveryPerClaim
  <1>1. attempt[m] = 0 /\ lease[m] = 0 /\ status[m] = "ABSENT"
    BY DEF QueueInit
  <1> QED
    BY <1>1

\* A claim adds one to both counters, a recovery uses the margin up.
LEMMA AccountStep ==
  QueueTypeOK /\ OneRecoveryPerClaim /\ [QueueNext]_queueVars => OneRecoveryPerClaim'
  <1> USE QueueAssumption DEF QueueTypeOK, OneRecoveryPerClaim, Owns
  <1> SUFFICES ASSUME QueueTypeOK, OneRecoveryPerClaim, [QueueNext]_queueVars
               PROVE  OneRecoveryPerClaim'
    OBVIOUS
  <1>1. ASSUME NEW m \in Missions, Enqueue(m)
        PROVE  OneRecoveryPerClaim'
    BY <1>1 DEF Enqueue
  <1>2. ASSUME NEW m \in Missions, NEW e \in Employees, Claim(m, e)
        PROVE  OneRecoveryPerClaim'
    BY <1>2 DEF Claim
  <1>3. ASSUME NEW m \in Missions, NEW l \in 0..lease[m], MarkWaiting(m, l)
        PROVE  OneRecoveryPerClaim'
    BY <1>3 DEF MarkWaiting
  <1>4. ASSUME NEW m \in Missions, NEW l \in 0..lease[m], Complete(m, l)
        PROVE  OneRecoveryPerClaim'
    BY <1>4 DEF Complete
  <1>5. ASSUME NEW m \in Missions, NEW l \in 0..lease[m],
               NEW err \in {"quota", "other"}, Fail(m, l, err)
        PROVE  OneRecoveryPerClaim'
    BY <1>5 DEF Fail
  <1>6. ASSUME NEW m \in Missions, NEW l \in 0..lease[m], RecoverStale(m, l)
        PROVE  OneRecoveryPerClaim'
    BY <1>6 DEF RecoverStale
  <1>7. ASSUME NEW m \in Missions, CompleteRoot(m)
        PROVE  OneRecoveryPerClaim'
    BY <1>7 DEF CompleteRoot
  <1>8. ASSUME NEW m \in Missions, RecoverFailed(m, attempt[m])
        PROVE  OneRecoveryPerClaim'
    BY <1>8 DEF RecoverFailed
  <1>9. ASSUME NEW m \in Missions, CancelOrphanWaiting(m)
        PROVE  OneRecoveryPerClaim'
    BY <1>9 DEF CancelOrphanWaiting
  <1>10. ASSUME NEW m \in Missions, PurgeExpiredRetry(m)
         PROVE  OneRecoveryPerClaim'
    BY <1>10 DEF PurgeExpiredRetry
  <1>11. CASE UNCHANGED queueVars
    BY <1>11 DEF queueVars
  <1> QED
    BY <1>1, <1>2, <1>3, <1>4, <1>5, <1>6, <1>7, <1>8, <1>9, <1>10, <1>11
    DEF QueueNext

\* recoverStaleRunning takes back each claim at most once, whatever old
\* snapshots its callers hold.
THEOREM RecoveryAccounting == QueueSpec => []OneRecoveryPerClaim
  BY QueueTypeInit, QueueTypeStep, AccountInit, AccountStep, PTL DEF QueueSpec

\* fail() and the purge only put exhausted missions into FAILED.
THEOREM FailedOnlyExhausted == QueueSpec => []FailedIsExhausted
  <1>1. QueueInit => FailedIsExhausted
    BY DEF QueueInit, FailedIsExhausted
  <1>2. QueueTypeOK /\ FailedIsExhausted /\ [QueueNext]_queueVars => FailedIsExhausted'
    BY QueueAssumption
    DEF QueueTypeOK, FailedIsExhausted, QueueNext, queueVars, Owns, Enqueue, Claim,
        MarkWaiting, Complete, CompleteRoot, Fail, RecoverStale, RecoverFailed,
        CancelOrphanWaiting, PurgeExpiredRetry
  <1> QED
    BY <1>1, <1>2, QueueTypes, PTL DEF QueueSpec

(***************************************************************************)
(* Settled missions stay settled.                                          *)
(***************************************************************************)
\* No statement moves a settled row, or a WAITING one back to work.
LEMMA SettledStep ==
  QueueTypeOK /\ [QueueNext]_queueVars
    => \A k \in Missions :
         /\ status[k] = "COMPLETED" => status'[k] = "COMPLETED"
         /\ status[k] = "FAILED" /\ attempt[k] >= MaxAttempts[k] => status'[k] = "FAILED"
         /\ status[k] = "WAITING" => status'[k] \in {"WAITING", "COMPLETED", "CANCELLED"}
  BY QueueAssumption
  DEF QueueTypeOK, QueueNext, queueVars, Owns, Enqueue, Claim, MarkWaiting, Complete,
      CompleteRoot, Fail, RecoverStale, RecoverFailed, CancelOrphanWaiting,
      PurgeExpiredRetry

\* COMPLETED is final for every caller, exhausted FAILED too, and a waiting
\* root is only closed or cancelled.
THEOREM SettledStaysSettled == QueueSpec => SettledIsFinal
  <1>1. QueueTypeOK /\ [QueueNext]_queueVars
          => [\A m \in Missions :
                /\ status[m] = "COMPLETED" => status'[m] = "COMPLETED"
                /\ status[m] = "FAILED" /\ attempt[m] >= MaxAttempts[m]
                     => status'[m] = "FAILED"
                /\ status[m] = "WAITING"
                     => status'[m] \in {"WAITING", "COMPLETED", "CANCELLED"}]_queueVars
    BY SettledStep
  <1> QED
    BY <1>1, QueueTypes, PTL DEF QueueSpec, SettledIsFinal

=============================================================================
