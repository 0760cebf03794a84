---------------------------- MODULE MissionQueue ----------------------------
(***************************************************************************)
(* The mission table of the Continuous Runtime: one row per mission and    *)
(* one action per statement that class MissionQueue (mission-queue.ts) and *)
(* the queue maintenance (operational-hardening-adapters.ts) run on it.    *)
(* Postgres makes each statement atomic; what happens BETWEEN statements   *)
(* belongs to the modules that extend this one.                            *)
(*                                                                         *)
(* Here the callers are open: any caller may present any lease number that *)
(* was ever issued for a row, as a worker that lost its mission does.      *)
(***************************************************************************)
EXTENDS Naturals

CONSTANTS
  Missions,       \* identities of mission rows
  Roots,          \* the COORDINATE rows among them: only these can wait for children
  Employees,      \* employee identities that claim
  Serves,         \* Serves[m]: employees whose claim query selects m
  MaxAttempts,    \* MaxAttempts[m]: the row's maxAttempts column
  PurgeAttempts,  \* the literal 3 of purgeExpiredRetries
  Pinned,         \* roots whose objective marks them for cancelOrphanWaiting
  ClaimBound,     \* BOUND of the model: claims per mission
  NoOne           \* ownerEmployeeId before any claim ("unmatched")

ASSUME QueueAssumption ==
  /\ Roots \subseteq Missions
  /\ Pinned \subseteq Roots
  /\ Serves \in [Missions -> SUBSET Employees]
  /\ MaxAttempts \in [Missions -> Nat \ {0}]
  /\ PurgeAttempts \in Nat \ {0}
  /\ ClaimBound \in Nat
  /\ NoOne \notin Employees

VARIABLES
  status,     \* Mission.status; "ABSENT" before the row exists
  attempt,    \* Mission.attempt
  lease,      \* Mission.leaseVersion
  owner,      \* Mission.ownerEmployeeId
  lastError   \* Mission.lastError, as far as maintenance reads it

queueVars == <<status, attempt, lease, owner, lastError>>

Status == {"ABSENT", "QUEUED", "RUNNING", "WAITING", "COMPLETED", "FAILED", "CANCELLED"}
Errors == {"none", "quota", "other"}

\* Operators named Faulty... are bugs that this code could plausibly have: each is
\* the definition that follows it with one line changed.  No specification uses
\* them; put in the place of that definition they break the property they name.

\* SettledIsFinal, without the status condition.
FaultyOwns(m, l) == lease[m] = l

\* The WHERE clause of every statement by which a worker settles a mission.
Owns(m, l) == status[m] = "RUNNING" /\ lease[m] = l

-----------------------------------------------------------------------------

QueueInit ==
  /\ status = [m \in Missions |-> "ABSENT"]
  /\ attempt = [m \in Missions |-> 0]
  /\ lease = [m \in Missions |-> 0]
  /\ owner = [m \in Missions |-> NoOne]
  /\ lastError = [m \in Missions |-> "none"]

Enqueue(m) ==
  /\ status[m] = "ABSENT"
  /\ status' = [status EXCEPT ![m] = "QUEUED"]
  /\ UNCHANGED <<attempt, lease, owner, lastError>>

\* HolderIsLastClaimant, when the claim leaves ownerEmployeeId as it was.
FaultyClaimOwner(m, e) ==
  /\ status[m] = "QUEUED"
  /\ e \in Serves[m]
  /\ attempt[m] < ClaimBound
  /\ status' = [status EXCEPT ![m] = "RUNNING"]
  /\ attempt' = [attempt EXCEPT ![m] = @ + 1]
  /\ lease' = [lease EXCEPT ![m] = @ + 1]
  /\ UNCHANGED <<owner, lastError>>

\* LeaseIsExclusive, when two claims read one row (no FOR UPDATE) and the second
\* writes back the counters it read.
FaultyClaimUnlocked(m, e) ==
  /\ status[m] \in {"QUEUED", "RUNNING"}
  /\ e \in Serves[m]
  /\ attempt[m] < ClaimBound
  /\ status' = [status EXCEPT ![m] = "RUNNING"]
  /\ attempt' = [attempt EXCEPT ![m] = IF status[m] = "QUEUED" THEN @ + 1 ELSE @]
  /\ lease' = [lease EXCEPT ![m] = IF status[m] = "QUEUED" THEN @ + 1 ELSE @]
  /\ owner' = [owner EXCEPT ![m] = e]
  /\ UNCHANGED lastError

\* SELECT ... FOR UPDATE SKIP LOCKED and the update, in one transaction.
Claim(m, e) ==
  /\ status[m] = "QUEUED"
  /\ e \in Serves[m]
  /\ attempt[m] < ClaimBound
  /\ status' = [status EXCEPT ![m] = "RUNNING"]
  /\ attempt' = [attempt EXCEPT ![m] = @ + 1]
  /\ lease' = [lease EXCEPT ![m] = @ + 1]
  /\ owner' = [owner EXCEPT ![m] = e]
  /\ UNCHANGED lastError

MarkWaiting(m, l) ==
  /\ m \in Roots
  /\ Owns(m, l)
  /\ status' = [status EXCEPT ![m] = "WAITING"]
  /\ UNCHANGED <<attempt, lease, owner, lastError>>

\* ImplementsOwnership, without the leaseVersion condition.
FaultyComplete(m, l) ==
  /\ status[m] = "RUNNING"
  /\ status' = [status EXCEPT ![m] = "COMPLETED"]
  /\ lastError' = [lastError EXCEPT ![m] = "none"]
  /\ UNCHANGED <<attempt, lease, owner>>

Complete(m, l) ==
  /\ Owns(m, l)
  /\ status' = [status EXCEPT ![m] = "COMPLETED"]
  /\ lastError' = [lastError EXCEPT ![m] = "none"]
  /\ UNCHANGED <<attempt, lease, owner>>

\* The second statement of completeConsolidation: it has no status guard.  A
\* consolidation exists only for a root that waited, and a root that waited is
\* in one of these three statuses.
CompleteRoot(m) ==
  /\ m \in Roots
  /\ status[m] \in {"WAITING", "CANCELLED", "COMPLETED"}
  /\ status' = [status EXCEPT ![m] = "COMPLETED"]
  /\ lastError' = [lastError EXCEPT ![m] = "none"]
  /\ UNCHANGED <<attempt, lease, owner>>

\* FailedIsExhausted, off by one.
FaultyFailEarly(m, l, err) ==
  /\ Owns(m, l)
  /\ status' = [status EXCEPT ![m] =
       IF attempt[m] + 1 < MaxAttempts[m] THEN "QUEUED" ELSE "FAILED"]
  /\ lastError' = [lastError EXCEPT ![m] = err]
  /\ UNCHANGED <<attempt, lease, owner>>

\* OnlyTheHolderSettles, without the leaseVersion condition.
FaultyFailUnfenced(m, l, err) ==
  /\ status[m] = "RUNNING"
  /\ status' = [status EXCEPT ![m] =
       IF attempt[m] < MaxAttempts[m] THEN "QUEUED" ELSE "FAILED"]
  /\ lastError' = [lastError EXCEPT ![m] = err]
  /\ UNCHANGED <<attempt, lease, owner>>

\* fail() reads the row and then updates it; attempt cannot change while the
\* lease of the WHERE clause is still current, so the two are one action.
Fail(m, l, err) ==
  /\ Owns(m, l)
  /\ status' = [status EXCEPT ![m] =
       IF attempt[m] < MaxAttempts[m] THEN "QUEUED" ELSE "FAILED"]
  /\ lastError' = [lastError EXCEPT ![m] = err]
  /\ UNCHANGED <<attempt, lease, owner>>

\* One update of recoverStaleRunning, for a row its snapshot saw with lease l.
RecoverStale(m, l) ==
  /\ Owns(m, l)
  /\ status' = [status EXCEPT ![m] = "QUEUED"]
  /\ lease' = [lease EXCEPT ![m] = @ + 1]
  /\ lastError' = [lastError EXCEPT ![m] = "other"]
  /\ UNCHANGED <<attempt, owner>>

\* OneRecoveryPerClaim, when a resurrection counts as a recovery too.
FaultyRecoverFailed(m, a) ==
  /\ status[m] = "FAILED"
  /\ attempt[m] = a
  /\ a < MaxAttempts[m]
  /\ status' = [status EXCEPT ![m] = "QUEUED"]
  /\ lease' = [lease EXCEPT ![m] = @ + 1]
  /\ UNCHANGED <<attempt, owner, lastError>>

\* One update of recoverFailedRetryable, for a row its snapshot saw with a attempts.
RecoverFailed(m, a) ==
  /\ status[m] = "FAILED"
  /\ attempt[m] = a
  /\ a < MaxAttempts[m]
  /\ status' = [status EXCEPT ![m] = "QUEUED"]
  /\ UNCHANGED <<attempt, lease, owner, lastError>>

CancelOrphanWaiting(m) ==
  /\ m \in Pinned
  /\ status[m] = "WAITING"
  /\ status' = [status EXCEPT ![m] = "CANCELLED"]
  /\ lastError' = [lastError EXCEPT ![m] = "other"]
  /\ UNCHANGED <<attempt, lease, owner>>

\* QueueTypeOK and TypeOK, with a status of its own.
FaultyPurge(m) ==
  /\ status[m] = "QUEUED"
  /\ lastError[m] = "quota"
  /\ attempt[m] >= PurgeAttempts
  /\ status' = [status EXCEPT ![m] = "EXPIRED"]
  /\ UNCHANGED <<attempt, lease, owner, lastError>>

PurgeExpiredRetry(m) ==
  /\ status[m] = "QUEUED"
  /\ lastError[m] = "quota"
  /\ attempt[m] >= PurgeAttempts
  /\ status' = [status EXCEPT ![m] = "FAILED"]
  /\ UNCHANGED <<attempt, lease, owner, lastError>>

-----------------------------------------------------------------------------

QueueNext ==
  \E m \in Missions :
    \/ Enqueue(m)
    \/ \E e \in Employees : Claim(m, e)
    \/ \E l \in 0..lease[m] :
         \/ MarkWaiting(m, l)
         \/ Complete(m, l)
         \/ \E err \in {"quota", "other"} : Fail(m, l, err)
         \/ RecoverStale(m, l)
    \/ CompleteRoot(m)
    \/ RecoverFailed(m, attempt[m])
    \/ CancelOrphanWaiting(m)
    \/ PurgeExpiredRetry(m)

QueueSpec == QueueInit /\ [][QueueNext]_queueVars

-----------------------------------------------------------------------------
(* Properties *)

\* Every column holds a value of its type (schema.prisma, model Mission).
QueueTypeOK ==
  /\ status \in [Missions -> Status]
  /\ attempt \in [Missions -> Nat]
  /\ lease \in [Missions -> Nat]
  /\ owner \in [Missions -> Employees \cup {NoOne}]
  /\ lastError \in [Missions -> Errors]

\* Recovery takes back each claim at most once, however many supervisors and
\* restarts run recoverStaleRunning on old snapshots: leaseVersion counts the
\* claims and the recoveries, so it stays between attempt and 2 * attempt, and
\* a row that is running again has one recovery fewer than claims.
OneRecoveryPerClaim ==
  \A m \in Missions :
    /\ attempt[m] <= lease[m]
    /\ lease[m] <= 2 * attempt[m]
    /\ status[m] \notin {"ABSENT", "QUEUED", "FAILED"} => lease[m] < 2 * attempt[m]

\* A final failure is never early: a row only rests in FAILED once it used its
\* attempts up, or maintenance purged it after PurgeAttempts claims.
FailedIsExhausted ==
  \A m \in Missions :
    status[m] = "FAILED" =>
      \/ attempt[m] >= MaxAttempts[m]
      \/ attempt[m] >= PurgeAttempts /\ lastError[m] = "quota"

\* Nothing revives a settled mission: COMPLETED is final under every caller,
\* also one whose lease is old; FAILED with no attempt left is final; WAITING
\* is left only by closing the root or by the maintenance.
SettledIsFinal ==
  [][\A m \in Missions :
       /\ status[m] = "COMPLETED" => status'[m] = "COMPLETED"
       /\ status[m] = "FAILED" /\ attempt[m] >= MaxAttempts[m] => status'[m] = "FAILED"
       /\ status[m] = "WAITING" => status'[m] \in {"WAITING", "COMPLETED", "CANCELLED"}]_queueVars

=============================================================================
