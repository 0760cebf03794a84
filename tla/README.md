# Formal model of the OperaIA.lab Continuous Runtime

TLA+ specifications, TLC configurations and TLAPS proofs for the part of OperaIA.lab
that turns work into missions and runs them: how signals, demands, rules and the
supervisor's own findings get into the persistent mission queue, the workers that claim
from it, the heartbeats that prove they are alive, the recoveries that take missions back,
the tree of missions by which one mission is delegated and answered, and what the answer
does to the tasks of a workspace and to the request that waits for it.

Paths below are relative to the repository; `M` stands for
`apps/api/src/modules` and `R` for `M/runtime`.

## 1. The system

OperaIA.lab is a TypeScript modular monolith over Postgres (Prisma). A human, a schedule
rule, a webhook or the operational supervisor enqueues a **mission**; a **worker** per
digital employee claims missions and executes them with LLM calls; a coordinator's mission
(COORDINATE) delegates to children (EXECUTE) that may depend on each other, waits for
them and is closed by a CONSOLIDATE mission. Several processes of the API may run at once
(rolling restart, replicas), each with its own workers and its own supervisor. They share
nothing but the database, and only single statements and one transaction (`claim`) are
atomic.

### Inventory

| Part | State | Operations | What is hard | What makes it correct |
|---|---|---|---|---|
| Mission queue (`R/mission-queue.ts`, `R/operational-hardening-adapters.ts`, `packages/database/prisma/schema.prisma`) | one row per mission: status, attempt, maxAttempts, leaseVersion, owner, readiness, last error; dependency rows | enqueue, claim, markWaiting, complete, fail, recoverStaleRunning, recoverFailedRetryable, promote, link, consolidate, purge, cancel | callers with old leases, updates from snapshots, check-then-act | only the owner settles; each claim recovered once; settled stays settled; failures final only when exhausted |
| Workers (`R/employee-worker.ts`, `R/worker-liveness.ts`, `R/worker-manager.ts`) | loop position, currentMissionId, the claimed run, timer, stop flag; WorkerHeartbeat row | start, loop, claim, execute, report failure, heartbeat, stop | crash between statements, failing upserts, timer beats in flight, graceful stop while executing | a lease is held by one iteration; orphans are recovered; a punctual worker is not robbed |
| Executor (`R/queued-mission-executor.ts`) | none of its own | coordinate, execute, consolidate, follow-up | several statements per coordination, retries that repeat them | children start in DAG order; consolidation after the last child; roots close |
| Supervisor recovery (`R/supervisor/recovery-coordinator.ts`, `supervisor-loop.ts`, `R/continuous-runtime.ts`) | cycle guard | stale, waiting, blocked and failed recovery | acts on snapshots, runs in every process | never undoes live work, always undoes dead work |
| Coordination latch and dispatcher (`R/supervisor/coordination-dispatcher.ts`, `infrastructure/prisma-coordination-latch-store.ts`) | one latch per workspace and reason, PENDING or CONSUMED | scan, release absent, acquire, reclaim, search, enqueue, complete, release | a PENDING orphan against a slow holder, release from an old scan, release by key | one holder per latch; one mission per latch and objective; an escalation stays latched; a context that lasts is served |
| Work governance (`R/work-governance`) | decision ledger | admit, skip, bindExecute | find-then-insert, a bounded history window | work is skipped only if it was done; one mission per work |
| Domain signals (`packages/domain-signals`, `M/signals`, `R/signal-*.ts`, `R/supervisor/github-repository-scanner.ts`) | signal rows, repository snapshots | deliver, scan, ingest, evaluate, convert | crash between creation and conversion, updates without a condition, snapshots that overtake each other, a throw that leaves the loop over all repositories | a signal has one mission, the one the ledger knows; no signal or change stays behind; the error of one signal does not cost others |
| Automation office (`M/automation-office`) | demands, approvals | interpret, resolve, execute, reconcile | requests of several statements without a transaction | no execution without approval; a demand ends as its mission did |
| Scheduler (`R/mission-scheduler.ts`, `M/schedule-rules`) | lastEnqueuedAt of each rule | list, enqueue, mark | enqueue and mark are two steps | a rule fires once per interval, and again and again |
| Task board (`M/operations/mission-domain-sync.ts`, `domain-update-task-executor.ts`, `packages/execution-engine`, `M/tasks`) | the tasks of a workspace | plan from a snapshot, look up, update; people edit | a plan as old as a language-model call, retries and robbed workers that act unfenced | answered work is on the board; DONE is kept; one fallback per run |
| Assisted missions (`M/operations/operational-mission-service.ts`, `mission-wait.ts`, `operational-run-store.ts`) | runs in the memory of the process | ask, poll with a deadline, project, store | the deadline races the answer; requests that share a mission; restart | a stored answer is true; who waits gets it |

Other parts (engines around LLM calls, the action runtime that no employee calls, memory,
authentication, CRUD modules, the web application, deployment) are listed in
`PROJECT.json` with the reason why they are not modelled: they are I/O, single-row CRUD,
read models or presentation.

### How the parts interact

Everything goes through rows. A worker learns that it lost a mission only when one of its
statements finds another `leaseVersion` (`StaleMissionOwnershipError`). A recovery learns
that a worker is dead only from its `WorkerHeartbeat` row: `lastSeenAt` older than the
liveness window (three heartbeat intervals, `worker-liveness.ts:7`) or a `currentMissionId` that is not the mission.
The heartbeat and the mission row are written by different statements, and the two
queries of a recovery read them at different moments.

A coordinated mission is a protocol of its own over these rows: the coordinator writes
its children and their dependencies in many statements; each executor, after the
statement that completes its child, promotes dependents and looks whether the mission
can be consolidated; the supervisor's cycle does both again for whatever was cut.

Into the queue lead four paths. Signals and demands pass the gate: it reads a ledger of
earlier decisions and of the missions they name, the mission is enqueued, and the decision
is written, in three statements. Schedule rules enqueue directly. The supervisor's own
findings (a stalled project, an exhausted mission) go through a latch per context. Each
path is walked by the handlers of several processes at once, and each statement may be the
last one of its handler.

Out of the queue leads the answer: the worker that consolidates a mission first moves
tasks of the workspace that people edit too, then closes the rows; a request that asked
for the mission polls them meanwhile and keeps a projection in memory.

## 2. Modules

| Module | Models | Uses |
|---|---|---|
| `MissionQueue` | the mission table and every statement on one row of it | |
| `MissionWorkers` | worker loops, heartbeats, recoveries, crashes, stops, lost answers, late beats, composed with the table | extends `MissionQueue` |
| `MissionOwnership` | abstract specification: what claiming a mission promises | instance in `MissionWorkers` and `MissionTree` |
| `MissionTree` | one coordinated mission: runs of the root, children, dependencies, promotion, consolidation, supervisor cycles | instances of `MissionAnswer`, `MissionOwnership` |
| `MissionAnswer` | abstract specification: what a coordinated mission promises | instance in `MissionTree` |
| `CoordinationLatch` | the dispatch phase of the operational supervisors: scans, latches, dedupe, enqueue | |
| `WorkGovernance` | the gate, its ledger and the enqueue behind it, statement by statement, for any kind of work | |
| `DomainSignals`, `OfficeDemands`, `ScheduleRules` | what each kind of work does before and after the gate | extend `WorkGovernance` |
| `Intake` | the three kinds through one gate and one queue, and their properties | extends the three |
| `TaskBoard` | what the answer to a coordinated mission does to the tasks, with retries, robbed workers and people | |
| `Operations` | the requests that wait for the answer, and the runs they store | extends `TaskBoard` |
| `MCMissionWorkers`, `MCMissionTree`, `MCCoordination`, `MCIntake`, `MCOperations` | small instances for TLC | |
| `MissionQueue_proofs`, `MissionWorkers_proofs`, `MissionTree_proofs`, `MissionTreeOrder_proofs`, `CoordinationLatch_proofs`, `Intake_proofs`, `IntakeClaims_proofs`, `Operations_proofs` | theorems for all values of the constants | extend the modules above |

### MissionQueue

`status`, `attempt`, `lease`, `owner`, `lastError` are the columns of `model Mission`.
One action is one SQL statement (or, for `claim`, the transaction with
`FOR UPDATE SKIP LOCKED`); its guard is the statement's WHERE clause. `Owns(m, l)` is the
WHERE clause that `markWaiting`, `complete`, `fail` and `recoverStaleRunning` share:
`status = RUNNING AND leaseVersion = l`. `fail` reads the row and then updates it; the
update is fenced by the lease, under which `attempt` cannot change, so the two are one
action. `CompleteRoot` is the second statement of `completeConsolidation`, which names no
status; the three statuses of its guard are those that a root with a consolidation can be
in. Two maintenance statements (`cancelOrphanWaiting`, `purgeExpiredRetries`) write the
same rows and are included. In this module the callers are open: anyone may present any
lease that the row has ever had.

### MissionWorkers

One worker is one `loop()`. `pc` gives its position between awaits:

| `pc` | in `employee-worker.ts` |
|---|---|
| `down` | not started, stopped, or its process died |
| `idle`, `polling` | top of the loop (119-124), `claim` (125-135) |
| `claimed` | currentMissionId is set, the busy heartbeat is not written (137-139) |
| `executing` | in `executor.execute` (141-178), the timer beats |
| `failing` | in the catch, before `queue.fail` (179-219) |
| `closing` | in the finally block, before its heartbeat (237-242) |
| `dead` | loopPromise rejected: the heartbeat at the loop's top is outside the try (121) |

`run` is the claimed mission with its lease, `cur` is `this.currentMissionId`; the two are
different variables because the outer catch drops the first and not the second. Two
workers with one `EmployeeOf` are two processes of one employee: they share the heartbeat
row `hb`, `fresh`. A recovery is `ReadRunning`, `ReadHeartbeats`, `RequeueOne` per row and
`RecoveryEnds`: two queries and one conditional update per abandoned row, any number of
recoverers at once. The constant `Faults` switches what the environment may do: `crash`
(a process dies anywhere), `stop` (graceful stop at any point), `db` (a statement fails,
or commits and its answer is lost), `late` (beats are delayed in the event loop or in
flight and land in any order), `supervisor` (a recovery is cut between two steps).

Time is one Boolean per heartbeat row, `fresh`: inside the liveness window or not. Without
`late`, it expires only when no worker of the employee beats; with it, at any moment.

### MissionOwnership

Claiming a mission issues a ticket, numbered by the claims so far; only the client with
the newest ticket of a held mission decides how it goes on; tickets may be forgotten and
missions revoked at any time. It knows no leases, heartbeats or recoveries. The
refinement maps `granted` to `attempt` and a ticket to the `attempt` that the worker's run
remembers: `leaseVersion`, which recoveries increment too, fences as well as a ticket per
claim. Some missions may be there from the start.

`MissionTree` implements it a second time, for its root: `granted` is `rootAttempt`, and a
run that is not over has its number for a ticket. That is what a tree relies on and what
`MissionWorkers` provides, stated in one specification; and it says more of the root than
fencing does, since `completeConsolidation` overwrites the root without a condition, which
the abstract specification allows (`Administer`) only while nobody holds the mission.

### MissionTree

One root and everything below it. `MissionOwnership`, which the workers implement, is its
starting point: a settling statement succeeds only for the newest claimant of a mission,
so a run of the root is its attempt number, and `EndRun(a, s)` writes the root only while
`OwnsRoot(a)`; `ImplementsOwnership` holds the tree to the same specification.
What is not fenced by a lease happens one statement at a time:

| Actions | Code |
|---|---|
| `ClaimRoot`, `Delegate`, `FinishWithoutDelegation` | claim, the LLM's decision (`R/queued-mission-executor.ts` 329-365), 427-519 |
| `EnqueueChild`, `LinkEdge`, `BlockChild`, `MarkWaiting` | the two loops of `runCoordinate` (375-425) and the two statements of `linkDependency` (`R/mission-queue.ts` 395-416) |
| `ClaimChild`, `CompleteChild`, `ChildError` | an EXECUTE from claim to its settling statement |
| `ReadCandidates`, `Judge`, `Promote` | `promoteReadyDependents` (419-447) after a completed child; `recoverBlockedDag` (866-910) in a supervisor |
| `ReadParent`, `ReadExisting`, `EnqueueConsolidation` | the queries of `maybeEnqueueConsolidation` (552-610), in an executor and in `recoverWaitingParents` |
| `ClaimConsolidation`, `CompleteConsolidation`, `CloseRoot` | CONSOLIDATE and the two statements of `completeConsolidation` (449-486) |

`task[p]` is what an executor still has to do after its child's `complete()`, or where a
supervisor is in its cycle. A row is a run and a specialization: a run that is repeated
creates its own children, a decision that names one specialization twice is not
modelled. `ready` is `readiness = READY`; `deps` are the recorded dependencies, whereas
`PlanPreds` are those of the plan: the difference between the two is what can go wrong.
Children are enqueued and edges linked in any order, which includes the code's order.

`Hazards` switches what may go wrong, and `HazardBound` how often:

* `error`: an EXECUTE or CONSOLIDATE throws (retry or final failure by `maxAttempts`) or
  its worker dies (requeued whatever the attempts); `abort`: the same for a coordinator,
  between any two of its statements; what it wrote stays;
* `rob`: a recovery requeues the root of a coordinator that goes on, as `MissionWorkers`
  shows to be possible;
* `cut`: a process dies, or throws, between a committed settling statement and the
  statements that should follow it;
* `overlap`: executors and supervisors act while a coordinator is between its first child
  and `markWaiting`. Without it these statements are still interleaved with recoveries
  of the root and with aborts, and everybody else waits for them.

`cancelOrphanWaiting` and `purgeExpiredRetries`, maintenance after hours or days, are in
`MissionQueue` only. A CONSOLIDATE that would exceed `ConsolBound` is not created.

### MissionAnswer

Work is delegated while the mission is open; then it is gathered; an answer is prepared
only when nothing delegated is pending; then the mission is answered. It may also be
settled directly. The refinement reads the stage from the root's status and from the
existence of a CONSOLIDATE, and the pending work from the open EXECUTE rows.

### CoordinationLatch

One supervisor per process runs cycles: `Scan` (the scanners' view of the contexts),
`FindAbsent`/`DropAbsent` (`releaseAbsent`: a read, then a delete by id), and for each
request `Acquire`, perhaps `Reclaim`, `Search` (by objective hash since `latchedAt`),
`Lookup` and `Create` (the two statements of `enqueue` with dedupe) and `Complete`; a
statement that fails releases the latch by its key (`FailRequest`), and so does a
`complete()` that committed and whose answer was lost (`LoseAnswer`, then `Release`: the
CONSUMED row goes). A supervisor may die
anywhere, and a PENDING latch turns old whether its holder is alive or not (`Lapse`). The
constant `Exhausted` holds the keys of exhausted missions, whose CONSUMED latch must
survive the cycles in which the scan leaves them out. `contended` is a history of the
keys that were not left to one supervisor; the properties say what holds for the others
and, with their mutants, that being contended is the only excuse.

`Objectives[k]` is what `buildCoordinationObjective` may make of a context, and so its
hash: one for a context whose detail stays, several for one whose detail changes from scan
to scan, as `depth=...` of a congested queue does. A request takes any of them when its
latch is acquired (`asked`), and `Alike`, the missions that the search and the lookup can
match, are those with the same one. `Scopes` chooses which contexts come up together. The
insert that conflicts and the read of the row behind it are one step, that of the read: if
the row went in between, the code inserts again, and what changed it only comes earlier. `lastMissionId` is for readers only, and
events have no effect. All scans of a cycle are one step. `releaseAll` has no caller.

### WorkGovernance, DomainSignals, OfficeDemands, ScheduleRules, Intake

`handler[h]` is one activity of an API process (a webhook request, an office request, a
supervisor's cycle) and the statement before which it stands. The gate's part
(`admit`, `skip`, `find`, `create`, `bind`) is shared; `DomainSignals` adds scan, ingest,
evaluation and conversion, `OfficeDemands` the approval and the execution of a demand,
`ScheduleRules` the rules. `Identity` and `Context` abstract the hashes that
the gate compares: two works are alike or not, and 0 is an identity it does not trust.
`ledger` and `missions` are tables in the order of their rows. Reads that only the same
handler's next statement can make stale are one step with it (`fetch` and compare, the
count of similar signals and the read of `evaluate`, find and insert of `append`, which a
unique index guards).

A supervisor's cycle is several works of one handler, in the code's order (`ahead[h]` is
what it has yet to come to, in any order within a phase):

| Phase | Actions | Code |
|---|---|---|
| every repository: fetch, compare, store the snapshot, ingest the signal | `StartCycle`, `Fetch`, `Store`, `Ingest` | `scan` and `scanBinding` of `github-repository-scanner.ts` (162-195, 204-300) |
| then every signal found: load, evaluate, convert | `Load`, and the steps of a webhook's signal | `processGithubScan` (`R/signal-decision-engine.ts` 161-176) |
| then the rules, listed once | `List`, `Tick`, `MarkEnqueued` | `runScheduleRulesCycle` (`R/mission-scheduler.ts` 281-330) |

Errors end as much as they end in the code. One at a repository or at a rule is caught in
the loop over them, and the cycle goes on (`Catch`). Any other one ends the request, or
leaves the loop over the signals and with it the whole cycle, whose catch is in `runCycle`
(`supervisor-loop.ts:275`): `Die` for statements that fail and for deaths, `Throw` for a
transition that `assertTransition` refuses. What the cycle had found and did not come to is
then in `dropped` or in `stranded`: those signals are DETECTED, their snapshots are stored,
and no later scan sees a change.

The first scan of a repository makes no signal, and each push changes the same fields, which
the signal's identity is made of; the states of a repository are fixed, so that a stale
snapshot lets a change be found again but never makes a new one. Bindings are neither
removed nor disabled; a deferred signal is never taken up again, and `markResolved` and
`markExpired` have no caller. `runCycle` of `mission-scheduler.ts`, the portfolio scheduler,
is not called by the supervisor.

A mission ends once (`Finish`), and CANCELLED is one with FAILED: the gate treats them
alike, and a demand's row differs in its last word only (`demand.service.ts:34`). That
`completeConsolidation` may overwrite a CANCELLED root (`R/mission-queue.ts:474`) is in
`MissionQueue` and is not repeated here.

### TaskBoard and Operations

`run[w]` is a worker inside a CONSOLIDATE: `snapshot` (before its read of the workspace),
`act` (the plan is made; between two actions), `write` (between `findById` and `update`),
`root` (between the two statements of `completeConsolidation`). The plan is computed with
the snapshot, on which alone it depends; the call of the language model lies between the
two in the code. It is carried out in any order, since no other step can tell. `Resolve`
is `resolveTask`: the newest task of the outcome's title that is not DONE, otherwise the
newest pending one. `Outcomes` is constant because children have ended when a
consolidation exists; a FAILED child that maintenance revives is left out.
`row[c].claims` is attempt and lease in one: a recovery requeues a RUNNING row at any
time and the next claim invalidates the old worker's, as in `MissionWorkers`. How a root
comes to wait is in `MissionTree`; here a waiting root gets its consolidation at any time.

`ask[h]` is a request: `wait` (polling), `read` (the poll ended), `deliver` (the root was
read again). `Lapse` is the deadline; a terminal status counts however late it is seen. The
errors of the projection (`operational-run-from-queue.ts` 148-173: no initial delegation, no
`finishedAt`) are left out: a root that `complete` or `completeConsolidation` wrote has both.
`store` is in memory, and `Restart` empties it. The gate lets a request join a mission
that COMPLETED, so that two requests may hold one root.

## 3. What the runs check

| Run | Instance | Shows |
|---|---|---|
| `workers_fencing` | 2 processes of one employee, one mission with 3 claims and 3 attempts, purged after 2, one recovery, all five faults | `LeaseIsExclusive`, `HolderIsLastClaimant`, `OneRecoveryPerClaim`, `FailedIsExhausted`, `OnlyTheHolderSettles`, `SettledIsFinal`, `ImplementsOwnership` |
| `workers_punctual` | 2 employees, 2 missions, crashes and stops, punctual beats | `BeatingRunIsNotListed` |
| `workers_orphans` | 2 processes, one mission, crashes, stops, late beats | `OrphanIsRecovered` |
| `workers_orphan_stuck` | 1 worker, one mission, failing statements | violation of `OrphanIsRecovered` (finding below) |
| `tree_order` | 3 children, 2 before the third; 1 supervisor; 2 of error, cut, rob | `DagOrder`, `ImplementsOwnership` |
| `tree_answer` | 2 runs of the root, 2 children with an edge or a direct answer, 2 CONSOLIDATE rows; 1 of error, abort, cut | `ConsolidateAfterChildren`, `ImplementsAnswer`, `ImplementsOwnership`, `RootCloses` |
| `tree_overlap`, `tree_two_answers`, `tree_stuck` | 2 children, 1 edge, the hazards that the finding needs | violations (findings below) |
| `coordination` | 2 supervisors, an ordinary context and an escalation, or a congested queue with two depths, 2 events (contexts that come or go, deaths, failing statements, lost answers) | `HolderIsExclusive`, `LatchedOnce`, `DedupeHolds`, `EscalationStays`, `ContextIsServed` |
| `intake` | 2 handlers, 8 workloads of 1 to 3 works, 2 repositories, a history of 1, 1 death, error or interval | `OnlyRacesStrand`, `OneMissionPerWork`, `ConvertedAsDecided`, `SkippedWorkWasDone`, `DemandNeedsApproval`, `DemandReflectsMission`, `SignalIsSettled`, `ChangeIsSignalled`, `RuleIsServed` |
| `operations` | 2 workers, 1 CONSOLIDATE with 2 claims and 3 outcomes, 4 tasks, 2 requests, 6 boards with their edits and events | `CompletedRunIsAnswered`, `AnsweredIsOnBoard`, `FallbackOncePerClaim`, `DoneIsKept`, `AnswerIsDelivered` |

`workers_fencing`, `tree_order`, `coordination`, `intake` and `operations` also check the
type invariant of their modules. Every property has a mutant in `PROJECT.json`: a plausible
bug in one definition (the operators named `Faulty...`) with which TLC finds it violated.

Bounds. `ClaimBound` is the only bound on counters: `attempt` grows only by claims and
`lease` is at most twice `attempt` (`OneRecoveryPerClaim`). Three claims are enough for an
old holder, a newer one that was robbed too and the current one; a row with three
attempts and `PurgeAttempts = 2` passes that bound, is purged, is revived by
`recoverFailedRetryable` and exhausts its attempts. One mission is enough for the fencing run because no guard relates two rows;
two processes are enough for every conflict because each property relates two loop
iterations. These two processes are symmetric (`WorkerSymmetry`), and so are the two
missions of `workers_punctual`. In the tree, two children with an edge have every
situation of a dependency, a third one gives a child two predecessors; two runs give a
root children of an older run; two CONSOLIDATE rows allow a second one after a failed or
cut one, and a pair of concurrent ones. One supervisor and two executors already make
three concurrent callers of promotion and consolidation. `tree_answer` leaves out
`overlap` to keep the liveness check small; the theorems of section 4 cover it for its
safety properties. `RootCloses` is checked with
`HazardBound` 1 and `maxAttempts` 2, so that no row fails for good: with a final failure
it does not hold (`tree_stuck`).

`coordination`: every property relates two supervisors at one key, and the three keys
differ in the rules that apply to them, the congested queue being taken alone; two depths
are enough for a search that misses and one that finds; two events let a context go and come back, or a
holder die twice. `intake`: the kinds of work share the gate, the ledger and the queue
only, so the workloads are taken one by one instead of as a product: three alike pushes
(a skip needs two, and a third falls out of a history of one), two alike updates, an
ignored signal beside a rule, two states of one repository, two repositories in one cycle, a
demand of each risk. With two repositories a race at the signal of one ends a cycle that has the signal
of the other ahead of it.
`operations`: two claims give a row a robbed worker beside its successor and a retry that
meets what the first attempt did; two tasks of one title, one older, and two outcomes that
name none meet both branches of `Resolve`; the boards hold every status. Requests are
combined with small boards only, since the two halves meet in the root and its row alone.

The deadlock check is off: a system whose missions are all settled, whose
workers are stopped and whose inputs have come rests.

Fairness (`FairSpec` of `MissionWorkers`, used by `OrphanIsRecovered` only). `WorkerStep` is weakly fair: a
live loop goes on, and an execution ends (execution time is bounded by LLM and tool
timeouts). `LoopBeat` is strongly fair: a loop that keeps turning writes a heartbeat each
`heartbeatIntervalMs`. `RecoveryStep` is weakly fair: the supervisor's timer calls the
recovery again and again. `Lapse` is weakly fair: time passes. Faults, restarts (`Start`)
and the rest of the system (`Outside`) are not fair: orphans are recovered even if no
worker ever comes back.

`FairSpec` of the tree: a root, a child or a consolidation that is ready is claimed and
its run goes on (workers poll and their calls end), a process goes on with the statements
it began, and a supervisor's timer starts its next cycle. Hazards are never fair.

`FairSpec` of `CoordinationLatch`: the supervisors loop for ever (their timer starts the
next cycle, their statements return) and time passes for PENDING latches; contexts,
failures and the end of missions need not come. Of `Intake`: a handler's statements
return, it goes on with its cycle, and supervisors begin cycles for ever; requests, pushes,
deaths, errors and the end of missions are not fair. Of `Operations`: the statements of a request return and its
poll goes on; workers, recoveries, people and deadlines need not do anything.

### Findings

`workers_orphan_stuck`: the heartbeat that first names a claimed mission
(`R/employee-worker.ts:139`) is inside the outer try and before the inner one. When it
fails, the outer catch (243-257) stops the timer and polls on, without resetting
`currentMissionId`. The loop's own idle heartbeat then keeps naming the dropped mission,
which nobody executes and which, with fresh heartbeats that name it, is never abandoned
for `isRunningMissionAbandoned`. It stays RUNNING until that worker claims something else
or its process ends; `docs/production/environment.md:47` describes
`MISSION_STALE_RUNNING_MS` as the recovery of orphaned RUNNING missions.

`tree_overlap`: `recoverBlockedDag` makes a BLOCKED child without recorded dependencies
READY (`R/mission-queue.ts:879`). The coordinator creates children before it records
their dependencies, so a supervisor's cycle in between lets a child run before its
predecessor; `linkDependency` (412) then blocks a row that may already run. The same
happens, without overlap, to the children of a coordinator that died before its edges:
`abort` is therefore not among the hazards of `tree_order`.

`tree_two_answers`: `maybeEnqueueConsolidation` looks for an open CONSOLIDATE and creates
one in two statements (`R/mission-queue.ts:579`); two callers create two, and the mission
is answered twice.

`tree_stuck`: a predecessor that ends FAILED never lets its dependents become READY
(`R/mission-queue.ts:429`), and a consolidation waits for all children to be COMPLETED or
FAILED (570): the mission waits for ever. The handbook's lifecycle
(`docs/engineering-handbook/03-mission-orchestration.md:107`) ends in COMPLETED or FAILED.

### Limits of the properties

The exceptions that the properties make (`contended`, `crossed`, `dropped`, `touched`,
`overtaken`, `stranded`) are behaviours of the code, each found by TLC when the exception is left out.

* Latches. `releaseAbsent` decides from a scan and deletes later: a latch that is acquired
  or CONSUMED in between goes with it, although `coordination-latch-store.ts:69` keeps a
  consumed escalation "auditavel enquanto o FAILED existir", and a reclaim or a release by
  key may hit another holder's row (`prisma-coordination-latch-store.ts:128`: "no maximo uma
  instancia reclama"). All need two supervisors at one key within one cycle.
* Objectives. The dispatcher's comment says that a PENDING latch of a dead holder is
  reclaimed and the "missao ja existente desde latchedAt e reaproveitada (sem duplicata)"
  (`coordination-dispatcher.ts:27`). That holds for a context whose objective stays. That of
  `congestionamento_fila` names the depth of the queue (283), which the mission itself
  raises: the reclaimer's search by hash (105) and the dedupe of `enqueue` miss it, and a
  second mission is created under one latch that nobody contended. `LatchedOnce` and
  `DedupeHolds` therefore count missions per objective; for contexts with one objective
  that is the comment's claim, for the congested queue of the run `coordination` TLC
  reaches two missions under one latch life. A holder whose `complete()` committed and
  whose answer was lost releases the CONSUMED latch by its key (145), so that the context is
  escalated again: the second exception of `EscalationStays`.
* Gate. An EXECUTE row that `admit` finds for the same correlationId does not spare the
  caller the enqueue (`M/automation-office/submit-demand-to-core.ts:11`: "Idempotência no
  AlreadyDoneGate"): a retry after a death between enqueue and link, or two executions at
  once, create a second mission. SKIP rows fill the history of 20 and push the EXECUTE row
  out, so that done work is done again.
* Signals. `evaluate` and `markConverted` read, check and update in two statements: the
  slower of two engines writes EVALUATED over CONVERTED. When one of them meets a status that
  its transition does not allow, the throw ends its whole cycle: the signals of other
  repositories that the cycle had stored stay DETECTED for good although nothing died
  (`stranded`), so that `SignalIsSettled` has to excuse them; `OnlyRacesStrand` says that it
  takes two supervisors at one signal. Nothing takes up a signal that a
  death left behind, a deferred one, or a change whose snapshot was stored before its
  signal; two alike `pr.updated` may defer each other.
* Demands. The interpreter never gives READY, so a demand that is not critical stays
  PLANNED and cannot be executed; a modified one is back in PLANNED too; a death between
  plan and approval leaves AWAITING_APPROVAL without an approval.
* Tasks. The retry of a consolidation finds its titled tasks IN_PROGRESS or DONE and its
  fallback advances another pending task, and so does the successor of a robbed worker,
  whose own plan goes on unfenced. A person who finishes a task between `findById` and
  `update` sees it IN_PROGRESS again, although the executor's comment says "Nunca regride
  DONE". An action that fails does not keep the mission from being answered.
* Assisted missions. A run that timed out is not projected again when its mission ends, and
  may be stored over the completed run of another request for the same mission.
  `completeConsolidation` overwrites the root whatever its status: a CANCELLED root may
  become COMPLETED.

## 4. What is proved

For every set of missions, employees, workers, recoverers and faults, every
`MaxAttempts`, `PurgeAttempts` and `ClaimBound` (assumptions `QueueAssumption` and
`WorkersAssumption`, which only type the constants):

* `MissionQueue_proofs`: `QueueTypes`, `RecoveryAccounting`, `FailedOnlyExhausted`,
  `SettledStaysSettled`.
* `MissionWorkers_proofs`: `Types`, `ExclusiveLease`, `LastClaimantHolds`,
  `HolderAloneSettles`, `WorkersImplementQueue` (every step of the composed system is a
  step of `QueueSpec`, so the queue's theorems carry over: `WorkersRecoverOnce`,
  `WorkersFailExhausted`,
  `WorkersSettleForGood`), `Refinement` (`Spec => ImplementsOwnership`), and
  `HealthyRunsAreLeftAlone` (`BeatingRunIsNotListed`), which assumes `Punctual` (no late
  beats, no failing statements: without it the property is false, and the liveness window
  promises nothing) and `OneProcess` (no two workers of one employee, who would write
  each other's heartbeat row); crashes, stops and cut recoveries stay allowed.
* `MissionTree_proofs`, for every set of specializations, edges and plans, any bounds and
  any number of supervisors (`TreeAssumption`, `SupervisorAssumption` type the constants):
  `TreeTypes` (all hazards); `TreeConsolidatesAfterChildren` and `TreeImplementsAnswer`
  (`Spec => ImplementsAnswer`), for all hazards but `rob`, with which they do not hold.
* `MissionTreeOrder_proofs`, under the same assumptions: `TreeRunsInOrder` (`DagOrder`),
  for `Undisturbed` trees, that is all hazards but `overlap` and `abort`, with which it
  does not hold (`tree_overlap`); `TreeImplementsOwnership`
  (`Spec => ImplementsOwnership`), for all hazards.
* `CoordinationLatch_proofs`, for any number of supervisors, contexts, escalations and
  events (`LatchAssumption`): `TypeCorrect`, `Exclusive`, `EscalationKept`,
  `OneMissionPerObjective`, `DedupeBehindLatch`; nothing is assumed of the objectives that a
  context may take.
* `Intake_proofs`, for any works, handlers, policies, hashes, history and workloads
  (`GovernanceAssumption`, `SignalAssumption`, `DemandAssumption`): `TypeCorrect`,
  `SkipsAreSound`, `ApprovalFirst`, `ClosedAsEnded`.
* `IntakeClaims_proofs`, under the same assumptions: `ClaimsHold`, `OneMissionEach`
  (`OneMissionPerWork`), `ConvertedToItsDecision` (`ConvertedAsDecided`),
  `WebhooksAreAlone` and `StrandedByRaces` (`OnlyRacesStrand`).
* `Operations_proofs`, for any tasks, titles, outcomes, workers, requests and attempts
  (`BoardAssumption`, which says that no two tasks are equally old, and
  `RequestAssumption`): `Types`, `OnBoardWhenAnswered`, `FallbackOnce`, `DoneKept`,
  `StoredIsAnswered`.

The argument for the workers. `LeaseIsExclusive` is not inductive: the lease a claim issues is new only
if nobody remembers it already. The invariant `IInv` adds that every lease a loop
iteration (`RunLeaseIssued`) or a recovery snapshot (`SnapLeaseIssued`) remembers is at
most the row's lease, that a busy worker's run names a mission (`BusyHasRun`), and that a
holder is the row's last claimant. Every step is classified once (`StepHasShape`) as one
of six moves (rest, drop, claim, decide, requeue, administer); the invariants, the action
property and the refinement are then proved on the moves instead of on the actions.

For `BeatingRunIsNotListed` the two queries of a recovery matter: the rows were read under
some lease, and the heartbeats are compared later. `SnapsNameTheOwner` says that a row
read under the lease of a run names that run's employee, so that the right heartbeat is
looked at; `BeatsItsMission` that while the timer of a worker runs its heartbeat row is
fresh and names its mission. Both rest on `IInv`: a lease that a snapshot remembers was
issued before, so the next claim does not reuse it.

The argument for the tree. That no open child exists besides a CONSOLIDATE is not
inductive: between the query that saw the children ended and the statement that creates
the row, a coordinator might add a child. `BusyOwns` says why not: a run that is not over
owns the root, so the root is RUNNING, and a root seen WAITING has no such run and never
gets one again. `Answering` extends the claim to the callers between their queries
(`Consolidating => Gathered`), and `ClosingIsCompleted` to the gap inside
`completeConsolidation`. `rob` breaks exactly `BusyOwns`: the creation of a child is
not fenced (`R/queued-mission-executor.ts:381`), and a coordinator that lost its root may
create children although the next run's children have ended and their consolidation is
enqueued. With `rob` and `overlap` among the hazards TLC finds both
`ConsolidateAfterChildren` and `ImplementsAnswer` violated.

The argument for the order. That a child which is READY or started has its predecessors
COMPLETED (`ReadyIsDone`, `DagOrder`) is not inductive: whoever makes it READY looked at
the recorded dependencies, not at the plan, and in an earlier statement. `Linked` closes
the first gap: a run that is over has recorded all dependencies of its plan, and while one
is not over, nobody promotes unless it overlaps; a run that dies before it is done
would break it, which is why `abort` is excluded while `rob` is not: a robbed coordinator
goes on and links the rest. `PromotesDone` closes the second: a promoter between its two
statements has seen the predecessors COMPLETED, and that is final.

The argument for the root's ownership. A run that is not over may settle the root only
under `OwnsRoot`, which makes it the newest one. What is not fenced is `CloseRoot`;
`Unheld` says that once anybody consolidates, the root is WAITING or COMPLETED, from
where no claim or recovery takes it, and `ClosingIsCompleted` that who is about to close
the root has a COMPLETED row to show. `MissionWorkers` and `MissionTree` are so proved to
implement one specification of ownership, the first with leases, heartbeats and
recoveries, the second with the children and the answer; that the product of the two is
the program is an argument of this text, not a theorem.

The argument for the latches. That a latch has one holder is not inductive: a supervisor
that is about to reclaim or to delete the row does not hold it yet. The invariants say that
for a key that is not contended, nobody else is about to reclaim or to delete the row of a
holder, which is PENDING and not old (`Private`), and the missions created since
the row's `latchedAt` have different objectives, none that of its holder while it is before
the insert (`Counted`): a reclaimer finds the mission of a dead holder with its own
objective because its search starts at that moment.

The argument for the intake. `Inv` ties the memory of the handlers to the tables
(`Knows`: a demand past the gate was granted, a mission to bind is one of its work, a
mission to skip to was done, a mission to close has ended) and the rows of the ledger to
missions (`Decided`). Missions are only added and finished, grants only added, so that what
a handler knows stays true until it writes it; each action is proved to keep `Inv` on its
own, and three frames (`HandlersFrame`, `LedgerStays`, `DemandStays`) carry the rest.

That a work has one mission (`Claims`) needs a second invariant. Neither the gate nor the
dedupe of the queue protects it: the first looks at what is done, the second at what is
open. What does is the status of the work's own row. `Settled` says that a work whose row
lets somebody begin (a signal DETECTED, a demand not yet EXECUTING, a rule that is due) can
take one mission more, or is a demand or a rule whose handler has enqueued it and will say
so next; `Holder`, that a handler before the enqueue may still enqueue, and that one past
it has the mission which the ledger names; `Private`, that a work which was not `crossed`
has one handler; `Unarrived`, that nothing is known of an input before it comes. A handler
that dies leaves a demand or a rule whose row does not tell of its mission (`dropped`), but
never such a signal: its row moves before the enqueue. So `dropped` excuses demands and
rules only, and `crossed` excuses all three. A step is judged at its own work, and two
frames (`HolderStays`, `SettledStays`) carry the claims about all others. A cycle adds a gap:
between the one list of the rules and the turn of each, a rule is nobody's current work.
`Listed` says that a listed rule may still have its mission, since whoever else comes to it
makes it `crossed`, and `Shrinks` that no other step than `List` adds rules to a cycle.

Why only races strand follows from the same claims: `Holder` gives a signal that was not
`crossed` the status which each transition asks for, so that the one whose transition is
refused was, and it is a scan's signal because whoever is at a webhook's has nothing ahead
of it (`WebhooksAreAlone`).

The argument for the board. What must be on it when a consolidation is closed depends on a
plan that was made long ago. `KnowsTasks` says that a planned task that nobody touched is
still unfinished; `Covers` that each named outcome of a run is on the board or in its plan,
whoever else works on it; the plan is empty when the run closes. For the fallback,
`ClaimsApart` says that one claim has one run, and `AtMostOneUnnamed` that what the claim
has advanced and may still advance holds at most one task that no outcome names. For the
store, COMPLETED is final for a root (`RootMoves`), and a root that has a consolidation
becomes COMPLETED only by a worker whose row is COMPLETED.

Every invariant, action property and refinement of a passing run is stated by one of these
theorems. Model-checked only are the liveness properties `OrphanIsRecovered`,
`RootCloses`, `ContextIsServed`, `SignalIsSettled`, `ChangeIsSignalled`, `RuleIsServed` and
`AnswerIsDelivered`: fairness is out of the prover's reach. `BeatingRunIsNotListed` and
`DagOrder` are model-checked and proved under the hypotheses named above, which the
instances of their runs meet.

## 5. What is not modelled

* Payloads, results, events and logs: no transition of these parts reads them.
* Priorities and order of claims: any selected row may be claimed.
* Heartbeat status strings and metrics columns.
* The action runtime: no employee calls `requestAction` outside the tests.
* The synchronous path of assisted missions (`runSync`), behind a switch that is on by
  default; the portfolio scheduler, which nothing starts; the follow-up mission of a
  technical delivery, a find-then-enqueue like those of the intake that no retry repeats.
* Prompts, planning and the routing of texts: their results are constants or choices here.
* The parts that `PROJECT.json` marks not modelled.

## 6. Plan

1. Done: `MissionQueue`, `MissionWorkers`, `MissionOwnership` and their theorems.
2. Done: `MissionTree`, `MissionAnswer`, and their theorems.
3. Done: `CoordinationLatch` and its theorems.
4. Done: `WorkGovernance`, `DomainSignals`, `OfficeDemands`, `ScheduleRules`, composed in
   `Intake`, and theorems.
5. Done: `TaskBoard`, `Operations` and their theorems.
6. Done: the theorems about healthy workers, the order of children, the ownership of a
   root and the missions of the intake.
7. Next theorems: the invariants behind the liveness properties, that is, for each wait of
   a `FairSpec`, that the awaited row is always one that a fair action takes up (`RootCloses`
   and `OrphanIsRecovered` first).
8. The follow-up producer, once something in the code says what is expected of it; the
   action runtime, once employees use it.
