---------------------------- MODULE MissionTree ----------------------------
(***************************************************************************)
(* One coordinated mission from its submission to its answer: the runs of  *)
(* its COORDINATE root (queued-mission-executor.ts), the EXECUTE children  *)
(* they create and link to a DAG, the promotion of children whose          *)
(* predecessors completed, the CONSOLIDATE rows that answer the root, and  *)
(* the supervisor's recoveries of waiting roots and blocked children       *)
(* (mission-queue.ts, recovery-coordinator.ts).                            *)
(*                                                                         *)
(* A settling statement is fenced by the attempt of the run that issues    *)
(* it: MissionWorkers implements MissionOwnership.  Everything else that a *)
(* run writes is NOT fenced, and happens here one statement at a time.     *)
(***************************************************************************)
EXTENDS Naturals, FiniteSets

CONSTANTS
  Specs,        \* specializations a coordinator can delegate to
  Edges,        \* inferDefaultEdges: <<before, after>> pairs of specializations
  Plans,        \* the sets of specializations that a decision may delegate to
  MaxAttempts,  \* maxAttempts, of every row
  RunBound,     \* BOUND of the model: runs of the root
  ConsolBound,  \* BOUND of the model: CONSOLIDATE rows
  Supervisors,  \* one per process of the API
  Hazards,      \* what may go wrong, see HazardKinds
  HazardBound   \* BOUND of the model: how often it goes wrong

\* "error": an EXECUTE or CONSOLIDATE throws, or its worker dies; "abort": a
\* coordination throws or its worker dies; "rob": a recovery requeues a root
\* whose coordinator goes on; "cut": a process dies after its statement that
\* settles a row; "overlap": the others act while a coordinator writes.
HazardKinds == {"error", "abort", "rob", "cut", "overlap"}

ASSUME TreeAssumption ==
  /\ Edges \subseteq Specs \X Specs
  /\ Plans \subseteq SUBSET Specs
  /\ MaxAttempts \in Nat \ {0}
  /\ RunBound \in Nat
  /\ ConsolBound \in Nat
  /\ HazardBound \in Nat
  /\ Hazards \subseteq HazardKinds

\* Operators named Faulty... are plausible bugs, one line away from the definition
\* that follows; no specification uses them.

Runs == 1..RunBound
Rows == Runs \X Specs      \* a run creates one child per specialization
Consols == 1..ConsolBound
Nothing == <<>>            \* no row

ASSUME SupervisorAssumption == Supervisors \cap Rows = {}

VARIABLES
  root,         \* status of the root
  rootAttempt,  \* its attempt: the number of its runs
  coord,        \* coord[a]: what run a of the root is doing, and its plan
  child,        \* status of the EXECUTE rows
  ready,        \* Mission.readiness = READY
  attempt,      \* attempts of the EXECUTE rows
  deps,         \* MissionDependency: <<mission, dependsOn>>
  consol,       \* status of the CONSOLIDATE rows
  consolAttempt,
  closing,      \* CONSOLIDATE rows COMPLETED by a completeConsolidation that goes on
  task,         \* what a child's executor does after complete(), or a supervisor
  hazards       \* hazards so far

rootVars == <<root, rootAttempt, coord>>
childVars == <<child, ready, attempt, deps>>
consolVars == <<consol, consolAttempt, closing>>
vars == <<rootVars, childVars, consolVars, task, hazards>>

ChildStatus == {"ABSENT", "QUEUED", "RUNNING", "COMPLETED", "FAILED"}
Terminal == {"COMPLETED", "FAILED"}
Open == {"QUEUED", "RUNNING"}

Children == {m \in Rows : child[m] # "ABSENT"}
Preds(m) == {p \in Rows : <<m, p>> \in deps}
PlanEdges(P) == {e \in Edges : e[1] \in P /\ e[2] \in P}

\* The predecessors that the plan of m's run gives m.
PlanPreds(m) == {<<m[1], e[1]>> : e \in {d \in PlanEdges(coord[m[1]].plan) : d[2] = m[2]}}

Init ==
  /\ root = "QUEUED"
  /\ rootAttempt = 0
  /\ coord = [a \in Runs |-> [pc |-> "none", plan |-> {}, at |-> Nothing]]
  /\ child = [m \in Rows |-> "ABSENT"]
  /\ ready = [m \in Rows |-> FALSE]
  /\ attempt = [m \in Rows |-> 0]
  /\ deps = {}
  /\ consol = [c \in Consols |-> "ABSENT"]
  /\ consolAttempt = [c \in Consols |-> 0]
  /\ closing = {}
  /\ task = [p \in Rows \cup Supervisors |-> [pc |-> "idle", todo |-> {}, pick |-> Nothing]]
  /\ hazards = 0

Hazard(kind) ==
  /\ kind \in Hazards
  /\ hazards < HazardBound
  /\ hazards' = hazards + 1

\* Where a row that was claimed n times can be after its run broke: fail() looks
\* at maxAttempts, the recovery after a worker's death does not.
AfterError(n) == {"QUEUED"} \cup {s \in {"FAILED"} : n >= MaxAttempts}

-----------------------------------------------------------------------------
(* The coordinator *)

OwnsRoot(a) == root = "RUNNING" /\ rootAttempt = a

\* ImplementsOwnership, when a claim does not count as an attempt.
FaultyClaimRoot ==
  /\ root = "QUEUED"
  /\ rootAttempt < RunBound
  /\ root' = "RUNNING"
  /\ rootAttempt' = IF rootAttempt = 0 THEN 1 ELSE rootAttempt
  /\ coord' = [coord EXCEPT ![rootAttempt + 1].pc = "deciding"]
  /\ UNCHANGED <<childVars, consolVars, task, hazards>>

ClaimRoot ==
  /\ root = "QUEUED"
  /\ rootAttempt < RunBound
  /\ root' = "RUNNING"
  /\ rootAttempt' = rootAttempt + 1
  /\ coord' = [coord EXCEPT ![rootAttempt + 1].pc = "deciding"]
  /\ UNCHANGED <<childVars, consolVars, task, hazards>>

Delegate(a, P) ==
  /\ coord[a].pc = "deciding"
  /\ P # {}
  /\ coord' = [coord EXCEPT ![a] = [pc |-> "writing", plan |-> P, at |-> Nothing]]
  /\ UNCHANGED <<root, rootAttempt, childVars, consolVars, task, hazards>>

\* ImplementsOwnership, without the fence.
FaultyEndRun(a, s) ==
  /\ coord' = [coord EXCEPT ![a].pc = "ended"]
  /\ root' = s
  /\ UNCHANGED rootAttempt

\* The run ends with a fenced statement that leaves the root in status s; a run
\* that lost the root gets a StaleMissionOwnershipError instead.
EndRun(a, s) ==
  /\ coord' = [coord EXCEPT ![a].pc = "ended"]
  /\ root' = IF OwnsRoot(a) THEN s ELSE root
  /\ UNCHANGED rootAttempt

FinishWithoutDelegation(a) ==
  /\ coord[a].pc = "deciding"
  /\ {} \in Plans
  /\ EndRun(a, "COMPLETED")
  /\ UNCHANGED <<childVars, consolVars, task, hazards>>

\* TypeOK, when the row keeps the status it is created with by default.
FaultyEnqueueChild(a, s) ==
  /\ coord[a].pc = "writing"
  /\ s \in coord[a].plan
  /\ child[<<a, s>>] = "ABSENT"
  /\ child' = [child EXCEPT ![<<a, s>>] = "CREATED"]
  /\ ready' = [ready EXCEPT ![<<a, s>>] = PlanPreds(<<a, s>>) = {}]
  /\ UNCHANGED <<rootVars, attempt, deps, consolVars, task, hazards>>

EnqueueChild(a, s) ==
  /\ coord[a].pc = "writing"
  /\ s \in coord[a].plan
  /\ child[<<a, s>>] = "ABSENT"
  /\ child' = [child EXCEPT ![<<a, s>>] = "QUEUED"]
  /\ ready' = [ready EXCEPT ![<<a, s>>] = PlanPreds(<<a, s>>) = {}]
  /\ UNCHANGED <<rootVars, attempt, deps, consolVars, task, hazards>>

AllEnqueued(a) == \A s \in coord[a].plan : child[<<a, s>>] # "ABSENT"
EdgeRow(a, e) == <<<<a, e[2]>>, <<a, e[1]>>>>

\* linkDependency upserts the dependency ...
LinkEdge(a, e) ==
  /\ coord[a].pc = "writing"
  /\ AllEnqueued(a)
  /\ e \in PlanEdges(coord[a].plan)
  /\ EdgeRow(a, e) \notin deps
  /\ deps' = deps \cup {EdgeRow(a, e)}
  /\ coord' = [coord EXCEPT ![a].pc = "blocking", ![a].at = <<a, e[2]>>]
  /\ UNCHANGED <<root, rootAttempt, child, ready, attempt, consolVars, task, hazards>>

\* ... and then blocks the dependent, whatever became of it in the meantime.
BlockChild(a) ==
  /\ coord[a].pc = "blocking"
  /\ ready' = [ready EXCEPT ![coord[a].at] = FALSE]
  /\ coord' = [coord EXCEPT ![a].pc = "writing", ![a].at = Nothing]
  /\ UNCHANGED <<root, rootAttempt, child, attempt, deps, consolVars, task, hazards>>

MarkWaiting(a) ==
  /\ coord[a].pc = "writing"
  /\ AllEnqueued(a)
  /\ \A e \in PlanEdges(coord[a].plan) : EdgeRow(a, e) \in deps
  /\ EndRun(a, "WAITING")
  /\ UNCHANGED <<childVars, consolVars, task, hazards>>

\* The run throws or dies between two statements; what it wrote stays.
AbortRun(a) ==
  /\ Hazard("abort")
  /\ coord[a].pc \notin {"none", "ended"}
  /\ \E s \in AfterError(a) : EndRun(a, s)
  /\ UNCHANGED <<childVars, consolVars, task>>

\* recoverStaleRunning takes the root from a run that goes on.
RobRun ==
  /\ Hazard("rob")
  /\ root = "RUNNING"
  /\ root' = "QUEUED"
  /\ UNCHANGED <<rootAttempt, coord, childVars, consolVars, task>>

-----------------------------------------------------------------------------
(* The children *)

ClaimChild(m) ==
  /\ child[m] = "QUEUED"
  /\ ready[m]
  /\ child' = [child EXCEPT ![m] = "RUNNING"]
  /\ attempt' = [attempt EXCEPT ![m] = @ + 1]
  /\ UNCHANGED <<rootVars, ready, deps, consolVars, task, hazards>>

Goto(p, pc) == task' = [task EXCEPT ![p].pc = pc]

CompleteChild(m) ==
  /\ child[m] = "RUNNING"
  /\ child' = [child EXCEPT ![m] = "COMPLETED"]
  /\ Goto(m, "candidates")
  /\ UNCHANGED <<rootVars, ready, attempt, deps, consolVars, hazards>>

\* fail(), or the recovery of a dead worker; a worker that was robbed of a
\* child writes nothing more, so its run needs no memory here.
ChildError(m) ==
  /\ Hazard("error")
  /\ child[m] = "RUNNING"
  /\ \E s \in AfterError(attempt[m]) : child' = [child EXCEPT ![m] = s]
  /\ UNCHANGED <<rootVars, ready, attempt, deps, consolVars, task>>

-----------------------------------------------------------------------------
(* Promotion, by the executor of a completed child or by a supervisor *)

\* promoteReadyDependents goes on to maybeEnqueueConsolidation, a cycle ends.
AfterPromotion(p) == IF p \in Supervisors THEN "idle" ELSE "parent"

\* The loop over the candidates that are left.
Consider(p, todo) ==
  task' = [task EXCEPT ![p] =
    [pc |-> IF todo = {} THEN AfterPromotion(p) ELSE "judging", todo |-> todo, pick |-> Nothing]]

\* promoteReadyDependents reads the edges of its child, recoverBlockedDag the
\* blocked children.
ReadCandidates(p) ==
  /\ task[p].pc = "candidates"
  /\ Consider(p, IF p \in Supervisors
                   THEN {m \in Rows : child[m] = "QUEUED" /\ ~ready[m]}
                   ELSE {m \in Rows : p \in Preds(m)})
  /\ UNCHANGED <<rootVars, childVars, consolVars, hazards>>

\* DagOrder, when a predecessor that FAILED counts as done.
FaultyJudge(p, m) ==
  /\ task[p].pc = "judging"
  /\ m \in task[p].todo
  /\ IF \A q \in Preds(m) : child[q] \in Terminal
       THEN task' = [task EXCEPT ![p].pc = "promoting", ![p].pick = m, ![p].todo = @ \ {m}]
       ELSE Consider(p, task[p].todo \ {m})
  /\ UNCHANGED <<rootVars, childVars, consolVars, hazards>>

\* The predecessors of one candidate are read; none is as good as all done.
Judge(p, m) ==
  /\ task[p].pc = "judging"
  /\ m \in task[p].todo
  /\ IF \A q \in Preds(m) : child[q] = "COMPLETED"
       THEN task' = [task EXCEPT ![p].pc = "promoting", ![p].pick = m, ![p].todo = @ \ {m}]
       ELSE Consider(p, task[p].todo \ {m})
  /\ UNCHANGED <<rootVars, childVars, consolVars, hazards>>

\* The update of readiness has no condition of its own.
Promote(p) ==
  /\ task[p].pc = "promoting"
  /\ ready' = [ready EXCEPT ![task[p].pick] = TRUE]
  /\ Consider(p, task[p].todo)
  /\ UNCHANGED <<rootVars, child, attempt, deps, consolVars, hazards>>

-----------------------------------------------------------------------------
(* maybeEnqueueConsolidation: three queries, in each of its callers *)

\* A cycle goes on to recoverBlockedDag, the executor of a child is done.
AfterConsolidation(p) == IF p \in Supervisors THEN "candidates" ELSE "idle"

\* ImplementsAnswer, without the test of the root.
FaultyReadParent(p) ==
  /\ task[p].pc = "parent"
  /\ Goto(p, IF Children # {} /\ \A m \in Children : child[m] \in Terminal
             THEN "existing" ELSE AfterConsolidation(p))
  /\ UNCHANGED <<rootVars, childVars, consolVars, hazards>>

\* ConsolidateAfterChildren, when one finished child is enough.
FaultyReadSomeChild(p) ==
  /\ task[p].pc = "parent"
  /\ Goto(p, IF root = "WAITING" /\ \E m \in Children : child[m] \in Terminal
             THEN "existing" ELSE AfterConsolidation(p))
  /\ UNCHANGED <<rootVars, childVars, consolVars, hazards>>

\* The root and its children; WAITING is only left by the root's own answer.
ReadParent(p) ==
  /\ task[p].pc = "parent"
  /\ Goto(p, IF /\ root = "WAITING"
                /\ Children # {}
                /\ \A m \in Children : child[m] \in Terminal
             THEN "existing" ELSE AfterConsolidation(p))
  /\ UNCHANGED <<rootVars, childVars, consolVars, hazards>>

\* RootCloses, when a CONSOLIDATE that is settled counts as one too.
FaultyReadExisting(p) ==
  /\ task[p].pc = "existing"
  /\ Goto(p, IF \E c \in Consols : consol[c] # "ABSENT"
             THEN AfterConsolidation(p) ELSE "creating")
  /\ UNCHANGED <<rootVars, childVars, consolVars, hazards>>

\* OPEN_STATUSES, as far as a CONSOLIDATE can be in them.
ReadExisting(p) ==
  /\ task[p].pc = "existing"
  /\ Goto(p, IF \E c \in Consols : consol[c] \in Open THEN AfterConsolidation(p) ELSE "creating")
  /\ UNCHANGED <<rootVars, childVars, consolVars, hazards>>

\* Rows are taken in order; when ConsolBound rows exist nothing more is created.
EnqueueConsolidation(p) ==
  /\ task[p].pc = "creating"
  /\ consol' = [c \in Consols |->
       IF consol[c] = "ABSENT" /\ \A d \in 1..(c - 1) : consol[d] # "ABSENT"
         THEN "QUEUED" ELSE consol[c]]
  /\ Goto(p, AfterConsolidation(p))
  /\ UNCHANGED <<rootVars, childVars, consolAttempt, closing, hazards>>

\* A supervisor's cycle: recoverWaitingParents, then recoverBlockedDag.
StartCycle(p) ==
  /\ p \in Supervisors
  /\ task[p].pc = "idle"
  /\ Goto(p, "parent")
  /\ UNCHANGED <<rootVars, childVars, consolVars, hazards>>

CutTask(p) ==
  /\ Hazard("cut")
  /\ task[p].pc # "idle"
  /\ task' = [task EXCEPT ![p] = [pc |-> "idle", todo |-> {}, pick |-> Nothing]]
  /\ UNCHANGED <<rootVars, childVars, consolVars>>

-----------------------------------------------------------------------------
(* The consolidation *)

ClaimConsolidation(c) ==
  /\ consol[c] = "QUEUED"
  /\ consol' = [consol EXCEPT ![c] = "RUNNING"]
  /\ consolAttempt' = [consolAttempt EXCEPT ![c] = @ + 1]
  /\ UNCHANGED <<rootVars, childVars, closing, task, hazards>>

\* completeConsolidation completes the CONSOLIDATE under its lease ...
CompleteConsolidation(c) ==
  /\ consol[c] = "RUNNING"
  /\ consol' = [consol EXCEPT ![c] = "COMPLETED"]
  /\ closing' = closing \cup {c}
  /\ UNCHANGED <<rootVars, childVars, consolAttempt, task, hazards>>

\* ... and then the root, without a condition.
CloseRoot(c) ==
  /\ c \in closing
  /\ root' = "COMPLETED"
  /\ closing' = closing \ {c}
  /\ UNCHANGED <<rootAttempt, coord, childVars, consol, consolAttempt, task, hazards>>

CutClosing(c) ==
  /\ Hazard("cut")
  /\ c \in closing
  /\ closing' = closing \ {c}
  /\ UNCHANGED <<rootVars, childVars, consol, consolAttempt, task>>

ConsolidationError(c) ==
  /\ Hazard("error")
  /\ consol[c] = "RUNNING"
  /\ \E s \in AfterError(consolAttempt[c]) : consol' = [consol EXCEPT ![c] = s]
  /\ UNCHANGED <<rootVars, childVars, consolAttempt, closing, task>>

-----------------------------------------------------------------------------

CoordinatorStep(a) ==
  \/ \E P \in Plans : Delegate(a, P)
  \/ FinishWithoutDelegation(a)
  \/ \E s \in Specs : EnqueueChild(a, s)
  \/ \E e \in Edges : LinkEdge(a, e)
  \/ BlockChild(a)
  \/ MarkWaiting(a)

TaskStep(p) ==
  \/ ReadCandidates(p)
  \/ \E m \in task[p].todo : Judge(p, m)
  \/ Promote(p)
  \/ ReadParent(p)
  \/ ReadExisting(p)
  \/ EnqueueConsolidation(p)
  \/ StartCycle(p)

ChildStep(m) == ClaimChild(m) \/ CompleteChild(m)

ConsolidationStep(c) == ClaimConsolidation(c) \/ CompleteConsolidation(c) \/ CloseRoot(c)

\* No coordinator is between its first child and its last statement.
NobodyWrites == \A a \in Runs : coord[a].pc \notin {"writing", "blocking"}

Coordination ==
  \/ ClaimRoot
  \/ \E a \in Runs : CoordinatorStep(a) \/ AbortRun(a)
  \/ RobRun

Others ==
  /\ "overlap" \in Hazards \/ NobodyWrites
  /\ \/ \E m \in Rows : ChildStep(m) \/ ChildError(m)
     \/ \E p \in Rows \cup Supervisors : TaskStep(p) \/ CutTask(p)
     \/ \E c \in Consols : ConsolidationStep(c) \/ CutClosing(c) \/ ConsolidationError(c)

Next == Coordination \/ Others

Spec == Init /\ [][Next]_vars

\* Workers claim what is ready and finish what they claimed, a process goes on
\* with what it began, and the supervisors' timers start their cycles again.
FairSpec ==
  /\ Spec
  /\ WF_vars(ClaimRoot)
  /\ \A a \in Runs : WF_vars(CoordinatorStep(a))
  /\ \A m \in Rows : WF_vars(ChildStep(m))
  /\ \A p \in Rows \cup Supervisors : WF_vars(TaskStep(p))
  /\ \A c \in Consols : WF_vars(ConsolidationStep(c))

-----------------------------------------------------------------------------
(* Properties *)

TypeOK ==
  /\ root \in ChildStatus \cup {"WAITING"}
  /\ rootAttempt \in 0..RunBound
  /\ coord \in [Runs -> [pc : {"none", "deciding", "writing", "blocking", "ended"},
                         plan : SUBSET Specs,
                         at : Rows \cup {Nothing}]]
  /\ child \in [Rows -> ChildStatus]
  /\ ready \in [Rows -> BOOLEAN]
  /\ attempt \in [Rows -> Nat]
  /\ deps \subseteq Rows \X Rows
  /\ consol \in [Consols -> ChildStatus]
  /\ consolAttempt \in [Consols -> Nat]
  /\ closing \subseteq Consols
  /\ task \in [Rows \cup Supervisors ->
                [pc : {"idle", "candidates", "judging", "promoting", "parent", "existing", "creating"},
                 todo : SUBSET Rows,
                 pick : Rows \cup {Nothing}]]
  /\ hazards \in 0..HazardBound

\* A child starts only after every child that its plan puts before it COMPLETED
\* (inferDefaultEdges; "Promove sucessoras cujas predecessoras estao COMPLETED").
DagOrder ==
  \A m \in Children :
    child[m] # "QUEUED" => \A q \in PlanPreds(m) : child[q] = "COMPLETED"

\* A CONSOLIDATE exists only when all children are in a terminal state, so that
\* its answer covers all the work that was delegated (ADR-007).
ConsolidateAfterChildren ==
  (\E c \in Consols : consol[c] # "ABSENT") =>
    \A m \in Children : child[m] \in Terminal

\* A mission has one consolidation at a time (digital-team-online-fase-1.md: one
\* mission, one execution, one consolidated answer).
OneOpenConsolidation ==
  \A c, d \in Consols : consol[c] \in Open /\ consol[d] \in Open => c = d

\* A submitted mission is answered or fails for good: it never waits for ever.
RootCloses == <>(root \in Terminal)

(***************************************************************************)
(* The implementation of MissionAnswer.                                    *)
(***************************************************************************)
StageOf ==
  CASE root = "COMPLETED" -> "answered"
    [] root = "FAILED" -> "failed"
    [] root = "WAITING" ->
         IF \E c \in Consols : consol[c] # "ABSENT" THEN "answering" ELSE "gathering"
    [] OTHER -> "open"

TheAnswer == INSTANCE MissionAnswer WITH
  Work <- Rows,
  stage <- StageOf,
  pending <- {m \in Rows : child[m] \in Open}

\* Every behaviour of coordinators, executors, supervisors and consolidations is
\* one of MissionAnswer: no answer is prepared while delegated work is pending.
ImplementsAnswer == TheAnswer!AnswerSpec

(***************************************************************************)
(* The implementation of MissionOwnership by the root and its runs, which  *)
(* MissionWorkers implements for the workers that issue the statements.    *)
(***************************************************************************)
Busy(a) == coord[a].pc \in {"deciding", "writing", "blocking"}

RootPhase ==
  CASE root = "QUEUED" -> "free"
    [] root = "RUNNING" -> "held"
    [] root = "WAITING" -> "handed"
    [] root = "COMPLETED" -> "done"
    [] OTHER -> "dropped"

RootOwnership == INSTANCE MissionOwnership WITH
  Missions <- {"root"},
  Clients <- Runs,
  Nobody <- "nobody",
  phase <- [m \in {"root"} |-> RootPhase],
  granted <- [m \in {"root"} |-> rootAttempt],
  ticket <- [a \in Runs |-> IF Busy(a) THEN [m |-> "root", n |-> a]
                                      ELSE [m |-> "nobody", n |-> 0]]

\* Every behaviour of the root is one of MissionOwnership: it is only settled by its
\* newest run, never by one that a recovery robbed, and a consolidation, whose update
\* of the root has no condition, meets a root that nobody holds.
ImplementsOwnership == RootOwnership!OwnershipSpec

=============================================================================
