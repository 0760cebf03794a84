----------------------------- MODULE TaskBoard -----------------------------
(***************************************************************************)
(* What the answer to a coordinated mission does to the tasks of its       *)
(* workspace.  The worker that runs a CONSOLIDATE reads the board, plans   *)
(* to advance the tasks that the delegated work names, carries the plan    *)
(* out one task at a time, and only then completes its row and the root.   *)
(* People edit the board meanwhile, and a recovery may take the row from a *)
(* worker that goes on.                                                    *)
(*                                                                         *)
(* runConsolidate is in queued-mission-executor.ts, the plan in            *)
(* mission-domain-sync.ts, its execution in execution-engine.ts and        *)
(* domain-update-task-executor.ts, completeConsolidation and fail in       *)
(* mission-queue.ts.  How a root comes to wait and gets its consolidations *)
(* is in MissionTree; here a waiting root may get one at any time.         *)
(***************************************************************************)
EXTENDS Naturals

CONSTANTS
  Tasks,           \* the tasks of the workspace, those still to be created included
  Age,             \* Age[t]: 1 for the task that was created last
  Titles, Title,   \* Title[t]: the title of t, in lower case
  Roots,           \* the coordinated missions
  Consolidations,  \* their CONSOLIDATE rows
  RootOf,          \* RootOf[c]: the root of c
  Outcomes,        \* Outcomes[c]: the task titles of the children that COMPLETED
  Workers,         \* the processes that run consolidations
  MaxAttempts,     \* attempts of a row
  NoTask, NoRow,   \* neither a task nor a row
  ClaimBound,      \* BOUND of the model: claims of a row
  Loads            \* BOUND of the model: the boards that it begins with, each with the
                   \* edits by people and the events (deaths, recoveries, failing
                   \* statements) that may come

Pending == {"TODO", "BLOCKED"}
Unfinished == Pending \cup {"IN_PROGRESS"}
OnBoard == Unfinished \cup {"DONE"}
TaskStatus == OnBoard \cup {"NONE", "GONE"}   \* not created yet, deleted

ASSUME BoardAssumption ==
  /\ Age \in [Tasks -> Nat]
  /\ \A t, u \in Tasks : Age[t] = Age[u] => t = u
  /\ Title \in [Tasks -> Titles]
  /\ \A l \in Loads : /\ l.board \in [Tasks -> OnBoard \cup {"NONE"}]
                      /\ l.edits \in Nat /\ l.events \in Nat
  /\ RootOf \in [Consolidations -> Roots]
  /\ \A c \in Consolidations : Outcomes[c] \subseteq Titles
  /\ NoTask \notin Tasks /\ NoRow \notin Consolidations
  /\ MaxAttempts \in Nat \ {0} /\ ClaimBound \in Nat

\* Operators named Faulty... are plausible bugs, one line away from the definition
\* that follows; no specification uses them.

VARIABLES
  task,      \* task[t]: the status of t
  root,      \* root[r]: the status of r; OPEN is any status before WAITING
  row,       \* row[c]: status and claims; the number of claims is the attempt, and
             \* names the lease
  run,       \* run[w]: where w is in its consolidation, and what it holds in memory
  touched,   \* history: tasks that people edited, or whose action failed
  advanced,  \* history: advanced[c] has <<t, n>> when the n-th claim of c advanced t
  edits, events  \* edits and events still to come

boardVars == <<task, root, row, run, touched, advanced, edits, events>>

Idle == [pc |-> "idle", row |-> NoRow, claim |-> 0, plan |-> {}, task |-> NoTask, overtaken |-> FALSE]
NewRow == [status |-> "NONE", claims |-> 0]

BoardInit(l) ==
  /\ task = l.board
  /\ root = [r \in Roots |-> "NONE"]
  /\ row = [c \in Consolidations |-> NewRow]
  /\ run = [w \in Workers |-> Idle]
  /\ touched = {}
  /\ advanced = [c \in Consolidations |-> {}]
  /\ edits = l.edits /\ events = l.events

Event == events > 0 /\ events' = events - 1

-----------------------------------------------------------------------------
(* The missions *)

RootBecomes(r, before, after) ==
  /\ root[r] \in before
  /\ root' = [root EXCEPT ![r] = after]
  /\ UNCHANGED <<task, row, run, touched, advanced, edits, events>>

\* Any producer of the queue.
Enqueue(r) == RootBecomes(r, {"NONE"}, "OPEN")

\* The coordinator delegates, answers by itself (its plan advances no task) or fails
\* for good; recoverFailedRetryable and cancelOrphanWaiting.
Delegate(r) == RootBecomes(r, {"OPEN"}, "WAITING")
DirectAnswer(r) == RootBecomes(r, {"OPEN"}, "COMPLETED")
RootFails(r) == RootBecomes(r, {"OPEN"}, "FAILED")
RootRevives(r) == RootBecomes(r, {"FAILED"}, "OPEN")
Cancel(r) == RootBecomes(r, {"WAITING"}, "CANCELLED")

\* maybeEnqueueConsolidation.
Gather(c) ==
  /\ root[RootOf[c]] = "WAITING"
  /\ row[c].status = "NONE"
  /\ row' = [row EXCEPT ![c].status = "QUEUED"]
  /\ UNCHANGED <<task, root, run, touched, advanced, edits, events>>

\* A recovery requeues a RUNNING row, whether its worker is alive or not.
Recover(c) ==
  /\ Event
  /\ row[c].status = "RUNNING"
  /\ row' = [row EXCEPT ![c].status = "QUEUED"]
  /\ UNCHANGED <<task, root, run, touched, advanced, edits>>

Claim(w, c) ==
  /\ run[w].pc = "idle"
  /\ row[c].status = "QUEUED"
  /\ row[c].claims < ClaimBound
  /\ row' = [row EXCEPT ![c] = [status |-> "RUNNING", claims |-> row[c].claims + 1]]
  /\ run' = [run EXCEPT ![w] = [Idle EXCEPT !.pc = "snapshot", !.row = c, !.claim = row[c].claims + 1]]
  /\ UNCHANGED <<task, root, touched, advanced, edits, events>>

\* The fence of complete and fail.
Owned(w) ==
  LET c == run[w].row IN row[c].status = "RUNNING" /\ row[c].claims = run[w].claim

-----------------------------------------------------------------------------
(* The plan *)

Newest(S) == {t \in S : \A u \in S : Age[t] <= Age[u]}
Named(x) == {t \in Tasks : Title[t] = x}
With(S) == {t \in Tasks : task[t] \in S}

FaultyTitle(x) ==
  IF Named(x) \cap With(OnBoard) # {}
  THEN Newest(Named(x) \cap With(OnBoard))
  ELSE Newest(With(Pending))
FaultyFallback(x) ==
  IF Named(x) \cap With(Unfinished) # {}
  THEN Newest(Named(x) \cap With(Unfinished))
  ELSE With(Pending)

\* The newest task of that title that is not DONE, otherwise the newest pending one.
Resolve(x) ==
  IF Named(x) \cap With(Unfinished) # {}
  THEN Newest(Named(x) \cap With(Unfinished))
  ELSE Newest(With(Pending))

\* A task is in the plan once, and only if it is pending.
PlanOf(c) == {t \in With(Pending) : \E x \in Outcomes[c] : t \in Resolve(x)}

Snapshot(w) ==
  /\ run[w].pc = "snapshot"
  /\ run' = [run EXCEPT ![w].pc = "act", ![w].plan = PlanOf(run[w].row)]
  /\ UNCHANGED <<task, root, row, touched, advanced, edits, events>>

-----------------------------------------------------------------------------
(* Its execution *)

FaultyLookup(w, t) ==
  /\ run[w].pc = "act"
  /\ t \in run[w].plan
  /\ run' = [run EXCEPT ![w].pc = "write", ![w].task = t, ![w].plan = @ \ {t}]
  /\ UNCHANGED <<task, root, row, touched, advanced, edits, events>>

\* findById, and what execute decides from it.  The plan is carried out in the order of
\* the outcomes, which no other step depends on.
Lookup(w, t) ==
  /\ run[w].pc = "act"
  /\ t \in run[w].plan
  /\ run' = [run EXCEPT ![w] =
       IF task[t] \in Pending
       THEN [run[w] EXCEPT !.pc = "write", !.task = t, !.plan = run[w].plan \ {t}]
       ELSE [run[w] EXCEPT !.plan = run[w].plan \ {t}]]
  /\ UNCHANGED <<task, root, row, touched, advanced, edits, events>>

FaultyActed(w) == [run EXCEPT ![w].pc = "act"]

Acted(w) == [run EXCEPT ![w].pc = "act", ![w].task = NoTask, ![w].overtaken = FALSE]

\* The update, by id alone; it throws when the task is gone.
Write(w) ==
  /\ run[w].pc = "write"
  /\ LET t == run[w].task  c == run[w].row IN
     IF task[t] = "GONE" THEN UNCHANGED <<task, advanced>>
     ELSE /\ task' = [task EXCEPT ![t] = "IN_PROGRESS"]
          /\ advanced' = [advanced EXCEPT ![c] = @ \cup {<<t, run[w].claim>>}]
  /\ run' = Acted(w)
  /\ UNCHANGED <<root, row, touched, edits, events>>

\* A failing statement fails its action; the engine goes on with the next one.
FailsToFind(w, t) ==
  /\ Event
  /\ run[w].pc = "act" /\ t \in run[w].plan
  /\ run' = [run EXCEPT ![w].plan = @ \ {t}]
  /\ touched' = touched \cup {t}
  /\ UNCHANGED <<task, root, row, advanced, edits>>

FailsToWrite(w) ==
  /\ Event
  /\ run[w].pc = "write"
  /\ touched' = touched \cup {run[w].task}
  /\ run' = Acted(w)
  /\ UNCHANGED <<task, root, row, advanced, edits>>

\* completeConsolidation: complete, which throws away the result of a robbed worker,
\* and the update of the root, which asks for nothing.
Close(w) ==
  /\ run[w].pc = "act" /\ run[w].plan = {}
  /\ IF Owned(w)
     THEN /\ row' = [row EXCEPT ![run[w].row].status = "COMPLETED"]
          /\ run' = [run EXCEPT ![w].pc = "root"]
     ELSE UNCHANGED row /\ run' = [run EXCEPT ![w] = Idle]
  /\ UNCHANGED <<task, root, touched, advanced, edits, events>>

CloseRoot(w) ==
  /\ run[w].pc = "root"
  /\ root' = [root EXCEPT ![RootOf[run[w].row]] = "COMPLETED"]
  /\ run' = [run EXCEPT ![w] = Idle]
  /\ UNCHANGED <<task, row, touched, advanced, edits, events>>

\* The execution throws (the language model, a read, the update of the row or of the
\* root) and the loop calls fail, behind the same fence.
Throw(w) ==
  /\ Event
  /\ run[w].pc \in {"snapshot", "root"} \/ (run[w].pc = "act" /\ run[w].plan = {})
  /\ run' = [run EXCEPT ![w] = Idle]
  /\ row' = IF Owned(w)
            THEN [row EXCEPT ![run[w].row].status = IF run[w].claim < MaxAttempts THEN "QUEUED" ELSE "FAILED"]
            ELSE row
  /\ UNCHANGED <<task, root, touched, advanced, edits>>

Die(w) ==
  /\ Event
  /\ run[w].pc # "idle"
  /\ run' = [run EXCEPT ![w] = Idle]
  /\ UNCHANGED <<task, root, row, touched, advanced, edits>>

-----------------------------------------------------------------------------
(* People *)

\* The routes of the tasks: create, update and remove.
EditsOf(t) ==
  CASE task[t] = "NONE" -> OnBoard
    [] task[t] = "GONE" -> {}
    [] OTHER -> (OnBoard \cup {"GONE"}) \ {task[t]}

Edit(t, s) ==
  /\ edits > 0 /\ edits' = edits - 1
  /\ s \in EditsOf(t)
  /\ task' = [task EXCEPT ![t] = s]
  /\ touched' = touched \cup {t}
  /\ run' = [w \in Workers |-> [run[w] EXCEPT !.overtaken = @ \/ (run[w].pc = "write" /\ run[w].task = t)]]
  /\ UNCHANGED <<root, row, advanced, events>>

-----------------------------------------------------------------------------
BoardStep(w) ==
  \/ \E c \in Consolidations : Claim(w, c)
  \/ Snapshot(w)
  \/ \E t \in Tasks : Lookup(w, t) \/ FailsToFind(w, t)
  \/ Write(w) \/ FailsToWrite(w)
  \/ Close(w) \/ CloseRoot(w) \/ Throw(w) \/ Die(w)

BoardNext ==
  \/ \E r \in Roots :
       \/ Enqueue(r) \/ Delegate(r) \/ DirectAnswer(r)
       \/ RootFails(r) \/ RootRevives(r) \/ Cancel(r)
  \/ \E c \in Consolidations : Gather(c) \/ Recover(c)
  \/ \E w \in Workers : BoardStep(w)
  \/ \E t \in Tasks, s \in TaskStatus : Edit(t, s)
=============================================================================
