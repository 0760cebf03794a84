----------------------------- MODULE Operations -----------------------------
(***************************************************************************)
(* Assisted missions: a request asks for a mission, polls its root until   *)
(* it is terminal or a deadline passes, and stores what it projects from   *)
(* the tree in the process's memory, where readers find it; TaskBoard      *)
(* answers the mission meanwhile.                                          *)
(*                                                                         *)
(* runViaQueue is in operational-mission-service.ts, the poll in           *)
(* mission-wait.ts, the store in operational-run-store.ts.  The gate is in *)
(* WorkGovernance; here it lets a request join a mission that COMPLETED.   *)
(***************************************************************************)
EXTENDS TaskBoard

CONSTANTS
  Requests,  \* the requests an API process handles at once; l.callers of a load are those
             \* that come
  NoRoot     \* not a root

ASSUME RequestAssumption ==
  /\ NoRoot \notin Roots
  /\ \A l \in Loads : l.callers \subseteq Requests

VARIABLES
  callers,   \* the requests that may come
  ask,       \* ask[h]: where request h is, and what it holds in memory
  store,     \* store[r]: the status of the run that is stored for r
  restarted  \* the API process was restarted; BOUND of the model: once

askVars == <<callers, ask, store, restarted>>
vars == <<boardVars, askVars>>

RootStatus == {"NONE", "OPEN", "WAITING", "COMPLETED", "FAILED", "CANCELLED"}
Terminal == {"COMPLETED", "FAILED", "CANCELLED"}

NoAsk == [pc |-> "idle", root |-> NoRoot, seen |-> "NONE", late |-> FALSE, timedOut |-> FALSE]

Init ==
  /\ \E l \in Loads : BoardInit(l) /\ callers = l.callers
  /\ ask = [h \in Requests |-> NoAsk]
  /\ store = [r \in Roots |-> "none"]
  /\ restarted = FALSE

\* The gate refers the request to an answered mission, or a new one is enqueued.
Ask(h, r) ==
  /\ h \in callers
  /\ ask[h].pc = "idle"
  /\ root[r] \in {"NONE", "COMPLETED"}
  /\ root' = [root EXCEPT ![r] = IF @ = "NONE" THEN "OPEN" ELSE @]
  /\ ask' = [ask EXCEPT ![h] = [NoAsk EXCEPT !.pc = "wait", !.root = r]]
  /\ UNCHANGED <<task, row, run, touched, advanced, edits, events, store, callers, restarted>>

\* The deadline passes.
Lapse(h) ==
  /\ ask[h].pc = "wait" /\ ~ask[h].late
  /\ ask' = [ask EXCEPT ![h].late = TRUE]
  /\ UNCHANGED <<boardVars, store, callers, restarted>>

FaultyPoll(h) ==
  /\ ask[h].pc = "wait"
  /\ root[ask[h].root] \in Terminal \/ ask[h].late
  /\ ask' = [ask EXCEPT ![h].pc = "read", ![h].timedOut = ask[h].late]
  /\ UNCHANGED <<boardVars, store, callers, restarted>>

\* A look at the root that ends the wait: a terminal status counts, however late it is.
Poll(h) ==
  /\ ask[h].pc = "wait"
  /\ root[ask[h].root] \in Terminal \/ ask[h].late
  /\ ask' = [ask EXCEPT ![h].pc = "read", ![h].timedOut = root[ask[h].root] \notin Terminal]
  /\ UNCHANGED <<boardVars, store, callers, restarted>>

\* The root is read again, whatever it has become since.
ReadRoot(h) ==
  /\ ask[h].pc = "read"
  /\ ask' = [ask EXCEPT ![h].pc = "deliver", ![h].seen = root[ask[h].root]]
  /\ UNCHANGED <<boardVars, store, callers, restarted>>

FaultyProjection(a, old) ==
  CASE a.timedOut -> "timed_out"
    [] ~a.timedOut /\ a.seen \in Terminal -> "completed"
    [] OTHER -> "in_progress"

\* What is stored; for FAILED and CANCELLED an error is thrown instead.
Projection(a, old) ==
  CASE a.timedOut -> "timed_out"
    [] ~a.timedOut /\ a.seen \in {"FAILED", "CANCELLED"} -> old
    [] ~a.timedOut /\ a.seen = "COMPLETED" -> "completed"
    [] OTHER -> "in_progress"

\* The children are read and the run is saved, over the one that is there.
Deliver(h) ==
  /\ ask[h].pc = "deliver"
  /\ store' = [store EXCEPT ![ask[h].root] = Projection(ask[h], @)]
  /\ ask' = [ask EXCEPT ![h] = NoAsk]
  /\ UNCHANGED <<boardVars, callers, restarted>>

Restart ==
  /\ ~restarted /\ restarted' = TRUE
  /\ ask' = [h \in Requests |-> NoAsk]
  /\ store' = [r \in Roots |-> "none"]
  /\ UNCHANGED <<boardVars, callers>>

Proceed(h) == Poll(h) \/ ReadRoot(h) \/ Deliver(h)

Next ==
  \/ BoardNext /\ UNCHANGED askVars
  \/ \E h \in Requests : Lapse(h) \/ Proceed(h) \/ \E r \in Roots : Ask(h, r)
  \/ Restart

Spec == Init /\ [][Next]_vars

\* The statements of a request return and its poll goes on; workers, recoveries, people
\* and deadlines need not do anything.
FairSpec == Spec /\ \A h \in Requests : WF_vars(Proceed(h))

-----------------------------------------------------------------------------
(* Properties *)

Run == [pc : {"idle", "snapshot", "act", "write", "root"}, row : Consolidations \cup {NoRow},
        claim : Nat, plan : SUBSET Tasks, task : Tasks \cup {NoTask}, overtaken : BOOLEAN]
Request == [pc : {"idle", "wait", "read", "deliver"}, root : Roots \cup {NoRoot},
            seen : RootStatus, late : BOOLEAN, timedOut : BOOLEAN]

RunOK(c) ==
  /\ c \in Run
  /\ c.pc # "idle" => c.row \in Consolidations /\ c.claim \in 1..row[c.row].claims
  /\ c.pc # "act" => c.pc = "write" \/ c.plan = {}
  /\ c.pc = "write" <=> c.task # NoTask

\* What a worker holds is of a claim that its row knows.
BoardTypeOK ==
  /\ task \in [Tasks -> TaskStatus]
  /\ root \in [Roots -> RootStatus]
  /\ row \in [Consolidations -> [status : {"NONE", "QUEUED", "RUNNING", "COMPLETED", "FAILED"},
                                 claims : Nat]]
  /\ run \in [Workers -> Run]
  /\ \A w \in Workers : RunOK(run[w])
  /\ touched \subseteq Tasks
  /\ advanced \in [Consolidations -> SUBSET (Tasks \X Nat)]
  /\ \A c \in Consolidations : \A p \in advanced[c] : p[2] \in 1..row[c].claims
  /\ edits \in Nat /\ events \in Nat

AskTypeOK ==
  /\ callers \subseteq Requests
  /\ ask \in [Requests -> Request]
  /\ \A h \in Requests : ask[h].pc # "idle" => ask[h].root \in Roots
  /\ store \in [Roots -> {"none", "completed", "in_progress", "timed_out"}]
  /\ restarted \in BOOLEAN

\* Types, and the references from the memory of workers and requests to the tables.
TypeOK == BoardTypeOK /\ AskTypeOK

\* A run that is stored as completed belongs to a mission that COMPLETED and, if its
\* answer was delegated, has a COMPLETED consolidation.
CompletedRunIsAnswered ==
  \A r \in Roots :
    store[r] = "completed" =>
      /\ root[r] = "COMPLETED"
      /\ (\E c \in Consolidations : RootOf[c] = r /\ row[c].status # "NONE") =>
           \E c \in Consolidations : RootOf[c] = r /\ row[c].status = "COMPLETED"

\* Delegated work whose title is on the board is on it when the consolidation is
\* COMPLETED: a task of that title is IN_PROGRESS, or all are DONE, unless people
\* edited one or its action failed.  Robbed workers, retries and deaths do not matter.
AnsweredIsOnBoard ==
  \A c \in Consolidations : row[c].status = "COMPLETED" =>
    \A x \in Outcomes[c] :
      Named(x) \cap touched = {} =>
        \/ \E t \in Named(x) : task[t] = "IN_PROGRESS"
        \/ \A t \in Named(x) : task[t] \in {"DONE", "NONE"}

\* However many outcomes name no task, one claim advances at most one task that no
\* outcome names; each retry may advance another.
FallbackOncePerClaim ==
  \A c \in Consolidations : \A p, q \in advanced[c] :
    /\ p[2] = q[2]
    /\ Title[p[1]] \notin Outcomes[c] /\ Title[q[1]] \notin Outcomes[c]
    => p[1] = q[1]

\* The worker takes DONE from a task only when people edited the task between its
\* findById and its update.
Overtaken(t) == \E w \in Workers : run[w].pc = "write" /\ run[w].task = t /\ run[w].overtaken
DoneIsKept ==
  [][\A t \in Tasks :
       task[t] = "DONE" /\ task'[t] # "DONE" /\ edits' = edits => Overtaken(t)]_vars

\* A request that still waits when its mission COMPLETED stores the completed run, also
\* if the deadline has passed, unless the process is restarted.
AnswerIsDelivered ==
  \A h \in Requests, r \in Roots :
    (ask[h].pc = "wait" /\ ask[h].root = r /\ root[r] = "COMPLETED")
      ~> (store[r] = "completed" \/ restarted)
=============================================================================
