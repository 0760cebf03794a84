------------------------- MODULE Operations_proofs -------------------------
(***************************************************************************)
(* Proofs about Operations.  Each part of the inductive invariant Inv has  *)
(* its own lemma: the types, what a worker knows of the tasks it planned,  *)
(* what its claim can still advance, and what stands behind an answer.     *)
(***************************************************************************)
EXTENDS Operations, WellFoundedInduction, TLAPS

USE DEF Run, RunOK, Request, RootStatus, TaskStatus, OnBoard, Unfinished, Pending, Terminal

LEMMA TypeInit == Init => TypeOK
<1> SUFFICES ASSUME Init PROVE TypeOK
  OBVIOUS
<1>1. PICK l \in Loads : BoardInit(l) /\ callers = l.callers
  BY DEF Init
<1>2. l.board \in [Tasks -> OnBoard \cup {"NONE"}] /\ l.edits \in Nat /\ l.events \in Nat
  BY BoardAssumption
<1>3. task \in [Tasks -> TaskStatus]
  BY <1>1, <1>2 DEF BoardInit
<1>4. \A w \in Workers : run[w] = Idle
  BY <1>1 DEF BoardInit
<1>5. BoardTypeOK
  BY <1>1, <1>2, <1>3, <1>4 DEF BoardTypeOK, BoardInit, Idle, NewRow
<1>6. AskTypeOK
  BY <1>1, RequestAssumption DEF AskTypeOK, Init, NoAsk
<1> QED BY <1>5, <1>6 DEF TypeOK

\* The steps that only move a root.
LEMMA TypeRoot ==
  ASSUME BoardTypeOK, NEW r \in Roots, NEW S, NEW a \in RootStatus, RootBecomes(r, S, a)
  PROVE  BoardTypeOK'
BY DEF BoardTypeOK, RootBecomes

Row == [status : {"NONE", "QUEUED", "RUNNING", "COMPLETED", "FAILED"}, claims : Nat]

\* A step that writes one worker's memory, and perhaps rows, but takes back no claim.
LEMMA TypeOneRun ==
  ASSUME BoardTypeOK, NEW w \in Workers, NEW c \in Run, RunOK(c)', run' = [run EXCEPT ![w] = c],
         row' \in [Consolidations -> Row],
         \A d \in Consolidations : row'[d].claims >= row[d].claims,
         UNCHANGED <<task, root, touched, advanced, edits>>, events' \in Nat
  PROVE  BoardTypeOK'
<1>1. run' \in [Workers -> Run]
  BY DEF BoardTypeOK
<1>2. ASSUME NEW v \in Workers PROVE RunOK(run[v])'
  <2>1. CASE v = w
    BY <2>1 DEF BoardTypeOK
  <2>2. CASE v # w
    BY <2>2 DEF BoardTypeOK, Row
  <2> QED BY <2>1, <2>2
<1>3. \A e \in Consolidations : \A p \in advanced'[e] : p[2] \in 1..row'[e].claims
  BY DEF BoardTypeOK, Row
<1> QED BY <1>1, <1>2, <1>3 DEF BoardTypeOK, Row

LEMMA TypeWorker ==
  ASSUME BoardTypeOK, NEW w \in Workers, BoardStep(w)
  PROVE  BoardTypeOK'
<1> DEFINE c == run[w]
<1>0. c \in Run /\ RunOK(c) /\ row \in [Consolidations -> Row] /\ events \in Nat
  BY DEF BoardTypeOK, Row
<1>u. row' = row => /\ row' \in [Consolidations -> Row]
                    /\ \A d \in Consolidations : row'[d].claims >= row[d].claims
  BY <1>0 DEF Row
<1>1. ASSUME NEW d \in Consolidations, Claim(w, d) PROVE BoardTypeOK'
  <2>0. PICK n : n = [Idle EXCEPT !.pc = "snapshot", !.row = d, !.claim = row[d].claims + 1]
    OBVIOUS
  <2>1. run' = [run EXCEPT ![w] = n] /\ row' = [row EXCEPT ![d] = [status |-> "RUNNING", claims |-> row[d].claims + 1]]
    BY <1>1, <2>0 DEF Claim
  <2>2. row[d].claims \in Nat
    BY <1>0 DEF Row
  <2>3. row' \in [Consolidations -> Row] /\ row'[d].claims = row[d].claims + 1
    BY <1>0, <2>1, <2>2 DEF Row
  <2>x. n = [pc |-> "snapshot", row |-> d, claim |-> row[d].claims + 1, plan |-> {},
             task |-> NoTask, overtaken |-> FALSE]
    BY <2>0 DEF Idle
  <2>4. n \in Run /\ RunOK(n)'
    BY <2>x, <2>2, <2>3
  <2>5. \A e \in Consolidations : row'[e].claims >= row[e].claims
    BY <1>0, <2>1, <2>2 DEF Row
  <2> QED BY <1>0, <1>1, <2>1, <2>3, <2>4, <2>5, TypeOneRun DEF Claim
<1>2. CASE Snapshot(w)
  <2>0. PICK n : n = [c EXCEPT !.pc = "act", !.plan = PlanOf(c.row)]
    OBVIOUS
  <2>1. PlanOf(c.row) \subseteq Tasks
    BY DEF PlanOf, With
  <2>2. run' = [run EXCEPT ![w] = n]
    BY <1>0, <1>2, <2>0 DEF Snapshot, BoardTypeOK
  <2>3. n \in Run /\ RunOK(n)'
    BY <1>0, <1>2, <2>0, <2>1 DEF Snapshot
  <2>4. row' = row /\ UNCHANGED <<task, root, touched, advanced, edits>> /\ events' \in Nat
    BY <1>0, <1>2 DEF Snapshot
  <2> QED BY <1>u, <2>2, <2>3, <2>4, TypeOneRun
<1>3. ASSUME NEW t \in Tasks, Lookup(w, t) PROVE BoardTypeOK'
  <2>0. PICK n : n = IF task[t] \in Pending
                      THEN [c EXCEPT !.pc = "write", !.task = t, !.plan = c.plan \ {t}]
                      ELSE [c EXCEPT !.plan = c.plan \ {t}]
    OBVIOUS
  <2>2. run' = [run EXCEPT ![w] = n]
    BY <1>3, <2>0 DEF Lookup
  <2>3. n \in Run /\ RunOK(n)'
    BY <1>0, <1>3, <2>0, BoardAssumption DEF Lookup
  <2>4. row' = row /\ UNCHANGED <<task, root, touched, advanced, edits>> /\ events' \in Nat
    BY <1>0, <1>3 DEF Lookup
  <2> QED BY <1>u, <2>2, <2>3, <2>4, TypeOneRun
<1>4. ASSUME NEW t \in Tasks, FailsToFind(w, t) PROVE BoardTypeOK'
  BY <1>4 DEF BoardTypeOK, FailsToFind, Event
<1>5. CASE Write(w)
  BY <1>5, BoardAssumption DEF BoardTypeOK, Write, Acted
<1>6. CASE FailsToWrite(w)
  BY <1>6, BoardAssumption DEF BoardTypeOK, FailsToWrite, Event, Acted
<1>7. CASE Close(w)
  <2>0. c.row \in Consolidations /\ Idle \in Run /\ RunOK(Idle)'
    BY <1>0, <1>7 DEF Close, Idle
  <2>1. CASE Owned(w)
    <3>0. PICK n : n = [c EXCEPT !.pc = "root"]
      OBVIOUS
    <3>1. row' = [row EXCEPT ![c.row].status = "COMPLETED"] /\ run' = [run EXCEPT ![w] = n]
      BY <1>7, <2>1, <3>0 DEF Close
    <3>2. row' \in [Consolidations -> Row] /\ \A e \in Consolidations : row'[e].claims >= row[e].claims
      BY <1>0, <2>0, <3>1 DEF Row
    <3>3. n \in Run /\ RunOK(n)'
      BY <1>0, <1>7, <3>0, <3>1 DEF Close, Row
    <3> QED BY <1>0, <1>7, <3>1, <3>2, <3>3, TypeOneRun DEF Close
  <2>2. CASE ~Owned(w)
    BY <1>0, <1>7, <2>0, <2>2, TypeOneRun DEF Close, Row
  <2> QED BY <2>1, <2>2
<1>8. CASE CloseRoot(w)
  BY <1>8 DEF BoardTypeOK, CloseRoot, Idle
<1>9. CASE Throw(w)
  BY <1>9 DEF BoardTypeOK, Throw, Event, Idle
<1>10. CASE Die(w)
  BY <1>10 DEF BoardTypeOK, Die, Event, Idle
<1> QED BY <1>1, <1>2, <1>3, <1>4, <1>5, <1>6, <1>7, <1>8, <1>9, <1>10 DEF BoardStep

LEMMA TypeBoard == ASSUME BoardTypeOK, BoardNext PROVE BoardTypeOK'
<1>1. ASSUME NEW r \in Roots,
             Enqueue(r) \/ Delegate(r) \/ DirectAnswer(r) \/ RootFails(r) \/ RootRevives(r) \/ Cancel(r)
      PROVE BoardTypeOK'
  BY <1>1, TypeRoot DEF Enqueue, Delegate, DirectAnswer, RootFails, RootRevives, Cancel
<1>2. ASSUME NEW c \in Consolidations, Gather(c) PROVE BoardTypeOK'
  BY <1>2 DEF BoardTypeOK, Gather
<1>3. ASSUME NEW c \in Consolidations, Recover(c) PROVE BoardTypeOK'
  BY <1>3 DEF BoardTypeOK, Recover, Event
<1>4. ASSUME NEW t \in Tasks, NEW s \in TaskStatus, Edit(t, s) PROVE BoardTypeOK'
  <2>1. EditsOf(t) \subseteq TaskStatus
    BY DEF EditsOf
  <2>2. task' \in [Tasks -> TaskStatus] /\ touched' \subseteq Tasks /\ edits' \in Nat
    BY <1>4, <2>1 DEF BoardTypeOK, Edit
  <2>3. \A w \in Workers : /\ run[w] \in Run /\ RunOK(run[w])
                           /\ run'[w] = [run[w] EXCEPT !.overtaken = run'[w].overtaken]
                           /\ run'[w].overtaken \in BOOLEAN
    BY <1>4 DEF BoardTypeOK, Edit
  <2>4. \A w \in Workers : run'[w] \in Run /\ RunOK(run[w])'
    BY <1>4, <2>3 DEF Edit
  <2>5. run' \in [Workers -> Run]
    BY <1>4, <2>4 DEF Edit
  <2> QED BY <1>4, <2>2, <2>4, <2>5 DEF BoardTypeOK, Edit
<1> QED BY <1>1, <1>2, <1>3, <1>4, TypeWorker DEF BoardNext

LEMMA TypeAsk ==
  ASSUME TypeOK, NEW h \in Requests, Lapse(h) \/ Proceed(h) \/ \E r \in Roots : Ask(h, r)
  PROVE  TypeOK'
<1>1. ASSUME NEW r \in Roots, Ask(h, r) PROVE TypeOK'
  <2>1. BoardTypeOK'
    BY <1>1 DEF TypeOK, BoardTypeOK, Ask
  <2>2. AskTypeOK'
    BY <1>1, RequestAssumption DEF TypeOK, AskTypeOK, Ask, NoAsk
  <2> QED BY <2>1, <2>2 DEF TypeOK
<1>2. ASSUME Lapse(h) \/ Proceed(h) PROVE TypeOK'
  <2>1. BoardTypeOK'
    BY <1>2 DEF TypeOK, BoardTypeOK, Lapse, Proceed, Poll, ReadRoot, Deliver, boardVars
  <2>2. CASE Lapse(h) \/ Poll(h) \/ ReadRoot(h)
    <3>1. \A q \in Requests : ask[q].pc # "idle" => root[ask[q].root] \in RootStatus
      BY DEF TypeOK, AskTypeOK, BoardTypeOK
    <3>2. CASE Lapse(h)
      BY <2>1, <3>2 DEF TypeOK, AskTypeOK, Lapse
    <3>3. CASE Poll(h)
      <4>1. PICK b \in BOOLEAN : b = (root[ask[h].root] \notin Terminal)
        OBVIOUS
      <4>2. ask' = [ask EXCEPT ![h].pc = "read", ![h].timedOut = b]
        BY <3>3, <4>1 DEF Poll
      <4>3. ask[h].pc = "wait" /\ UNCHANGED <<store, callers, restarted>>
        BY <3>3 DEF Poll
      <4> QED BY <2>1, <4>2, <4>3 DEF TypeOK, AskTypeOK
    <3>4. CASE ReadRoot(h)
      <4>1. PICK s \in RootStatus : s = root[ask[h].root]
        BY <3>1, <3>4 DEF TypeOK, AskTypeOK, ReadRoot
      <4>2. ask' = [ask EXCEPT ![h].pc = "deliver", ![h].seen = s]
        BY <3>4, <4>1 DEF ReadRoot
      <4>3. ask[h].pc = "read" /\ UNCHANGED <<store, callers, restarted>>
        BY <3>4 DEF ReadRoot
      <4>4. ask[h] \in Request /\ s \in RootStatus
        BY <4>1 DEF TypeOK, AskTypeOK
      <4>5. [pc |-> "deliver", root |-> ask[h].root, seen |-> s, late |-> ask[h].late,
             timedOut |-> ask[h].timedOut] \in Request
        BY <4>4
      <4>6. ask' \in [Requests -> Request]
        BY <4>2, <4>4, <4>5 DEF TypeOK, AskTypeOK
      <4>7. \A q \in Requests : ask'[q].pc # "idle" => ask'[q].root \in Roots
        BY <4>2, <4>3 DEF TypeOK, AskTypeOK
      <4> QED BY <2>1, <4>3, <4>6, <4>7 DEF TypeOK, AskTypeOK
    <3> QED BY <2>2, <3>2, <3>3, <3>4
  <2>3. CASE Deliver(h)
    <3>1. ask[h].root \in Roots
      BY <2>3 DEF TypeOK, AskTypeOK, Deliver
    <3>2. Projection(ask[h], store[ask[h].root]) \in {"none", "completed", "in_progress", "timed_out"}
      BY <3>1 DEF TypeOK, AskTypeOK, Projection
    <3> QED BY <2>1, <2>3, <3>1, <3>2, RequestAssumption DEF TypeOK, AskTypeOK, Deliver, NoAsk
  <2> QED BY <1>2, <2>2, <2>3 DEF Proceed
<1> QED BY <1>1, <1>2

LEMMA TypeStep == TypeOK /\ [Next]_vars => TypeOK'
<1> SUFFICES ASSUME TypeOK, [Next]_vars PROVE TypeOK'
  OBVIOUS
<1>1. CASE BoardNext /\ UNCHANGED askVars
  BY <1>1, TypeBoard DEF TypeOK, AskTypeOK, askVars
<1>2. CASE Restart
  BY <1>2, RequestAssumption DEF TypeOK, BoardTypeOK, AskTypeOK, Restart, NoAsk, boardVars
<1>3. CASE UNCHANGED vars
  BY <1>3 DEF TypeOK, BoardTypeOK, AskTypeOK, vars, boardVars, askVars
<1> QED BY <1>1, <1>2, <1>3, TypeAsk DEF Next

\* Every value that the state variables take has its type, and what workers and
\* requests hold refers to rows, claims and roots that are there.
THEOREM Types == Spec => []TypeOK
<1> QED BY TypeInit, TypeStep, PTL DEF Spec

-----------------------------------------------------------------------------
(* The steps, by what they leave alone *)

Quiet == UNCHANGED <<task, run, touched, advanced>>

LEMMA StepCases ==
  ASSUME [Next]_vars
  PROVE  \/ Quiet
         \/ \E w \in Workers : BoardStep(w)
         \/ \E t \in Tasks, s \in TaskStatus : Edit(t, s)
<1>1. CASE BoardNext
  BY <1>1 DEF BoardNext, Enqueue, Delegate, DirectAnswer, RootFails, RootRevives, Cancel, RootBecomes,
              Gather, Recover, Quiet
<1>2. CASE Restart \/ UNCHANGED vars
  BY <1>2 DEF Restart, vars, boardVars, Quiet
<1>3. ASSUME NEW h \in Requests, Lapse(h) \/ Proceed(h) \/ \E r \in Roots : Ask(h, r) PROVE Quiet
  BY <1>3 DEF Lapse, Proceed, Poll, ReadRoot, Deliver, Ask, boardVars, Quiet
<1> QED BY <1>1, <1>2, <1>3 DEF Next

-----------------------------------------------------------------------------
(* What a worker knows of the tasks in its plan *)

Planned(w) == (run[w].plan \cup {run[w].task}) \cap Tasks

KnowsTasks ==
  /\ \A t \in Tasks : t \notin touched => task[t] # "GONE"
  /\ \A w \in Workers : \A t \in Planned(w) : t \notin touched => task[t] \in Unfinished
  /\ \A w \in Workers :
       run[w].pc = "write" /\ ~run[w].overtaken => task[run[w].task] \in Unfinished

\* A task that nobody touched only moves from unfinished to IN_PROGRESS.
TaskMoves ==
  /\ touched \subseteq touched'
  /\ \A t \in Tasks : t \notin touched' =>
       \/ task'[t] = task[t]
       \/ task[t] \in Unfinished /\ task'[t] = "IN_PROGRESS"

LEMMA BoardMoves == ASSUME TypeOK, KnowsTasks, [Next]_vars PROVE TaskMoves
<1> USE DEF TypeOK, BoardTypeOK
<1>1. CASE Quiet
  BY <1>1 DEF Quiet, TaskMoves
<1>2. ASSUME NEW t \in Tasks, NEW s \in TaskStatus, Edit(t, s) PROVE TaskMoves
  BY <1>2 DEF Edit, TaskMoves
<1>3. ASSUME NEW w \in Workers, Write(w) PROVE TaskMoves
  <2>1. run[w].task \in Planned(w)
    BY <1>3 DEF Write, Planned
  <2> QED BY <1>3, <2>1 DEF Write, TaskMoves, KnowsTasks
<1>4. ASSUME NEW w \in Workers, BoardStep(w), ~Write(w) PROVE TaskMoves
  BY <1>4 DEF BoardStep, Claim, Snapshot, Lookup, FailsToFind, FailsToWrite, Close, CloseRoot,
              Throw, Die, TaskMoves
<1> QED BY <1>1, <1>2, <1>3, <1>4, StepCases

\* A worker's plan only shrinks after it was made.
LEMMA PlanOnlyMade ==
  ASSUME TypeOK, [Next]_vars, NEW w \in Workers, ~Snapshot(w)
  PROVE  Planned(w)' \subseteq Planned(w)
<1> USE DEF TypeOK, BoardTypeOK, Planned
<1>1. CASE Quiet
  BY <1>1 DEF Quiet
<1>2. ASSUME NEW t \in Tasks, NEW s \in TaskStatus, Edit(t, s) PROVE Planned(w)' \subseteq Planned(w)
  BY <1>2 DEF Edit
<1>3. ASSUME NEW v \in Workers, BoardStep(v), v # w PROVE Planned(w)' \subseteq Planned(w)
  BY <1>3 DEF BoardStep, Claim, Snapshot, Lookup, FailsToFind, Write, FailsToWrite, Acted, Close,
              CloseRoot, Throw, Die
<1>5. ASSUME NEW t \in Tasks, Lookup(w, t) \/ FailsToFind(w, t) PROVE Planned(w)' \subseteq Planned(w)
  BY <1>5 DEF Lookup, FailsToFind
<1>6. ASSUME \/ \E c \in Consolidations : Claim(w, c)
             \/ Write(w) \/ FailsToWrite(w) \/ Close(w) \/ CloseRoot(w) \/ Throw(w) \/ Die(w)
      PROVE Planned(w)' \subseteq Planned(w)
  BY <1>6, BoardAssumption DEF Claim, Write, FailsToWrite, Acted, Close, CloseRoot, Throw, Die, Idle
<1> QED BY <1>1, <1>2, <1>3, <1>5, <1>6, StepCases DEF BoardStep

\* It is made of pending tasks.
LEMMA PlanMoves ==
  ASSUME TypeOK, [Next]_vars, NEW w \in Workers
  PROVE  \/ Planned(w)' \subseteq Planned(w)
         \/ UNCHANGED task /\ \A t \in Planned(w)' : task[t] \in Pending
<1>1. CASE Snapshot(w)
  <2>1. run'[w].plan \subseteq With(Pending) /\ run'[w].task = NoTask
    BY <1>1 DEF Snapshot, PlanOf, TypeOK, BoardTypeOK
  <2> QED BY <1>1, <2>1, BoardAssumption DEF Snapshot, With, Planned
<1>2. CASE ~Snapshot(w)
  BY <1>2, PlanOnlyMade
<1> QED BY <1>1, <1>2

LEMMA KnowsTasksStep == ASSUME TypeOK, KnowsTasks, [Next]_vars PROVE KnowsTasks'
<1> USE DEF TypeOK, BoardTypeOK
<1>1. TaskMoves
  BY BoardMoves
<1>2. \A t \in Tasks : t \notin touched' => task'[t] # "GONE"
  BY <1>1 DEF TaskMoves, KnowsTasks
<1>3. ASSUME NEW w \in Workers, NEW t \in Planned(w)', t \notin touched' PROVE task'[t] \in Unfinished
  BY <1>1, <1>3, PlanMoves DEF TaskMoves, KnowsTasks, Planned
<1>4. ASSUME NEW w \in Workers, run'[w].pc = "write", ~run'[w].overtaken
      PROVE  task'[run'[w].task] \in Unfinished
  <2>1. CASE Quiet
    BY <1>4, <2>1 DEF Quiet, KnowsTasks
  <2>2. ASSUME NEW t \in Tasks, NEW s \in TaskStatus, Edit(t, s) PROVE task'[run'[w].task] \in Unfinished
    BY <1>4, <2>2 DEF Edit, KnowsTasks
  <2>3. ASSUME NEW v \in Workers, Write(v) PROVE task'[run'[w].task] \in Unfinished
    BY <1>4, <2>3 DEF Write, Acted, KnowsTasks
  <2>4. ASSUME NEW t \in Tasks, Lookup(w, t) PROVE task'[run'[w].task] \in Unfinished
    BY <1>4, <2>4 DEF Lookup
  <2>5. ASSUME NEW v \in Workers, BoardStep(v), ~Write(v), \A t \in Tasks : ~Lookup(w, t)
        PROVE  task'[run'[w].task] \in Unfinished
    <3>1. task' = task
      BY <2>5 DEF BoardStep, Claim, Snapshot, Lookup, FailsToFind, FailsToWrite, Close, CloseRoot,
                  Throw, Die
    <3>2. CASE v # w
      <4>1. run'[w] = run[w]
        BY <2>5, <3>2 DEF BoardStep, Claim, Snapshot, Lookup, FailsToFind, FailsToWrite, Acted, Close,
                          CloseRoot, Throw, Die
      <4> QED BY <1>4, <3>1, <4>1 DEF KnowsTasks
    <3>3. CASE v = w
      <4>1. run'[w].pc # "write"
        <5>1. CASE \/ \E c \in Consolidations : Claim(w, c)
                   \/ Snapshot(w) \/ FailsToWrite(w) \/ Close(w) \/ CloseRoot(w) \/ Throw(w) \/ Die(w)
          <6>1. CASE \E c \in Consolidations : Claim(w, c)
            BY <6>1 DEF Claim, Idle
          <6>2. CASE Snapshot(w) \/ FailsToWrite(w)
            BY <6>2 DEF Snapshot, FailsToWrite, Acted
          <6>3. CASE Close(w)
            BY <6>3 DEF Close, Idle
          <6>4. CASE CloseRoot(w) \/ Throw(w) \/ Die(w)
            BY <6>4 DEF CloseRoot, Throw, Die, Idle
          <6> QED BY <5>1, <6>1, <6>2, <6>3, <6>4
        <5>2. ASSUME NEW t \in Tasks, FailsToFind(w, t) PROVE run'[w].pc # "write"
          BY <5>2 DEF FailsToFind
        <5> QED BY <2>5, <3>3, <5>1, <5>2 DEF BoardStep
      <4> QED BY <1>4, <4>1
    <3> QED BY <3>2, <3>3
  <2> QED BY <2>1, <2>2, <2>3, <2>4, <2>5, StepCases
<1> QED BY <1>2, <1>3, <1>4 DEF KnowsTasks

LEMMA KnowsTasksInit == Init => KnowsTasks
<1> SUFFICES ASSUME Init PROVE KnowsTasks
  OBVIOUS
<1>1. PICK l \in Loads : BoardInit(l)
  BY DEF Init
<1>2. l.board \in [Tasks -> OnBoard \cup {"NONE"}]
  BY BoardAssumption
<1> QED BY <1>1, <1>2, BoardAssumption DEF BoardInit, KnowsTasks, Planned, Idle

LEMMA Knowing == Spec => [](TypeOK /\ KnowsTasks)
<1> QED BY TypeInit, TypeStep, KnowsTasksInit, KnowsTasksStep, PTL DEF Spec

\* A consolidation takes DONE from a task only when somebody edited the task between
\* the worker's findById and its update.
THEOREM DoneKept == Spec => DoneIsKept
<1> DEFINE A == \A t \in Tasks : task[t] = "DONE" /\ task'[t] # "DONE" /\ edits' = edits => Overtaken(t)
<1>1. TypeOK /\ KnowsTasks /\ [Next]_vars => A
  <2> SUFFICES ASSUME TypeOK, KnowsTasks, [Next]_vars, NEW t \in Tasks,
                      task[t] = "DONE", task'[t] # "DONE", edits' = edits
               PROVE  Overtaken(t)
    OBVIOUS
  <2>1. PICK w \in Workers : Write(w) /\ t = run[w].task
    <3>1. ~Quiet
      BY DEF Quiet
    <3>2. ASSUME NEW u \in Tasks, NEW s \in TaskStatus, Edit(u, s) PROVE FALSE
      BY <3>2 DEF Edit, TypeOK, BoardTypeOK
    <3>3. ASSUME NEW w \in Workers, BoardStep(w), ~Write(w) PROVE task' = task
      BY <3>3 DEF BoardStep, Claim, Snapshot, Lookup, FailsToFind, FailsToWrite, Close, CloseRoot,
                  Throw, Die
    <3>4. ASSUME NEW w \in Workers, Write(w) PROVE t = run[w].task
      BY <3>4 DEF Write, TypeOK, BoardTypeOK
    <3> QED BY <3>1, <3>2, <3>3, <3>4, StepCases
  <2> QED BY <2>1 DEF Overtaken, KnowsTasks, Write, TypeOK, BoardTypeOK
<1> QED BY <1>1, Knowing, PTL DEF Spec, DoneIsKept

-----------------------------------------------------------------------------
(* The board behind a completed consolidation *)

Settled(x) ==
  \/ \E t \in Named(x) : task[t] = "IN_PROGRESS"
  \/ \A t \in Named(x) : task[t] \in {"DONE", "NONE"}

\* What a worker planned is still to be done, or is done.
Covers ==
  \A w \in Workers : run[w].pc \in {"act", "write"} =>
    \A x \in Outcomes[run[w].row] :
      Named(x) \cap touched = {} => Settled(x) \/ \E t \in Named(x) : t \in Planned(w)

\* A set of natural numbers has a least one.
LEMMA LeastOf == ASSUME NEW S, S # {}, S \subseteq Nat PROVE \E n \in S : \A m \in S : n <= m
<1> DEFINE R == OpToRel(<, Nat)
<1>1. PICK n \in S : \A m \in S : ~(<<m, n>> \in R)
  <2> HIDE DEF R
  <2>1. IsWellFoundedOn(R, Nat)
    BY NatLessThanWellFounded DEF R
  <2> QED BY <2>1, WFMin
<1>2. \A m \in S : ~(m < n)
  BY <1>1 DEF OpToRel
<1> QED BY <1>2

LEMMA SettledStays ==
  ASSUME TypeOK, KnowsTasks, [Next]_vars, NEW x, Named(x) \cap touched' = {}
  PROVE  Named(x) \cap touched = {} /\ (Settled(x) => Settled(x)')
<1>1. TaskMoves
  BY BoardMoves
<1>2. Named(x) \subseteq Tasks /\ \A t \in Named(x) : t \notin touched'
  BY DEF Named
<1> QED BY <1>1, <1>2 DEF TaskMoves, Settled, Named

\* The plan that is made of the board covers what the outcomes name.
LEMMA PlanCovers ==
  ASSUME TypeOK, KnowsTasks, NEW c \in Consolidations, NEW x \in Outcomes[c],
         Named(x) \cap touched = {}
  PROVE  Settled(x) \/ \E t \in Named(x) : t \in PlanOf(c)
<1> USE DEF TypeOK, BoardTypeOK
<1> DEFINE U == Named(x) \cap With(Unfinished)
<1>1. CASE U = {}
  BY <1>1 DEF Named, With, KnowsTasks, Settled
<1>2. CASE U # {}
  <2>1. PICK t \in U : \A u \in U : Age[t] <= Age[u]
    <3> DEFINE Ages == {Age[t] : t \in U}
    <3>1. U \subseteq Tasks
      BY DEF Named
    <3>2. Ages \subseteq Nat
      BY <3>1, BoardAssumption
    <3>3. Ages # {}
      <4>1. PICK u : u \in U
        BY <1>2
      <4>2. Age[u] \in Ages
        BY <4>1
      <4> QED BY <4>2
    <3>4. PICK n \in Ages : \A m \in Ages : n <= m
      <4> HIDE DEF Ages
      <4> QED BY <3>2, <3>3, LeastOf
    <3> QED BY <3>4
  <2>2. t \in Resolve(x)
    BY <1>2, <2>1 DEF Resolve, Newest
  <2>3. CASE task[t] = "IN_PROGRESS"
    BY <2>3 DEF Settled
  <2>4. CASE task[t] # "IN_PROGRESS"
    BY <2>2, <2>4 DEF PlanOf, With
  <2> QED BY <2>3, <2>4
<1> QED BY <1>1, <1>2

LEMMA CoversStep == ASSUME TypeOK, KnowsTasks, Covers, [Next]_vars PROVE Covers'
<1> USE DEF TypeOK, BoardTypeOK
<1> SUFFICES ASSUME NEW w \in Workers, run'[w].pc \in {"act", "write"},
                    NEW x \in Outcomes[run'[w].row], Named(x) \cap touched' = {}
             PROVE  Settled(x)' \/ \E t \in Named(x) : t \in Planned(w)'
  BY DEF Covers, Named
<1>1. Named(x) \cap touched = {} /\ (Settled(x) => Settled(x)') /\ Named(x) \subseteq Tasks
  BY SettledStays DEF Named
\* A worker that keeps its row and its plan.
<1>2. ASSUME run[w].pc \in {"act", "write"}, run'[w].row = run[w].row,
             \A t \in Named(x) : t \in Planned(w) => t \in Planned(w)' \/ Settled(x)'
      PROVE  Settled(x)' \/ \E t \in Named(x) : t \in Planned(w)'
  BY <1>1, <1>2 DEF Covers
<1>3. CASE run'[w] = run[w]
  BY <1>2, <1>3 DEF Planned
<1>4. ASSUME NEW t \in Tasks, NEW s \in TaskStatus, Edit(t, s)
      PROVE  Settled(x)' \/ \E u \in Named(x) : u \in Planned(w)'
  <2>1. /\ run'[w].pc = run[w].pc /\ run'[w].row = run[w].row
        /\ run'[w].plan = run[w].plan /\ run'[w].task = run[w].task
    BY <1>4 DEF Edit
  <2> QED BY <1>2, <2>1 DEF Planned
<1>5. CASE Snapshot(w)
  <2>1. run[w].row \in Consolidations /\ run'[w].row = run[w].row /\ run'[w].plan = PlanOf(run[w].row)
    BY <1>5 DEF Snapshot
  <2>2. Settled(x) \/ \E t \in Named(x) : t \in PlanOf(run[w].row)
    BY <1>1, <2>1, PlanCovers
  <2> QED BY <1>1, <2>1, <2>2 DEF Planned
<1>6. ASSUME NEW t \in Tasks, Lookup(w, t)
      PROVE  Settled(x)' \/ \E u \in Named(x) : u \in Planned(w)'
  <2>1. run[w].pc = "act" /\ run'[w].row = run[w].row /\ t \in Planned(w)
        /\ UNCHANGED <<task, touched>> /\ run'[w].plan = run[w].plan \ {t} /\ run[w].task = NoTask
    BY <1>6 DEF Lookup, Planned
  <2>2. ASSUME t \in Named(x), t \notin Planned(w)' PROVE Settled(x)'
    <3>1. task[t] \notin Pending
      BY <1>6, <2>1, <2>2 DEF Lookup, Planned
    <3>2. task[t] = "IN_PROGRESS"
      BY <1>1, <2>1, <2>2, <3>1 DEF KnowsTasks
    <3> QED BY <2>1, <2>2, <3>2 DEF Settled, Named
  <2>3. \A u \in Named(x) : u \in Planned(w) => u \in Planned(w)' \/ u = t
    BY <2>1, BoardAssumption DEF Planned
  <2> QED BY <1>2, <2>1, <2>2, <2>3
<1>7. ASSUME NEW t \in Tasks, FailsToFind(w, t)
      PROVE  Settled(x)' \/ \E u \in Named(x) : u \in Planned(w)'
  <2>1. run[w].pc = "act" /\ run'[w].row = run[w].row /\ run'[w].plan = run[w].plan \ {t}
        /\ t \in touched' /\ run'[w].task = run[w].task
    BY <1>7 DEF FailsToFind
  <2>2. \A u \in Named(x) : u \in Planned(w) => u \in Planned(w)'
    BY <2>1 DEF Planned
  <2> QED BY <1>2, <2>1, <2>2
<1>8. CASE Write(w)
  <2>1. run[w].pc = "write" /\ run'[w].row = run[w].row /\ run'[w].plan = run[w].plan
    BY <1>8 DEF Write, Acted
  <2>2. ASSUME run[w].task \in Named(x) PROVE Settled(x)'
    <3>1. run[w].task \in Tasks /\ task[run[w].task] # "GONE"
      BY <1>1, <2>2 DEF KnowsTasks
    <3> QED BY <1>8, <2>2, <3>1 DEF Write, Settled, Named
  <2> QED BY <1>2, <2>1, <2>2 DEF Planned
<1>9. CASE FailsToWrite(w)
  <2>1. run[w].pc = "write" /\ run'[w].row = run[w].row /\ run'[w].plan = run[w].plan
        /\ run[w].task \in touched'
    BY <1>9 DEF FailsToWrite, Acted
  <2> QED BY <1>2, <2>1 DEF Planned
<1>10. ASSUME \/ \E c \in Consolidations : Claim(w, c)
              \/ Close(w) \/ CloseRoot(w) \/ Throw(w) \/ Die(w)
       PROVE  FALSE
  <2>1. CASE \E c \in Consolidations : Claim(w, c)
    BY <2>1 DEF Claim, Idle
  <2>2. CASE Close(w)
    BY <2>2 DEF Close, Idle
  <2>3. CASE CloseRoot(w) \/ Throw(w) \/ Die(w)
    BY <2>3 DEF CloseRoot, Throw, Die, Idle
  <2> QED BY <1>10, <2>1, <2>2, <2>3
<1>11. ASSUME NEW v \in Workers, BoardStep(v), v # w PROVE run'[w] = run[w]
  BY <1>11 DEF BoardStep, Claim, Snapshot, Lookup, FailsToFind, Write, FailsToWrite, Acted, Close,
               CloseRoot, Throw, Die
<1>12. CASE Quiet
  BY <1>3, <1>12 DEF Quiet
<1> QED BY <1>3, <1>4, <1>5, <1>6, <1>7, <1>8, <1>9, <1>10, <1>11, <1>12, StepCases DEF BoardStep

\* Only Close completes a row, and nothing takes that back.
LEMMA Completing ==
  ASSUME TypeOK, [Next]_vars, NEW c \in Consolidations
  PROVE  /\ row[c].status = "COMPLETED" => row'[c].status = "COMPLETED"
         /\ row'[c].status = "COMPLETED" /\ row[c].status # "COMPLETED" =>
              \E w \in Workers : Close(w) /\ run[w].row = c
<1> USE DEF TypeOK, BoardTypeOK
<1>1. CASE UNCHANGED row
  BY <1>1
<1>2. ASSUME NEW d \in Consolidations, Gather(d) \/ Recover(d)
      PROVE  /\ row[c].status = "COMPLETED" => row'[c].status = "COMPLETED"
             /\ row'[c].status = "COMPLETED" => row[c].status = "COMPLETED"
  BY <1>2 DEF Gather, Recover
<1>3. ASSUME NEW w \in Workers, NEW d \in Consolidations, Claim(w, d)
      PROVE  /\ row[c].status = "COMPLETED" => row'[c].status = "COMPLETED"
             /\ row'[c].status = "COMPLETED" => row[c].status = "COMPLETED"
  BY <1>3 DEF Claim
<1>4. ASSUME NEW w \in Workers, Throw(w)
      PROVE  /\ row[c].status = "COMPLETED" => row'[c].status = "COMPLETED"
             /\ row'[c].status = "COMPLETED" => row[c].status = "COMPLETED"
  <2>1. run[w].row \in Consolidations
    BY <1>4 DEF Throw
  <2> QED BY <1>4, <2>1 DEF Throw, Owned
<1>5. ASSUME NEW w \in Workers, Close(w)
      PROVE  /\ row[c].status = "COMPLETED" => row'[c].status = "COMPLETED"
             /\ row'[c].status = "COMPLETED" /\ row[c].status # "COMPLETED" => run[w].row = c
  <2>1. run[w].row \in Consolidations
    BY <1>5 DEF Close
  <2> QED BY <1>5, <2>1 DEF Close, Owned
<1>6. ASSUME NEW w \in Workers, BoardStep(w), ~Throw(w), ~Close(w), \A d \in Consolidations : ~Claim(w, d)
      PROVE  UNCHANGED row
  BY <1>6 DEF BoardStep, Snapshot, Lookup, FailsToFind, Write, FailsToWrite, CloseRoot, Die
<1>7. CASE BoardNext
  <2>1. ASSUME NEW r \in Roots, Enqueue(r) \/ Delegate(r) \/ DirectAnswer(r) \/ RootFails(r)
                               \/ RootRevives(r) \/ Cancel(r)
        PROVE UNCHANGED row
    BY <2>1 DEF Enqueue, Delegate, DirectAnswer, RootFails, RootRevives, Cancel, RootBecomes
  <2>2. ASSUME NEW t \in Tasks, NEW s \in TaskStatus, Edit(t, s) PROVE UNCHANGED row
    BY <2>2 DEF Edit
  <2> QED BY <1>1, <1>2, <1>3, <1>4, <1>5, <1>6, <1>7, <2>1, <2>2 DEF BoardNext
<1>8. CASE ~BoardNext
  <2>1. UNCHANGED row
    BY <1>8 DEF Next, Restart, Lapse, Proceed, Poll, ReadRoot, Deliver, Ask, vars, boardVars
  <2> QED BY <1>1, <2>1
<1> QED BY <1>7, <1>8

LEMMA OnBoardStep ==
  ASSUME TypeOK, KnowsTasks, Covers, AnsweredIsOnBoard, [Next]_vars
  PROVE  AnsweredIsOnBoard'
<1> USE DEF TypeOK, BoardTypeOK
<1> SUFFICES ASSUME NEW c \in Consolidations, row'[c].status = "COMPLETED",
                    NEW x \in Outcomes[c], Named(x) \cap touched' = {}
             PROVE  Settled(x)'
  BY DEF AnsweredIsOnBoard, Settled, Named
<1>1. Named(x) \cap touched = {} /\ (Settled(x) => Settled(x)')
  BY SettledStays
<1>2. CASE row[c].status = "COMPLETED"
  BY <1>1, <1>2 DEF AnsweredIsOnBoard, Settled
<1>3. CASE row[c].status # "COMPLETED"
  <2>1. PICK w \in Workers : Close(w) /\ run[w].row = c
    BY <1>3, Completing
  <2>2. run[w].pc = "act" /\ Planned(w) = {}
    BY <2>1, BoardAssumption DEF Close, Planned
  <2> QED BY <1>1, <2>1, <2>2 DEF Covers
<1> QED BY <1>2, <1>3

LEMMA OnBoardInit == Init => Covers /\ AnsweredIsOnBoard
BY DEF Init, BoardInit, Covers, AnsweredIsOnBoard, Idle, NewRow

\* When a consolidation is COMPLETED the delegated work that the board names is on it,
\* whatever robbed workers, retries and deaths did on the way.
THEOREM OnBoardWhenAnswered == Spec => []AnsweredIsOnBoard
<1>1. Init => TypeOK /\ KnowsTasks /\ Covers /\ AnsweredIsOnBoard
  BY TypeInit, KnowsTasksInit, OnBoardInit
<1>2. TypeOK /\ KnowsTasks /\ Covers /\ AnsweredIsOnBoard /\ [Next]_vars
        => (TypeOK /\ KnowsTasks /\ Covers /\ AnsweredIsOnBoard)'
  BY TypeStep, KnowsTasksStep, CoversStep, OnBoardStep
<1> QED BY <1>1, <1>2, PTL DEF Spec

-----------------------------------------------------------------------------
(* What a claim can still advance *)

Active(w) == run[w].pc # "idle"
ByClaim(c, n) == {t \in Tasks : <<t, n>> \in advanced[c]}
Reach(w) == Planned(w) \cup ByClaim(run[w].row, run[w].claim)

AtMostOneUnnamed(c, S) ==
  \A t, u \in S : Title[t] \notin Outcomes[c] /\ Title[u] \notin Outcomes[c] => t = u

\* A claim is of one run; before the plan is made it has advanced nothing.
ClaimsApart ==
  /\ \A v, w \in Workers :
       v # w /\ Active(v) /\ Active(w) => run[v].row # run[w].row \/ run[v].claim # run[w].claim
  /\ \A w \in Workers : run[w].pc = "snapshot" => ByClaim(run[w].row, run[w].claim) = {}

FallbackInv ==
  /\ ClaimsApart
  /\ \A w \in Workers : Active(w) => AtMostOneUnnamed(run[w].row, Reach(w))
  /\ \A c \in Consolidations, n \in Nat : AtMostOneUnnamed(c, ByClaim(c, n))

\* The tasks of a plan that no outcome names are the one that the fallback takes.
LEMMA PlanUnnamed ==
  ASSUME NEW c \in Consolidations, NEW t \in PlanOf(c), NEW u \in PlanOf(c),
         Title[t] \notin Outcomes[c], Title[u] \notin Outcomes[c]
  PROVE  t = u
<1>1. ASSUME NEW s \in PlanOf(c), Title[s] \notin Outcomes[c] PROVE s \in Newest(With(Pending))
  <2>1. PICK x \in Outcomes[c] : s \in Resolve(x)
    BY <1>1 DEF PlanOf
  <2>2. s \notin Named(x)
    BY <1>1 DEF Named
  <2> QED BY <2>1, <2>2 DEF Resolve, Newest
<1>2. t \in Newest(With(Pending)) /\ u \in Newest(With(Pending))
  BY <1>1
<1>3. Age[t] <= Age[u] /\ Age[u] <= Age[t] /\ t \in Tasks /\ u \in Tasks
  BY <1>2 DEF Newest, With
<1>4. Age[t] = Age[u]
  BY <1>3, BoardAssumption
<1> QED BY <1>3, <1>4, BoardAssumption

\* What every worker can reach only shrinks, unless it makes its plan; no worker reaches
\* what another one's claim advanced.
LEMMA AdvancedMoves ==
  ASSUME TypeOK, [Next]_vars, NEW c \in Consolidations, NEW n \in Nat
  PROVE  \/ ByClaim(c, n)' = ByClaim(c, n)
         \/ \E w \in Workers : /\ Write(w) /\ run[w].row = c /\ run[w].claim = n
                              /\ run[w].task \in Planned(w)
                              /\ ByClaim(c, n)' \subseteq ByClaim(c, n) \cup {run[w].task}
<1> USE DEF TypeOK, BoardTypeOK, ByClaim
<1>1. CASE Quiet
  BY <1>1 DEF Quiet
<1>2. ASSUME NEW t \in Tasks, NEW s \in TaskStatus, Edit(t, s) PROVE ByClaim(c, n)' = ByClaim(c, n)
  BY <1>2 DEF Edit
<1>3. ASSUME NEW w \in Workers, BoardStep(w), ~Write(w) PROVE ByClaim(c, n)' = ByClaim(c, n)
  BY <1>3 DEF BoardStep, Claim, Snapshot, Lookup, FailsToFind, FailsToWrite, Close, CloseRoot,
              Throw, Die
<1>4. ASSUME NEW w \in Workers, Write(w)
      PROVE  \/ ByClaim(c, n)' = ByClaim(c, n)
             \/ /\ run[w].row = c /\ run[w].claim = n
                /\ run[w].task \in Planned(w)
                /\ ByClaim(c, n)' \subseteq ByClaim(c, n) \cup {run[w].task}
  <2>1. run[w].row \in Consolidations /\ run[w].task \in Tasks
    BY <1>4 DEF Write
  <2>2. CASE task[run[w].task] = "GONE"
    BY <1>4, <2>2 DEF Write
  <2>3. CASE task[run[w].task] # "GONE"
    <3>1. advanced' = [advanced EXCEPT ![run[w].row] = @ \cup {<<run[w].task, run[w].claim>>}]
      BY <1>4, <2>3 DEF Write
    <3>2. CASE run[w].row = c /\ run[w].claim = n
      BY <2>1, <3>1, <3>2 DEF Planned
    <3>3. CASE ~(run[w].row = c /\ run[w].claim = n)
      BY <2>1, <3>1, <3>3
    <3> QED BY <3>2, <3>3
  <2> QED BY <2>2, <2>3
<1> QED BY <1>1, <1>2, <1>3, <1>4, StepCases

\* A worker goes on with the claim that it has, stops, or takes one that nobody had.
LEMMA ClaimMoves ==
  ASSUME TypeOK, [Next]_vars, NEW w \in Workers, Active(w)'
  PROVE  \/ /\ Active(w) /\ run'[w].row = run[w].row /\ run'[w].claim = run[w].claim
            /\ run'[w].pc = "snapshot" => run[w].pc = "snapshot"
         \/ /\ Claim(w, run'[w].row)
            /\ run'[w].pc = "snapshot" /\ Planned(w)' = {}
            /\ run'[w].row \in Consolidations /\ run'[w].claim = row[run'[w].row].claims + 1
<1> USE DEF TypeOK, BoardTypeOK, Active
<1>1. CASE run'[w] = run[w]
  BY <1>1
<1>2. CASE Quiet
  BY <1>1, <1>2 DEF Quiet
<1>3. ASSUME NEW t \in Tasks, NEW s \in TaskStatus, Edit(t, s)
      PROVE  /\ Active(w) /\ run'[w].row = run[w].row /\ run'[w].claim = run[w].claim
             /\ run'[w].pc = "snapshot" => run[w].pc = "snapshot"
  BY <1>3 DEF Edit
<1>4. ASSUME NEW v \in Workers, BoardStep(v), v # w PROVE run'[w] = run[w]
  BY <1>4 DEF BoardStep, Claim, Snapshot, Lookup, FailsToFind, Write, FailsToWrite, Acted, Close,
              CloseRoot, Throw, Die
<1>5. ASSUME NEW c \in Consolidations, Claim(w, c)
      PROVE  /\ run'[w].pc = "snapshot" /\ Planned(w)' = {}
             /\ run'[w].row = c /\ Claim(w, run'[w].row) /\ run'[w].claim = row[c].claims + 1
  BY <1>5, BoardAssumption DEF Claim, Planned, Idle
<1>6. ASSUME NEW t \in Tasks, Lookup(w, t) \/ FailsToFind(w, t)
      PROVE  /\ Active(w) /\ run'[w].row = run[w].row /\ run'[w].claim = run[w].claim
             /\ run'[w].pc # "snapshot"
  <2>1. CASE Lookup(w, t)
    BY <2>1 DEF Lookup
  <2>2. CASE FailsToFind(w, t)
    BY <2>2 DEF FailsToFind
  <2> QED BY <1>6, <2>1, <2>2
<1>7. ASSUME Snapshot(w) \/ Write(w) \/ FailsToWrite(w)
      PROVE  /\ Active(w) /\ run'[w].row = run[w].row /\ run'[w].claim = run[w].claim
             /\ run'[w].pc # "snapshot"
  BY <1>7 DEF Snapshot, Write, FailsToWrite, Acted
<1>8. CASE Close(w)
  BY <1>8 DEF Close, Idle
<1>9. CASE CloseRoot(w) \/ Throw(w) \/ Die(w)
  BY <1>9 DEF CloseRoot, Throw, Die, Idle
<1> QED BY <1>1, <1>2, <1>3, <1>4, <1>5, <1>6, <1>7, <1>8, <1>9, StepCases DEF BoardStep

LEMMA ClaimsApartStep == ASSUME TypeOK, ClaimsApart, [Next]_vars PROVE ClaimsApart'
<1> USE DEF TypeOK, BoardTypeOK, Active
\* A new claim is above those that are held and those that advanced a task.
<1>1. ASSUME NEW w \in Workers, NEW c \in Consolidations, Claim(w, c)
      PROVE  /\ \A v \in Workers : v # w => run'[v] = run[v]
             /\ \A v \in Workers : Active(v) /\ run[v].row = c => run[v].claim # row[c].claims + 1
             /\ ByClaim(c, row[c].claims + 1) = {}
  <2>1. row[c].claims \in Nat /\ \A v \in Workers : Active(v) => run[v].claim \in 1..row[run[v].row].claims
    OBVIOUS
  <2>2. \A t \in Tasks : <<t, row[c].claims + 1>> \notin advanced[c]
    BY <2>1
  <2>3. \A v \in Workers : v # w => run'[v] = run[v]
    BY <1>1 DEF Claim
  <2> QED BY <2>1, <2>2, <2>3 DEF ByClaim
<1>2. ASSUME NEW v \in Workers, NEW w \in Workers, v # w, Active(v)', Active(w)',
             run'[v].row = run'[w].row, run'[v].claim = run'[w].claim
      PROVE  FALSE
  <2> DEFINE d == run'[v].row
  <2>1. \A u \in {v, w} :
          \/ Active(u) /\ run'[u].row = run[u].row /\ run'[u].claim = run[u].claim
          \/ d \in Consolidations /\ Claim(u, d) /\ run'[u].claim = row[d].claims + 1
    BY <1>2, ClaimMoves
  <2>2. CASE Claim(w, d) /\ d \in Consolidations /\ run'[w].claim = row[d].claims + 1
    <3>1. run'[v] = run[v]
      BY <1>1, <1>2, <2>2
    <3> QED BY <1>1, <1>2, <2>2, <3>1
  <2>3. CASE Claim(v, d) /\ d \in Consolidations /\ run'[v].claim = row[d].claims + 1
    <3>1. run'[w] = run[w] /\ (Active(w) /\ run[w].row = d => run[w].claim # row[d].claims + 1)
      BY <1>1, <1>2, <2>3
    <3> QED BY <1>2, <2>3, <3>1
  <2>4. CASE /\ Active(v) /\ run'[v].row = run[v].row /\ run'[v].claim = run[v].claim
             /\ Active(w) /\ run'[w].row = run[w].row /\ run'[w].claim = run[w].claim
    <3>1. run[v].row # run[w].row \/ run[v].claim # run[w].claim
      BY <1>2, <2>4 DEF ClaimsApart
    <3> QED BY <1>2, <2>4, <3>1
  <2> QED BY <2>1, <2>2, <2>3, <2>4
<1>3. ASSUME NEW w \in Workers, run'[w].pc = "snapshot"
      PROVE  ByClaim(run[w].row, run[w].claim)' = {}
  <2>0. \/ /\ run[w].pc = "snapshot" /\ run'[w].row = run[w].row /\ run'[w].claim = run[w].claim
        \/ /\ Claim(w, run'[w].row)
           /\ run'[w].row \in Consolidations /\ run'[w].claim = row[run'[w].row].claims + 1
    BY <1>3, ClaimMoves
  <2>1. ByClaim(run'[w].row, run'[w].claim) = {}
    BY <1>1, <2>0 DEF ClaimsApart
  <2>n. run'[w].row \in Consolidations /\ run'[w].claim \in Nat
    BY <2>0
  <2>2. PICK c \in Consolidations, n \in Nat : c = run'[w].row /\ n = run'[w].claim
    BY <2>n
  <2>3. ASSUME NEW v \in Workers, Write(v), run[v].row = c, run[v].claim = n PROVE FALSE
    <3>1. run[v].pc = "write" /\ Active(v)
      BY <2>3 DEF Write
    <3>2. Active(w) /\ run[w].row = c /\ run[w].claim = n /\ run[w].pc = "snapshot"
      BY <1>1, <2>0, <2>2, <2>3, <3>1
    <3>3. v # w
      BY <3>1, <3>2
    <3> QED BY <2>3, <3>1, <3>2, <3>3 DEF ClaimsApart
  <2>4. ByClaim(c, n)' = {}
    <3>1. ByClaim(c, n) = {}
      BY <2>1, <2>2
    <3> QED BY <2>3, <3>1, AdvancedMoves
  <2> QED BY <2>2, <2>4 DEF ByClaim
<1> QED
  <2> USE DEF ClaimsApart
  <2>1. \A v, w \in Workers :
          (v # w /\ Active(v) /\ Active(w) => run[v].row # run[w].row \/ run[v].claim # run[w].claim)'
    BY <1>2
  <2>2. \A w \in Workers : (run[w].pc = "snapshot" => ByClaim(run[w].row, run[w].claim) = {})'
    BY <1>3
  <2> QED BY <2>1, <2>2

LEMMA FallbackStep == ASSUME TypeOK, FallbackInv, [Next]_vars PROVE FallbackInv'
<1> USE DEF TypeOK, BoardTypeOK
<1>1. ClaimsApart'
  BY ClaimsApartStep DEF FallbackInv
<1>2. ASSUME NEW w \in Workers, Active(w)' PROVE AtMostOneUnnamed(run'[w].row, Reach(w)')
  <2>1. CASE \E c \in Consolidations : Claim(w, c)
    <3>1. Planned(w)' = {} /\ run'[w].pc = "snapshot"
      BY <1>2, <2>1, ClaimMoves DEF Claim, Active
    <3>2. ByClaim(run[w].row, run[w].claim)' = {}
      BY <1>1, <3>1 DEF ClaimsApart
    <3> QED BY <3>1, <3>2 DEF Reach, AtMostOneUnnamed
  <2>2. ASSUME \A c \in Consolidations : ~Claim(w, c) PROVE AtMostOneUnnamed(run'[w].row, Reach(w)')
    <3>1. Active(w) /\ run'[w].row = run[w].row /\ run'[w].claim = run[w].claim
          /\ run[w].row \in Consolidations /\ run[w].claim \in Nat
      BY <1>2, <2>2, ClaimMoves DEF Active
    <3>2. ByClaim(run[w].row, run[w].claim)' \subseteq Reach(w)
      <4>1. ASSUME NEW v \in Workers, Write(v), run[v].row = run[w].row, run[v].claim = run[w].claim
            PROVE  v = w
        BY <3>1, <4>1 DEF Write, FallbackInv, ClaimsApart, Active
      <4> QED BY <3>1, <4>1, AdvancedMoves DEF Reach
    <3>3. CASE Planned(w)' \subseteq Planned(w)
      <4>1. Reach(w)' \subseteq Reach(w)
        BY <3>1, <3>2, <3>3 DEF Reach
      <4> QED BY <3>1, <4>1 DEF FallbackInv, AtMostOneUnnamed
    <3>4. CASE ~(Planned(w)' \subseteq Planned(w))
      <4>1. Snapshot(w)
        BY <3>4, PlanOnlyMade
      <4>2. Reach(w)' = PlanOf(run[w].row) \cap Tasks
        <5>1. run[w].pc = "snapshot" /\ run'[w].plan = PlanOf(run[w].row) /\ run'[w].task = NoTask
              /\ advanced' = advanced
          BY <4>1 DEF Snapshot
        <5>2. ByClaim(run[w].row, run[w].claim)' = {}
          BY <3>1, <5>1 DEF FallbackInv, ClaimsApart, ByClaim
        <5> QED BY <5>1, <5>2, BoardAssumption DEF Reach, Planned
      <4> QED BY <3>1, <4>2, PlanUnnamed DEF AtMostOneUnnamed
    <3> QED BY <3>3, <3>4
  <2> QED BY <2>1, <2>2
<1>3. ASSUME NEW c \in Consolidations, NEW n \in Nat PROVE AtMostOneUnnamed(c, ByClaim(c, n)')
  <2>1. ASSUME NEW w \in Workers, Write(w), run[w].row = c, run[w].claim = n,
               run[w].task \in Planned(w), ByClaim(c, n)' \subseteq ByClaim(c, n) \cup {run[w].task}
        PROVE  AtMostOneUnnamed(c, ByClaim(c, n)')
    <3>1. ByClaim(c, n)' \subseteq Reach(w) /\ Active(w)
      BY <2>1 DEF Reach, Active, Write
    <3> QED BY <2>1, <3>1 DEF FallbackInv, AtMostOneUnnamed
  <2> QED BY <2>1, AdvancedMoves DEF FallbackInv
<1> QED BY <1>1, <1>2, <1>3 DEF FallbackInv, AtMostOneUnnamed

LEMMA FallbackInit == Init => FallbackInv
BY DEF Init, BoardInit, FallbackInv, ClaimsApart, Active, ByClaim, AtMostOneUnnamed, Idle

\* One claim of a consolidation advances at most one task that no outcome names.
THEOREM FallbackOnce == Spec => []FallbackOncePerClaim
<1>1. TypeOK /\ FallbackInv => FallbackOncePerClaim
  <2> SUFFICES ASSUME TypeOK, FallbackInv, NEW c \in Consolidations, NEW p \in advanced[c], NEW q \in advanced[c],
                      p[2] = q[2], Title[p[1]] \notin Outcomes[c], Title[q[1]] \notin Outcomes[c]
               PROVE  p[1] = q[1]
    BY DEF FallbackOncePerClaim
  <2>1. advanced[c] \subseteq Tasks \X Nat
    BY DEF TypeOK, BoardTypeOK
  <2>2. p \in Tasks \X Nat /\ q \in Tasks \X Nat
    BY <2>1
  <2>3. p = <<p[1], p[2]>> /\ q = <<q[1], p[2]>> /\ p[1] \in Tasks /\ q[1] \in Tasks /\ p[2] \in Nat
    BY <2>2
  <2>4. p[1] \in ByClaim(c, p[2]) /\ q[1] \in ByClaim(c, p[2])
    BY <2>3 DEF ByClaim
  <2> QED BY <2>3, <2>4 DEF FallbackInv, AtMostOneUnnamed
<1> QED BY <1>1, TypeInit, TypeStep, FallbackInit, FallbackStep, PTL DEF Spec

-----------------------------------------------------------------------------
(* What stands behind a stored answer *)

Backed(r) ==
  (\E c \in Consolidations : RootOf[c] = r /\ row[c].status # "NONE") =>
    \E c \in Consolidations : RootOf[c] = r /\ row[c].status = "COMPLETED"

\* A root that has a consolidation was gathered; a worker that closes it completed one.
RootsInv ==
  /\ \A c \in Consolidations :
       row[c].status # "NONE" => root[RootOf[c]] \in {"WAITING", "COMPLETED", "CANCELLED"}
  /\ \A w \in Workers : run[w].pc = "root" => row[run[w].row].status = "COMPLETED"
  /\ \A r \in Roots : root[r] = "COMPLETED" => Backed(r)

AnswerInv ==
  /\ \A h \in Requests :
       ask[h].pc = "deliver" /\ ask[h].seen = "COMPLETED" => root[ask[h].root] = "COMPLETED"
  /\ \A r \in Roots : store[r] = "completed" => root[r] = "COMPLETED"

\* A row that is there stays; it is created for a root that waits.
RowLives(c) ==
  /\ row[c].status # "NONE" => row'[c].status # "NONE"
  /\ row'[c].status # "NONE" => row[c].status # "NONE" \/ (root[RootOf[c]] = "WAITING" /\ root' = root)

LEMMA RowMoves == ASSUME TypeOK, [Next]_vars, NEW c \in Consolidations PROVE RowLives(c)
<1> USE DEF TypeOK, BoardTypeOK
<1>1. ASSUME UNCHANGED row PROVE RowLives(c)
  BY <1>1 DEF RowLives
<1>2. ASSUME NEW d \in Consolidations, Gather(d) PROVE RowLives(c)
  BY <1>2 DEF Gather, RowLives
<1>3. ASSUME NEW d \in Consolidations, Recover(d) PROVE RowLives(c)
  BY <1>3 DEF Recover, RowLives
<1>4. ASSUME NEW w \in Workers, NEW d \in Consolidations, Claim(w, d) PROVE RowLives(c)
  BY <1>4 DEF Claim, RowLives
<1>5. ASSUME NEW w \in Workers, Throw(w) PROVE RowLives(c)
  <2>1. run[w].row \in Consolidations
    BY <1>5 DEF Throw
  <2> QED BY <1>5, <2>1 DEF Throw, Owned, RowLives
<1>6. ASSUME NEW w \in Workers, Close(w) PROVE RowLives(c)
  <2>1. run[w].row \in Consolidations
    BY <1>6 DEF Close
  <2>2. CASE Owned(w)
    <3>1. row' = [row EXCEPT ![run[w].row].status = "COMPLETED"]
      BY <1>6, <2>2 DEF Close
    <3>2. row[run[w].row].status # "NONE"
      BY <2>2 DEF Owned
    <3> QED BY <2>1, <3>1, <3>2 DEF RowLives
  <2>3. CASE ~Owned(w)
    BY <1>1, <1>6, <2>3 DEF Close
  <2> QED BY <2>2, <2>3
<1>7. ASSUME NEW w \in Workers,
             Snapshot(w) \/ (\E t \in Tasks : Lookup(w, t) \/ FailsToFind(w, t)) \/ Write(w)
             \/ FailsToWrite(w) \/ CloseRoot(w) \/ Die(w)
      PROVE  UNCHANGED row
  BY <1>7 DEF Snapshot, Lookup, FailsToFind, Write, FailsToWrite, CloseRoot, Die
<1>8. ASSUME NEW w \in Workers, BoardStep(w) PROVE RowLives(c)
  BY <1>1, <1>4, <1>5, <1>6, <1>7, <1>8 DEF BoardStep
<1>9. ASSUME NEW r \in Roots, Enqueue(r) \/ Delegate(r) \/ DirectAnswer(r) \/ RootFails(r)
                             \/ RootRevives(r) \/ Cancel(r)
      PROVE UNCHANGED row
  BY <1>9 DEF Enqueue, Delegate, DirectAnswer, RootFails, RootRevives, Cancel, RootBecomes
<1>10. ASSUME NEW t \in Tasks, NEW s \in TaskStatus, Edit(t, s) PROVE UNCHANGED row
  BY <1>10 DEF Edit
<1>11. CASE BoardNext
  BY <1>1, <1>2, <1>3, <1>8, <1>9, <1>10, <1>11 DEF BoardNext
<1>12. ASSUME NEW h \in Requests, Lapse(h) \/ Proceed(h) \/ \E r \in Roots : Ask(h, r) PROVE UNCHANGED row
  BY <1>12 DEF Lapse, Proceed, Poll, ReadRoot, Deliver, Ask, boardVars
<1>13. ASSUME Restart \/ UNCHANGED vars PROVE UNCHANGED row
  BY <1>13 DEF Restart, vars, boardVars
<1> QED BY <1>1, <1>11, <1>12, <1>13 DEF Next

\* COMPLETED is final for a root; it becomes so without a consolidation, or by a worker
\* that completed one.
LEMMA RootMoves ==
  ASSUME TypeOK, RootsInv, [Next]_vars, NEW r \in Roots
  PROVE  \/ root'[r] = root[r]
         \/ UNCHANGED row /\ root[r] \in {"NONE", "OPEN", "FAILED"}
         \/ root[r] = "WAITING" /\ root'[r] = "CANCELLED"
         \/ /\ root'[r] = "COMPLETED"
            /\ \E c \in Consolidations : RootOf[c] = r /\ row[c].status = "COMPLETED"
<1> USE DEF TypeOK, BoardTypeOK
<1>1. CASE UNCHANGED root
  BY <1>1
<1>2. ASSUME NEW q \in Roots, NEW before, NEW after, RootBecomes(q, before, after)
      PROVE  /\ q # r => root'[r] = root[r]
             /\ q = r => root[r] \in before /\ root'[r] = after
             /\ UNCHANGED row
  BY <1>2 DEF RootBecomes
<1>3. ASSUME NEW q \in Roots, Cancel(q)
      PROVE  root'[r] = root[r] \/ (root[r] = "WAITING" /\ root'[r] = "CANCELLED")
  BY <1>2, <1>3 DEF Cancel
<1>4. ASSUME NEW h \in Requests, NEW q \in Roots, Ask(h, q)
      PROVE  root'[r] = root[r] \/ (UNCHANGED row /\ root[r] \in {"NONE", "OPEN", "FAILED"})
  <2>1. CASE root[q] = "NONE"
    BY <1>4, <2>1 DEF Ask
  <2>2. CASE root[q] # "NONE"
    BY <1>4, <2>2 DEF Ask
  <2> QED BY <2>1, <2>2
<1>10. ASSUME NEW q \in Roots, Enqueue(q) \/ Delegate(q) \/ DirectAnswer(q) \/ RootFails(q)
                              \/ RootRevives(q)
       PROVE  root'[r] = root[r] \/ (UNCHANGED row /\ root[r] \in {"NONE", "OPEN", "FAILED"})
  <2>1. CASE Enqueue(q)
    BY <1>2, <2>1 DEF Enqueue
  <2>2. CASE Delegate(q)
    BY <1>2, <2>2 DEF Delegate
  <2>3. CASE DirectAnswer(q)
    BY <1>2, <2>3 DEF DirectAnswer
  <2>4. CASE RootFails(q)
    BY <1>2, <2>4 DEF RootFails
  <2>5. CASE RootRevives(q)
    BY <1>2, <2>5 DEF RootRevives
  <2> QED BY <1>10, <2>1, <2>2, <2>3, <2>4, <2>5
<1>5. ASSUME NEW w \in Workers, CloseRoot(w)
      PROVE  \/ root'[r] = root[r]
             \/ /\ root'[r] = "COMPLETED"
                /\ \E c \in Consolidations : RootOf[c] = r /\ row[c].status = "COMPLETED"
  <2>1. run[w].row \in Consolidations /\ row[run[w].row].status = "COMPLETED"
    BY <1>5 DEF CloseRoot, RootsInv
  <2> QED BY <1>5, <2>1 DEF CloseRoot
<1>6. ASSUME NEW w \in Workers, BoardStep(w), ~CloseRoot(w) PROVE UNCHANGED root
  BY <1>6 DEF BoardStep, Claim, Snapshot, Lookup, FailsToFind, Write, FailsToWrite, Close, Throw, Die
<1>7. CASE BoardNext
  <2>1. ASSUME NEW c \in Consolidations, Gather(c) \/ Recover(c) PROVE UNCHANGED root
    BY <2>1 DEF Gather, Recover
  <2>2. ASSUME NEW t \in Tasks, NEW s \in TaskStatus, Edit(t, s) PROVE UNCHANGED root
    BY <2>2 DEF Edit
  <2> QED BY <1>1, <1>3, <1>5, <1>6, <1>7, <1>10, <2>1, <2>2 DEF BoardNext
<1>8. CASE \E h \in Requests : Lapse(h) \/ Proceed(h)
  BY <1>1, <1>8 DEF Lapse, Proceed, Poll, ReadRoot, Deliver, boardVars
<1>9. CASE Restart \/ UNCHANGED vars
  BY <1>1, <1>9 DEF Restart, vars, boardVars
<1> QED BY <1>4, <1>7, <1>8, <1>9 DEF Next

LEMMA RootsStep == ASSUME TypeOK, RootsInv, [Next]_vars PROVE RootsInv'
<1> USE DEF TypeOK, BoardTypeOK
<1>1. ASSUME NEW c \in Consolidations, row'[c].status # "NONE"
      PROVE  root'[RootOf[c]] \in {"WAITING", "COMPLETED", "CANCELLED"}
  <2>1. RootOf[c] \in Roots
    BY BoardAssumption
  <2>2. CASE row[c].status # "NONE"
    BY <2>1, <2>2, RootMoves DEF RootsInv
  <2>3. CASE row[c].status = "NONE"
    BY <1>1, <2>3, RowMoves DEF RowLives
  <2> QED BY <2>2, <2>3
<1>2. ASSUME NEW w \in Workers, run'[w].pc = "root" PROVE row'[run'[w].row].status = "COMPLETED"
  <2>1. CASE run[w].pc = "root" /\ run'[w].row = run[w].row
    BY <2>1, Completing DEF RootsInv
  <2>2. CASE Close(w)
    <3>1. run[w].row \in Consolidations
      BY <2>2 DEF Close
    <3> QED BY <1>2, <2>2, <3>1 DEF Close, Idle
  <2>3. CASE Quiet
    BY <1>2, <2>1, <2>3 DEF Quiet
  <2>4. ASSUME NEW t \in Tasks, NEW s \in TaskStatus, Edit(t, s)
        PROVE  run[w].pc = "root" /\ run'[w].row = run[w].row
    BY <1>2, <2>4 DEF Edit
  <2>5. ASSUME NEW v \in Workers, BoardStep(v), v # w PROVE run'[w] = run[w]
    BY <2>5 DEF BoardStep, Claim, Snapshot, Lookup, FailsToFind, Write, FailsToWrite, Acted, Close,
                CloseRoot, Throw, Die
  <2>6. ASSUME NEW t \in Tasks, Lookup(w, t) \/ FailsToFind(w, t) PROVE FALSE
    <3>1. CASE Lookup(w, t)
      BY <1>2, <3>1 DEF Lookup
    <3>2. CASE FailsToFind(w, t)
      BY <1>2, <3>2 DEF FailsToFind
    <3> QED BY <2>6, <3>1, <3>2
  <2>7. ASSUME NEW c \in Consolidations, Claim(w, c) PROVE FALSE
    BY <1>2, <2>7 DEF Claim, Idle
  <2>8. CASE Snapshot(w) \/ Write(w) \/ FailsToWrite(w)
    BY <1>2, <2>8 DEF Snapshot, Write, FailsToWrite, Acted
  <2>9. CASE CloseRoot(w) \/ Throw(w) \/ Die(w)
    BY <1>2, <2>9 DEF CloseRoot, Throw, Die, Idle
  <2> QED BY <1>2, <2>1, <2>2, <2>3, <2>4, <2>5, <2>6, <2>7, <2>8, <2>9, StepCases DEF BoardStep
<1>3. ASSUME NEW r \in Roots, root'[r] = "COMPLETED" PROVE Backed(r)'
  <2>1. ASSUME NEW c \in Consolidations, RootOf[c] = r, row[c].status = "COMPLETED" PROVE Backed(r)'
    BY <2>1, Completing DEF Backed
  <2>2. CASE root[r] = "COMPLETED"
    <3>1. CASE \E c \in Consolidations : RootOf[c] = r /\ row[c].status # "NONE"
      BY <2>1, <2>2, <3>1 DEF RootsInv, Backed
    <3>2. CASE ~\E c \in Consolidations : RootOf[c] = r /\ row[c].status # "NONE"
      BY <2>2, <3>2, RowMoves DEF Backed, RowLives
    <3> QED BY <3>1, <3>2
  <2>3. CASE root[r] \in {"NONE", "OPEN", "FAILED"} /\ UNCHANGED row
    BY <2>3 DEF RootsInv, Backed
  <2> QED BY <1>3, <2>1, <2>2, <2>3, RootMoves
<1> QED
  <2> USE DEF RootsInv
  <2>1. \A r \in Roots : (root[r] = "COMPLETED" => Backed(r))'
    BY <1>3
  <2> QED BY <1>1, <1>2, <2>1

LEMMA AnswerStep == ASSUME TypeOK, RootsInv, AnswerInv, [Next]_vars PROVE AnswerInv'
<1> USE DEF TypeOK, BoardTypeOK, AskTypeOK
<1>1. \A r \in Roots : root[r] = "COMPLETED" => root'[r] = "COMPLETED"
  BY RootMoves
<1>2. CASE UNCHANGED <<ask, store>>
  BY <1>1, <1>2 DEF AnswerInv
<1>3. ASSUME NEW h \in Requests, NEW r \in Roots, Ask(h, r) PROVE AnswerInv'
  BY <1>1, <1>3 DEF Ask, NoAsk, AnswerInv
<1>4. ASSUME NEW h \in Requests, Lapse(h) \/ Poll(h) \/ ReadRoot(h) PROVE AnswerInv'
  <2>1. UNCHANGED store /\ \A g \in Requests : g # h => ask'[g] = ask[g]
    BY <1>4 DEF Lapse, Poll, ReadRoot
  <2>2. ask'[h].pc = "deliver" /\ ask'[h].seen = "COMPLETED" => root'[ask'[h].root] = "COMPLETED"
    <3>1. CASE Lapse(h)
      BY <3>1 DEF Lapse
    <3>2. CASE Poll(h)
      BY <3>2 DEF Poll
    <3>3. CASE ReadRoot(h)
      BY <3>3 DEF ReadRoot, boardVars
    <3> QED BY <1>4, <3>1, <3>2, <3>3
  <2> QED BY <1>1, <2>1, <2>2 DEF AnswerInv
<1>5. ASSUME NEW h \in Requests, Deliver(h) PROVE AnswerInv'
  <2>1. ask[h].root \in Roots
    BY <1>5 DEF Deliver
  <2>2. Projection(ask[h], store[ask[h].root]) = "completed" =>
          ask[h].seen = "COMPLETED" \/ store[ask[h].root] = "completed"
    BY DEF Projection
  <2> QED BY <1>1, <1>5, <2>1, <2>2 DEF Deliver, NoAsk, AnswerInv
<1>6. CASE Restart
  BY <1>6 DEF Restart, NoAsk, AnswerInv
<1> QED BY <1>2, <1>3, <1>4, <1>5, <1>6 DEF Next, Proceed, vars, askVars

LEMMA AnswerInit == Init => RootsInv /\ AnswerInv
<1> SUFFICES ASSUME Init PROVE RootsInv /\ AnswerInv
  OBVIOUS
<1>1. PICK l \in Loads : BoardInit(l)
  BY DEF Init
<1> QED BY <1>1 DEF Init, BoardInit, RootsInv, AnswerInv, Backed, Idle, NewRow, NoAsk

\* What is stored as completed is the answer of a COMPLETED mission, which if it was
\* delegated has a COMPLETED consolidation.
THEOREM StoredIsAnswered == Spec => []CompletedRunIsAnswered
<1>1. RootsInv /\ AnswerInv => CompletedRunIsAnswered
  BY DEF RootsInv, AnswerInv, Backed, CompletedRunIsAnswered
<1> QED BY <1>1, TypeInit, TypeStep, AnswerInit, RootsStep, AnswerStep, PTL DEF Spec
=============================================================================
