------------------------- MODULE MissionTree_proofs -------------------------
(***************************************************************************)
(* Theorems about MissionTree, for any specializations, plans and edges,   *)
(* any number of runs, consolidations and supervisors, and every hazard    *)
(* except a recovery that requeues a root whose coordinator goes on, with  *)
(* which the properties about the consolidation do not hold.               *)
(***************************************************************************)
EXTENDS MissionTree, TLAPS

NobodyRobs == "rob" \notin Hazards

(***************************************************************************)
(* The inductive invariant.  A run that is not over owns the root, so no   *)
(* child is created once the root waits; and from the moment a caller of   *)
(* maybeEnqueueConsolidation has seen the root waiting on terminal         *)
(* children only, both stay so, however long it takes to create the row.   *)
(***************************************************************************)
BusyOwns == \A a \in Runs : Busy(a) => OwnsRoot(a)

Consolidating ==
  \/ \E c \in Consols : consol[c] # "ABSENT"
  \/ \E p \in Rows \cup Supervisors : task[p].pc \in {"existing", "creating"}

Gathered ==
  /\ root \in {"WAITING", "COMPLETED"}
  /\ \A m \in Children : child[m] \in Terminal

ClosingIsCompleted == \A c \in closing : consol[c] # "ABSENT"

Answering == Consolidating => Gathered

IInv == TypeOK /\ BusyOwns /\ Answering /\ ClosingIsCompleted

-----------------------------------------------------------------------------
(* Types. *)

\* The fields of a coordination and of a task, and the rows that edges name.
LEMMA RowTypes ==
  /\ \A a \in Runs, s \in Specs : <<a, s>> \in Rows
  /\ \A a \in Runs, e \in Edges : EdgeRow(a, e) \in Rows \X Rows
  BY TreeAssumption DEF Rows, EdgeRow

\* A row that breaks is queued again or failed.
LEMMA ErrorStatus == \A n : AfterError(n) \subseteq ChildStatus \ {"ABSENT"}
  BY DEF AfterError, ChildStatus

\* Moving a task keeps the types of the tasks.
TaskPc == {"idle", "candidates", "judging", "promoting", "parent", "existing", "creating"}

LEMMA GotoTypes ==
  ASSUME TypeOK, NEW p \in Rows \cup Supervisors, NEW pc \in TaskPc, Goto(p, pc)
  PROVE  task' \in [Rows \cup Supervisors ->
            [pc : TaskPc, todo : SUBSET Rows, pick : Rows \cup {Nothing}]]
  BY DEF TypeOK, Goto, TaskPc

LEMMA ConsiderTypes ==
  ASSUME TypeOK, NEW p \in Rows \cup Supervisors, NEW todo \in SUBSET Rows, Consider(p, todo)
  PROVE  task' \in [Rows \cup Supervisors ->
            [pc : TaskPc, todo : SUBSET Rows, pick : Rows \cup {Nothing}]]
  BY DEF TypeOK, Consider, AfterPromotion, TaskPc

\* Moving a run, and pointing it at the row it blocks next, keeps the types of the runs.
RunPc == {"none", "deciding", "writing", "blocking", "ended"}
CoordSet == [Runs -> [pc : RunPc, plan : SUBSET Specs, at : Rows \cup {Nothing}]]

LEMMA CoordTypes ==
  ASSUME TypeOK, NEW a \in Runs, NEW pc \in RunPc, NEW at \in Rows \cup {Nothing}
  PROVE  /\ [coord EXCEPT ![a].pc = pc] \in CoordSet
         /\ [coord EXCEPT ![a].pc = pc, ![a].at = at] \in CoordSet
  <1>1. coord \in CoordSet
    BY DEF TypeOK, CoordSet, RunPc
  <1> QED
    BY <1>1 DEF CoordSet

\* A run that ends leaves the root in a status, and is typed.
LEMMA EndTypes ==
  ASSUME TypeOK, NEW a \in Runs, NEW s \in ChildStatus \cup {"WAITING"}, EndRun(a, s)
  PROVE  /\ root' \in ChildStatus \cup {"WAITING"}
         /\ rootAttempt' \in 0..RunBound
         /\ coord' \in CoordSet
  <1>1. coord' \in CoordSet
    BY CoordTypes DEF EndRun, RunPc
  <1>2. root' \in ChildStatus \cup {"WAITING"} /\ rootAttempt' \in 0..RunBound
    BY DEF EndRun, TypeOK
  <1> QED
    BY <1>1, <1>2

\* The initial state is typed.
LEMMA TypeInit == Init => TypeOK
  <1> SUFFICES ASSUME Init PROVE TypeOK
    OBVIOUS
  <1>1. 0 \in 0..RunBound /\ 0 \in 0..HazardBound /\ 0 \in Nat
    BY TreeAssumption
  <1> QED
    BY <1>1 DEF Init, TypeOK, ChildStatus

\* Every step keeps the types.
LEMMA TypeStep == TypeOK /\ [Next]_vars => TypeOK'
  <1> SUFFICES ASSUME TypeOK, [Next]_vars PROVE TypeOK'
    OBVIOUS
  <1>1. ASSUME ClaimRoot
        PROVE  TypeOK'
    <2>1. rootAttempt + 1 \in Runs /\ rootAttempt + 1 \in 0..RunBound
      BY <1>1, TreeAssumption DEF ClaimRoot, TypeOK, Runs
    <2>2. coord' \in CoordSet
      BY <1>1, <2>1, CoordTypes DEF ClaimRoot, RunPc
    <2> QED
      BY <1>1, <2>1, <2>2 DEF ClaimRoot, childVars, consolVars, TypeOK, ChildStatus, CoordSet, RunPc
  <1>2. ASSUME NEW a \in Runs, NEW P \in Plans, Delegate(a, P)
        PROVE  TypeOK'
    BY <1>2, TreeAssumption DEF Delegate, childVars, consolVars, TypeOK
  <1>3. ASSUME NEW a \in Runs, FinishWithoutDelegation(a)
        PROVE  TypeOK'
    BY <1>3, EndTypes DEF FinishWithoutDelegation, childVars, consolVars, TypeOK, ChildStatus, CoordSet, RunPc
  <1>4. ASSUME NEW a \in Runs, NEW s \in Specs, EnqueueChild(a, s)
        PROVE  TypeOK'
    BY <1>4, RowTypes DEF EnqueueChild, rootVars, consolVars, TypeOK, ChildStatus
  <1>5. ASSUME NEW a \in Runs, NEW e \in Edges, LinkEdge(a, e)
        PROVE  TypeOK'
    <2>1. coord' \in CoordSet
      BY <1>5, CoordTypes, TreeAssumption DEF LinkEdge, RunPc, Rows
    <2>2. deps' \subseteq Rows \X Rows
      BY <1>5, RowTypes DEF LinkEdge, TypeOK
    <2> QED
      BY <1>5, <2>1, <2>2 DEF LinkEdge, consolVars, TypeOK, CoordSet, RunPc
  <1>6. ASSUME NEW a \in Runs, BlockChild(a)
        PROVE  TypeOK'
    <2>1. coord' \in CoordSet
      BY <1>6, CoordTypes DEF BlockChild, RunPc
    <2>2. ready' \in [Rows -> BOOLEAN]
      BY <1>6 DEF BlockChild, TypeOK
    <2> QED
      BY <1>6, <2>1, <2>2 DEF BlockChild, consolVars, TypeOK, CoordSet, RunPc
  <1>7. ASSUME NEW a \in Runs, MarkWaiting(a)
        PROVE  TypeOK'
    BY <1>7, EndTypes DEF MarkWaiting, childVars, consolVars, TypeOK, CoordSet, RunPc
  <1>8. ASSUME NEW a \in Runs, AbortRun(a)
        PROVE  TypeOK'
    BY <1>8, ErrorStatus, TreeAssumption DEF AbortRun, Hazard, EndRun, childVars, consolVars, TypeOK
  <1>9. ASSUME RobRun
        PROVE  TypeOK'
    BY <1>9, TreeAssumption DEF RobRun, Hazard, childVars, consolVars, TypeOK, ChildStatus
  <1>10. ASSUME NEW m \in Rows, ClaimChild(m)
        PROVE  TypeOK'
    BY <1>10 DEF ClaimChild, rootVars, consolVars, TypeOK, ChildStatus
  <1>11. ASSUME NEW m \in Rows, CompleteChild(m)
        PROVE  TypeOK'
    BY <1>11, GotoTypes DEF CompleteChild, rootVars, consolVars, TypeOK, ChildStatus, TaskPc
  <1>12. ASSUME NEW m \in Rows, ChildError(m)
        PROVE  TypeOK'
    BY <1>12, ErrorStatus, TreeAssumption DEF ChildError, Hazard, rootVars, consolVars, TypeOK
  <1>13. ASSUME NEW p \in Rows \cup Supervisors, ReadCandidates(p)
        PROVE  TypeOK'
    BY <1>13, ConsiderTypes DEF ReadCandidates, rootVars, childVars, consolVars, TypeOK, TaskPc
  <1>14. ASSUME NEW p \in Rows \cup Supervisors, NEW m \in task[p].todo, Judge(p, m)
        PROVE  TypeOK'
    BY <1>14, ConsiderTypes DEF Judge, rootVars, childVars, consolVars, TypeOK, TaskPc
  <1>15. ASSUME NEW p \in Rows \cup Supervisors, Promote(p)
        PROVE  TypeOK'
    BY <1>15, ConsiderTypes DEF Promote, rootVars, consolVars, TypeOK, TaskPc
  <1>16. ASSUME NEW p \in Rows \cup Supervisors, ReadParent(p)
        PROVE  TypeOK'
    BY <1>16, GotoTypes DEF ReadParent, AfterConsolidation, rootVars, childVars, consolVars, TypeOK, TaskPc
  <1>17. ASSUME NEW p \in Rows \cup Supervisors, ReadExisting(p)
        PROVE  TypeOK'
    BY <1>17, GotoTypes DEF ReadExisting, AfterConsolidation, rootVars, childVars, consolVars, TypeOK, TaskPc
  <1>18. ASSUME NEW p \in Rows \cup Supervisors, EnqueueConsolidation(p)
        PROVE  TypeOK'
    BY <1>18, GotoTypes DEF EnqueueConsolidation, AfterConsolidation, rootVars, childVars, TypeOK, TaskPc, ChildStatus
  <1>19. ASSUME NEW p \in Rows \cup Supervisors, StartCycle(p)
        PROVE  TypeOK'
    BY <1>19, GotoTypes DEF StartCycle, rootVars, childVars, consolVars, TypeOK, TaskPc
  <1>20. ASSUME NEW p \in Rows \cup Supervisors, CutTask(p)
        PROVE  TypeOK'
    BY <1>20, TreeAssumption DEF CutTask, Hazard, rootVars, childVars, consolVars, TypeOK
  <1>21. ASSUME NEW c \in Consols, ClaimConsolidation(c)
        PROVE  TypeOK'
    BY <1>21 DEF ClaimConsolidation, rootVars, childVars, TypeOK, ChildStatus
  <1>22. ASSUME NEW c \in Consols, CompleteConsolidation(c)
        PROVE  TypeOK'
    BY <1>22 DEF CompleteConsolidation, rootVars, childVars, TypeOK, ChildStatus
  <1>23. ASSUME NEW c \in Consols, CloseRoot(c)
        PROVE  TypeOK'
    BY <1>23 DEF CloseRoot, childVars, TypeOK, ChildStatus
  <1>24. ASSUME NEW c \in Consols, CutClosing(c)
        PROVE  TypeOK'
    BY <1>24, TreeAssumption DEF CutClosing, Hazard, rootVars, childVars, TypeOK
  <1>25. ASSUME NEW c \in Consols, ConsolidationError(c)
        PROVE  TypeOK'
    BY <1>25, ErrorStatus, TreeAssumption DEF ConsolidationError, Hazard, rootVars, childVars, TypeOK
  <1>26. CASE UNCHANGED vars
    BY <1>26 DEF vars, rootVars, childVars, consolVars, TypeOK
  <1> QED
    BY <1>1, <1>2, <1>3, <1>4, <1>5, <1>6, <1>7, <1>8, <1>9, <1>10, <1>11, <1>12, <1>13,
       <1>14, <1>15, <1>16, <1>17, <1>18, <1>19, <1>20, <1>21, <1>22, <1>23, <1>24, <1>25,
       <1>26
    DEF Next, Coordination, Others, CoordinatorStep, ChildStep, TaskStep, ConsolidationStep

\* Every column, task and run keeps its type, whatever goes wrong.
THEOREM TreeTypes == Spec => []TypeOK
  BY TypeInit, TypeStep, PTL DEF Spec

-----------------------------------------------------------------------------
(* The invariant. *)

\* While a run is busy, or while the root is queued, nothing is consolidating.
LEMMA OpenRoot ==
  ASSUME IInv
  PROVE  /\ root \in {"QUEUED", "RUNNING"} => ~Consolidating
         /\ \A a \in Runs : Busy(a) => root = "RUNNING" /\ rootAttempt = a
  BY DEF IInv, BusyOwns, OwnsRoot, Answering, Gathered

\* What leaves the runs of the root alone keeps BusyOwns.
LEMMA SameRoot ==
  ASSUME BusyOwns, UNCHANGED <<root, rootAttempt, coord>>
  PROVE  BusyOwns'
  BY DEF BusyOwns, Busy, OwnsRoot

\* What leaves consolidations and tasks alone changes nothing while there is
\* nothing to answer.
LEMMA NothingToAnswer ==
  ASSUME IInv, ~Consolidating, UNCHANGED <<consol, closing, task>>
  PROVE  Answering' /\ ClosingIsCompleted'
  BY DEF IInv, Consolidating, Answering, ClosingIsCompleted

\* Once there is something to answer, the root and the children stay as they are
\* until the root is completed.
LEMMA StillGathered ==
  ASSUME Gathered, UNCHANGED child, root' = root \/ root' = "COMPLETED"
  PROVE  Gathered'
  BY DEF Gathered, Children

\* The run of the root that ends was the only busy one.
LEMMA EndKeepsInv ==
  ASSUME IInv, NEW a \in Runs, Busy(a), NEW s, EndRun(a, s), UNCHANGED <<consolVars, task>>
  PROVE  BusyOwns' /\ Answering' /\ ClosingIsCompleted'
  <1>1. /\ root = "RUNNING" /\ rootAttempt = a /\ ~Consolidating
        /\ \A b \in Runs : Busy(b) => b = a
    BY OpenRoot
  <1>2. BusyOwns'
    <2> SUFFICES ASSUME NEW b \in Runs, Busy(b)' PROVE FALSE
      BY DEF BusyOwns
    <2>1. coord' = [coord EXCEPT ![a].pc = "ended"] /\ coord \in CoordSet
      BY DEF EndRun, IInv, TypeOK, CoordSet, RunPc
    <2>2. CASE b = a
      BY <2>1, <2>2 DEF Busy, CoordSet
    <2>3. CASE b # a
      BY <2>1, <2>3, <1>1 DEF Busy, CoordSet
    <2> QED
      BY <2>2, <2>3
  <1> QED
    BY <1>1, <1>2, NothingToAnswer DEF consolVars

\* A step of a busy run that goes on leaves the root and the answer alone.
LEMMA BusyKeepsInv ==
  ASSUME IInv, NEW a \in Runs, Busy(a), Busy(a)',
         \A b \in Runs : b # a => coord'[b] = coord[b],
         UNCHANGED <<root, rootAttempt, consolVars, task>>
  PROVE  BusyOwns' /\ Answering' /\ ClosingIsCompleted'
  <1>1. root = "RUNNING" /\ rootAttempt = a /\ ~Consolidating
    BY OpenRoot
  <1>2. \A b \in Runs : Busy(b)' => Busy(b)
    BY DEF Busy
  <1>3. BusyOwns'
    BY <1>2 DEF BusyOwns, OwnsRoot, IInv
  <1> QED
    BY <1>1, <1>3, NothingToAnswer DEF consolVars

\* A child that is open has nobody answer its root.
LEMMA ChildKeepsInv ==
  ASSUME IInv, NEW m \in Rows, child[m] \in Open,
         UNCHANGED <<rootVars, consolVars>>,
         \A p \in Rows \cup Supervisors :
           task'[p].pc \in {"existing", "creating"} => task[p].pc \in {"existing", "creating"}
  PROVE  BusyOwns' /\ Answering' /\ ClosingIsCompleted'
  <1>1. ~Gathered
    BY DEF Gathered, Children, Open, Terminal
  <1>2. ~Consolidating
    BY <1>1 DEF IInv, Answering
  <1>3. ~Consolidating'
    BY <1>2 DEF Consolidating, consolVars
  <1> QED
    BY <1>3, SameRoot DEF IInv, Answering, ClosingIsCompleted, consolVars, rootVars

\* A task that moves elsewhere than to ReadExisting or EnqueueConsolidation, or
\* moves there because the children were gathered, keeps the invariant.
LEMMA TaskKeepsInv ==
  ASSUME IInv, NEW p \in Rows \cup Supervisors,
         UNCHANGED <<rootVars, child, consol, closing>>,
         \A q \in Rows \cup Supervisors : q # p => task'[q] = task[q],
         task'[p].pc \in {"existing", "creating"} => Gathered
  PROVE  BusyOwns' /\ Answering' /\ ClosingIsCompleted'
  <1>1. Gathered => Gathered'
    BY StillGathered DEF rootVars
  <1>2. Consolidating' => Consolidating \/ task'[p].pc \in {"existing", "creating"}
    BY DEF Consolidating
  <1>3. Answering'
    BY <1>1, <1>2 DEF IInv, Answering
  <1> QED
    BY <1>3, SameRoot DEF IInv, ClosingIsCompleted, rootVars

\* Whoever moves a CONSOLIDATE row leaves the children gathered.
LEMMA ConsolKeepsInv ==
  ASSUME IInv, Consolidating, UNCHANGED <<rootAttempt, coord, child>>,
         root' = root \/ root' = "COMPLETED", ClosingIsCompleted'
  PROVE  BusyOwns' /\ Answering' /\ ClosingIsCompleted'
  <1>1. Gathered
    BY DEF IInv, Answering
  <1>2. Gathered'
    BY <1>1, StillGathered
  <1>3. \A a \in Runs : ~Busy(a)
    BY <1>1, OpenRoot DEF Gathered
  <1>4. BusyOwns'
    BY <1>3 DEF BusyOwns, Busy
  <1> QED
    BY <1>2, <1>4 DEF Answering

\* The initial state satisfies the invariant.
LEMMA InvInit == Init => IInv
  <1> SUFFICES ASSUME Init PROVE IInv
    OBVIOUS
  <1>1. BusyOwns /\ ClosingIsCompleted
    BY DEF Init, BusyOwns, Busy, ClosingIsCompleted
  <1>2. ~Consolidating
    BY DEF Init, Consolidating
  <1> QED
    BY <1>1, <1>2, TypeInit DEF IInv, Answering

\* What a task is doing after Consider and after Goto.
LEMMA ConsiderMoves ==
  ASSUME TypeOK, NEW p \in Rows \cup Supervisors, NEW todo, Consider(p, todo)
  PROVE  /\ \A q \in Rows \cup Supervisors : q # p => task'[q] = task[q]
         /\ task'[p].pc \in {"judging", "idle", "parent"}
  BY DEF TypeOK, Consider, AfterPromotion

LEMMA GotoMoves ==
  ASSUME TypeOK, NEW p \in Rows \cup Supervisors, NEW pc, Goto(p, pc)
  PROVE  /\ \A q \in Rows \cup Supervisors : q # p => task'[q] = task[q]
         /\ task'[p].pc = pc
  BY DEF TypeOK, Goto

\* Every step keeps the invariant, if no recovery takes the root from its run.
LEMMA InvStep ==
  ASSUME NobodyRobs
  PROVE  IInv /\ [Next]_vars => IInv'
  <1> SUFFICES ASSUME IInv, [Next]_vars
               PROVE  BusyOwns' /\ Answering' /\ ClosingIsCompleted'
    BY TypeStep DEF IInv
  <1> DEFINE Kept == BusyOwns' /\ Answering' /\ ClosingIsCompleted'
  <1>0. TypeOK /\ BusyOwns /\ coord \in CoordSet
    BY DEF IInv, TypeOK, CoordSet, RunPc
  <1>1. ASSUME ClaimRoot
        PROVE  Kept
    <2>1. ~Consolidating /\ \A a \in Runs : ~Busy(a)
      BY <1>1, OpenRoot DEF ClaimRoot
    <2>2. BusyOwns'
      BY <1>1, <1>0, <2>1 DEF ClaimRoot, BusyOwns, Busy, OwnsRoot, CoordSet
    <2> QED
      BY <1>1, <2>1, <2>2, NothingToAnswer DEF ClaimRoot, consolVars
  <1>2. ASSUME NEW a \in Runs, NEW P \in Plans, Delegate(a, P)
        PROVE  Kept
    <2>1. Busy(a) /\ Busy(a)' /\ \A b \in Runs : b # a => coord'[b] = coord[b]
      BY <1>2, <1>0 DEF Delegate, Busy, CoordSet
    <2> QED
      BY <1>2, <2>1, BusyKeepsInv DEF Delegate
  <1>3. ASSUME NEW a \in Runs, FinishWithoutDelegation(a)
        PROVE  Kept
    BY <1>3, EndKeepsInv DEF FinishWithoutDelegation, Busy
  <1>4. ASSUME NEW a \in Runs, NEW s \in Specs, EnqueueChild(a, s)
        PROVE  Kept
    <2>1. Busy(a) /\ Busy(a)'
      BY <1>4 DEF EnqueueChild, Busy, rootVars
    <2> QED
      BY <1>4, <2>1, BusyKeepsInv DEF EnqueueChild, rootVars
  <1>5. ASSUME NEW a \in Runs, NEW e \in Edges, LinkEdge(a, e)
        PROVE  Kept
    <2>1. Busy(a) /\ Busy(a)' /\ \A b \in Runs : b # a => coord'[b] = coord[b]
      BY <1>5, <1>0 DEF LinkEdge, Busy, CoordSet
    <2> QED
      BY <1>5, <2>1, BusyKeepsInv DEF LinkEdge
  <1>6. ASSUME NEW a \in Runs, BlockChild(a)
        PROVE  Kept
    <2>1. Busy(a) /\ Busy(a)' /\ \A b \in Runs : b # a => coord'[b] = coord[b]
      BY <1>6, <1>0 DEF BlockChild, Busy, CoordSet
    <2> QED
      BY <1>6, <2>1, BusyKeepsInv DEF BlockChild
  <1>7. ASSUME NEW a \in Runs, MarkWaiting(a)
        PROVE  Kept
    BY <1>7, EndKeepsInv DEF MarkWaiting, Busy
  <1>8. ASSUME NEW a \in Runs, AbortRun(a)
        PROVE  Kept
    <2>1. Busy(a)
      BY <1>8, <1>0 DEF AbortRun, Busy, CoordSet, RunPc
    <2> QED
      BY <1>8, <2>1, EndKeepsInv DEF AbortRun
  <1>9. ASSUME RobRun
        PROVE  Kept
    BY <1>9 DEF RobRun, Hazard, NobodyRobs
  <1>10. ASSUME NEW m \in Rows, ClaimChild(m)
        PROVE  Kept
    BY <1>10, ChildKeepsInv DEF ClaimChild, Open
  <1>11. ASSUME NEW m \in Rows, CompleteChild(m)
        PROVE  Kept
    <2>1. \A q \in Rows \cup Supervisors : task'[q].pc \in {"existing", "creating"} => task'[q] = task[q]
      BY <1>11, <1>0, GotoMoves DEF CompleteChild
    <2> QED
      BY <1>11, <2>1, ChildKeepsInv DEF CompleteChild, Open
  <1>12. ASSUME NEW m \in Rows, ChildError(m)
        PROVE  Kept
    BY <1>12, ChildKeepsInv DEF ChildError, Open
  <1>13. ASSUME NEW p \in Rows \cup Supervisors, ReadCandidates(p)
        PROVE  Kept
    <2>1. PICK todo : Consider(p, todo)
      BY <1>13 DEF ReadCandidates
    <2> QED
      BY <1>13, <1>0, <2>1, ConsiderMoves, TaskKeepsInv DEF ReadCandidates, childVars, consolVars
  <1>14. ASSUME NEW p \in Rows \cup Supervisors, NEW m \in task[p].todo, Judge(p, m)
        PROVE  Kept
    <2>1. /\ \A q \in Rows \cup Supervisors : q # p => task'[q] = task[q]
          /\ task'[p].pc \notin {"existing", "creating"}
      <3>1. CASE \A q \in Preds(m) : child[q] = "COMPLETED"
        BY <1>14, <1>0, <3>1 DEF Judge, TypeOK
      <3>2. CASE ~\A q \in Preds(m) : child[q] = "COMPLETED"
        BY <1>14, <1>0, <3>2, ConsiderMoves DEF Judge
      <3> QED
        BY <3>1, <3>2
    <2> QED
      BY <1>14, <2>1, TaskKeepsInv DEF Judge, childVars, consolVars
  <1>15. ASSUME NEW p \in Rows \cup Supervisors, Promote(p)
        PROVE  Kept
    BY <1>15, <1>0, ConsiderMoves, TaskKeepsInv DEF Promote, consolVars
  <1>16. ASSUME NEW p \in Rows \cup Supervisors, ReadParent(p)
        PROVE  Kept
    <2>1. CASE Gathered
      BY <1>16, <1>0, <2>1, GotoMoves, TaskKeepsInv DEF ReadParent, childVars, consolVars
    <2>2. CASE ~Gathered
      <3>1. Goto(p, AfterConsolidation(p))
        BY <1>16, <2>2 DEF ReadParent, Gathered
      <3>2. AfterConsolidation(p) \in {"candidates", "idle"}
        BY DEF AfterConsolidation
      <3> QED
        BY <1>16, <1>0, <3>1, <3>2, GotoMoves, TaskKeepsInv DEF ReadParent, childVars, consolVars
    <2> QED
      BY <2>1, <2>2
  <1>17. ASSUME NEW p \in Rows \cup Supervisors, ReadExisting(p)
        PROVE  Kept
    <2>1. Gathered
      BY <1>17 DEF ReadExisting, IInv, Answering, Consolidating
    <2>2. PICK pc : Goto(p, pc)
      BY <1>17 DEF ReadExisting
    <2> QED
      BY <1>17, <1>0, <2>1, <2>2, GotoMoves, TaskKeepsInv DEF ReadExisting, childVars, consolVars
  <1>18. ASSUME NEW p \in Rows \cup Supervisors, EnqueueConsolidation(p)
        PROVE  Kept
    <2>1. Consolidating
      BY <1>18 DEF EnqueueConsolidation, Consolidating
    <2>2. ClosingIsCompleted'
      BY <1>18, <1>0 DEF EnqueueConsolidation, IInv, ClosingIsCompleted, TypeOK
    <2> QED
      BY <1>18, <2>1, <2>2, ConsolKeepsInv DEF EnqueueConsolidation, rootVars, childVars
  <1>19. ASSUME NEW p \in Rows \cup Supervisors, StartCycle(p)
        PROVE  Kept
    BY <1>19, <1>0, GotoMoves, TaskKeepsInv DEF StartCycle, childVars, consolVars
  <1>20. ASSUME NEW p \in Rows \cup Supervisors, CutTask(p)
        PROVE  Kept
    <2>1. /\ \A q \in Rows \cup Supervisors : q # p => task'[q] = task[q]
          /\ task'[p].pc = "idle"
      BY <1>20, <1>0 DEF CutTask, TypeOK
    <2> QED
      BY <1>20, <2>1, TaskKeepsInv DEF CutTask, childVars, consolVars
  <1>21. ASSUME NEW c \in Consols, ClaimConsolidation(c)
        PROVE  Kept
    <2>1. Consolidating
      BY <1>21 DEF ClaimConsolidation, Consolidating
    <2>2. ClosingIsCompleted'
      BY <1>21, <1>0 DEF ClaimConsolidation, IInv, ClosingIsCompleted, TypeOK
    <2> QED
      BY <1>21, <2>1, <2>2, ConsolKeepsInv DEF ClaimConsolidation, rootVars, childVars
  <1>22. ASSUME NEW c \in Consols, CompleteConsolidation(c)
        PROVE  Kept
    <2>1. Consolidating
      BY <1>22 DEF CompleteConsolidation, Consolidating
    <2>2. ClosingIsCompleted'
      BY <1>22, <1>0 DEF CompleteConsolidation, IInv, ClosingIsCompleted, TypeOK
    <2> QED
      BY <1>22, <2>1, <2>2, ConsolKeepsInv DEF CompleteConsolidation, rootVars, childVars
  <1>23. ASSUME NEW c \in Consols, CloseRoot(c)
        PROVE  Kept
    <2>1. Consolidating /\ ClosingIsCompleted'
      BY <1>23 DEF CloseRoot, IInv, ClosingIsCompleted, Consolidating
    <2> QED
      BY <1>23, <2>1, ConsolKeepsInv DEF CloseRoot, childVars
  <1>24. ASSUME NEW c \in Consols, CutClosing(c)
        PROVE  Kept
    <2>1. Consolidating /\ ClosingIsCompleted'
      BY <1>24 DEF CutClosing, IInv, ClosingIsCompleted, Consolidating
    <2> QED
      BY <1>24, <2>1, ConsolKeepsInv DEF CutClosing, rootVars, childVars
  <1>25. ASSUME NEW c \in Consols, ConsolidationError(c)
        PROVE  Kept
    <2>1. Consolidating
      BY <1>25 DEF ConsolidationError, Consolidating
    <2>2. ClosingIsCompleted'
      BY <1>25, <1>0, ErrorStatus DEF ConsolidationError, IInv, ClosingIsCompleted, TypeOK
    <2> QED
      BY <1>25, <2>1, <2>2, ConsolKeepsInv DEF ConsolidationError, rootVars, childVars
  <1>26. CASE UNCHANGED vars
    BY <1>26 DEF vars, rootVars, childVars, consolVars, IInv, BusyOwns, Busy, OwnsRoot, Answering,
         Consolidating, Gathered, Children, ClosingIsCompleted
  <1> QED
    BY <1>1, <1>2, <1>3, <1>4, <1>5, <1>6, <1>7, <1>8, <1>9, <1>10, <1>11, <1>12, <1>13,
       <1>14, <1>15, <1>16, <1>17, <1>18, <1>19, <1>20, <1>21, <1>22, <1>23, <1>24, <1>25,
       <1>26
    DEF Next, Coordination, Others, CoordinatorStep, ChildStep, TaskStep, ConsolidationStep

\* No consolidation exists before every child that was delegated is COMPLETED or
\* FAILED: not after retries of the coordinator, whatever statement it dies at,
\* nor with callers of maybeEnqueueConsolidation between any two of its queries.
THEOREM TreeConsolidatesAfterChildren ==
  ASSUME NobodyRobs
  PROVE  Spec => []ConsolidateAfterChildren
  <1>1. IInv => ConsolidateAfterChildren
    BY DEF IInv, Answering, Consolidating, Gathered, ConsolidateAfterChildren
  <1> QED
    BY InvInit, InvStep, <1>1, PTL DEF Spec

-----------------------------------------------------------------------------
(* The implementation of MissionAnswer. *)

Pending == {m \in Rows : child[m] \in Open}

StageTable ==
  /\ root = "COMPLETED" => StageOf = "answered"
  /\ root = "FAILED" => StageOf = "failed"
  /\ root \in {"QUEUED", "RUNNING"} => StageOf = "open"
  /\ root = "WAITING" /\ (\E c \in Consols : consol[c] # "ABSENT") => StageOf = "answering"
  /\ root = "WAITING" /\ ~(\E c \in Consols : consol[c] # "ABSENT") => StageOf = "gathering"

\* The stage that each state of the root stands for, before and after a step.
LEMMA StageValues == StageTable /\ StageTable'
  <1>1. StageTable
    BY DEF StageTable, StageOf
  <1>2. StageTable'
    BY DEF StageTable, StageOf
  <1> QED
    BY <1>1, <1>2

\* Steps that leave the root alone and create no CONSOLIDATE leave the stage alone.
LEMMA SameStage ==
  ASSUME UNCHANGED root,
         (\E c \in Consols : consol[c] # "ABSENT") <=> (\E c \in Consols : consol'[c] # "ABSENT")
  PROVE  UNCHANGED StageOf
  BY DEF StageOf

\* A busy run that ends settles the mission, hands it on to its children, or leaves it open.
LEMMA EndImplements ==
  ASSUME IInv, IInv', NEW a \in Runs, Busy(a), NEW s \in {"COMPLETED", "WAITING", "FAILED", "QUEUED"},
         EndRun(a, s), UNCHANGED <<childVars, consolVars, task>>
  PROVE  [TheAnswer!AnswerNext]_(TheAnswer!answerVars)
  <1>1. root = "RUNNING" /\ root' = s
    BY OpenRoot DEF EndRun, OwnsRoot
  <1>2. ~(\E c \in Consols : consol'[c] # "ABSENT")
    BY <1>1, OpenRoot DEF Consolidating, consolVars
  <1>3. StageOf = "open" /\ StageOf' \in {"answered", "gathering", "failed", "open"}
    BY <1>1, <1>2, StageValues DEF StageTable, IInv
  <1>4. UNCHANGED Pending
    BY DEF Pending, childVars
  <1> QED
    BY <1>3, <1>4
    DEF Pending, TheAnswer!AnswerNext, TheAnswer!answerVars, TheAnswer!Settle, TheAnswer!Gather

\* A child that becomes COMPLETED, FAILED or QUEUED again was delegated before.
LEMMA ChildImplements ==
  ASSUME IInv, NEW m \in Rows, child[m] \in Open, NEW s \in ChildStatus,
         child' = [child EXCEPT ![m] = s], UNCHANGED <<rootVars, consolVars>>
  PROVE  [TheAnswer!AnswerNext]_(TheAnswer!answerVars)
  <1>1. Pending' \subseteq Pending
    BY DEF Pending, IInv, TypeOK
  <1>2. UNCHANGED StageOf
    BY SameStage DEF rootVars, consolVars
  <1> QED
    BY <1>1, <1>2 DEF Pending, TheAnswer!AnswerNext, TheAnswer!answerVars, TheAnswer!Finish

\* Steps that MissionAnswer does not see.
LEMMA QuietImplements ==
  ASSUME UNCHANGED <<root, child>>,
         (\E c \in Consols : consol[c] # "ABSENT") <=> (\E c \in Consols : consol'[c] # "ABSENT")
  PROVE  [TheAnswer!AnswerNext]_(TheAnswer!answerVars)
  BY SameStage DEF TheAnswer!answerVars

\* Once children are gathered, no delegated work is pending.
LEMMA NothingPending ==
  ASSUME Gathered, TypeOK
  PROVE  Pending = {}
  BY DEF Gathered, Children, Pending, Open, Terminal

\* Every step is a step of MissionAnswer, or changes nothing that it sees.
LEMMA AnswerStep ==
  ASSUME NobodyRobs
  PROVE  IInv /\ [Next]_vars => [TheAnswer!AnswerNext]_(TheAnswer!answerVars)
  <1> SUFFICES ASSUME IInv, [Next]_vars
               PROVE  [TheAnswer!AnswerNext]_(TheAnswer!answerVars)
    OBVIOUS
  <1> DEFINE Implements == [TheAnswer!AnswerNext]_(TheAnswer!answerVars)
  <1>0. IInv' /\ TypeOK /\ TypeOK' /\ coord \in CoordSet
    BY InvStep DEF IInv, TypeOK, CoordSet, RunPc
  <1>1. ASSUME ClaimRoot
        PROVE  Implements
    <2>1. StageOf = "open" /\ StageOf' = "open"
      BY <1>0, <1>1, StageValues DEF StageTable, ClaimRoot
    <2> QED
      BY <1>1, <2>1 DEF ClaimRoot, childVars, TheAnswer!answerVars
  <1>2. ASSUME NEW a \in Runs, NEW P \in Plans, Delegate(a, P)
        PROVE  Implements
    BY <1>2, QuietImplements DEF Delegate, childVars, consolVars
  <1>3. ASSUME NEW a \in Runs, FinishWithoutDelegation(a)
        PROVE  Implements
    BY <1>0, <1>3, EndImplements DEF FinishWithoutDelegation, Busy
  <1>4. ASSUME NEW a \in Runs, NEW s \in Specs, EnqueueChild(a, s)
        PROVE  Implements
    <2>1. StageOf = "open" /\ UNCHANGED StageOf
      BY <1>4, <1>0, OpenRoot, StageValues, SameStage DEF StageTable, EnqueueChild, Busy, rootVars, consolVars
    <2>2. Pending \subseteq Pending' /\ Pending' \in SUBSET Rows
      BY <1>4, <1>0, RowTypes DEF EnqueueChild, Pending, Open, TypeOK
    <2> QED
      BY <2>1, <2>2 DEF Pending, TheAnswer!AnswerNext, TheAnswer!answerVars, TheAnswer!Delegate
  <1>5. ASSUME NEW a \in Runs, NEW e \in Edges, LinkEdge(a, e)
        PROVE  Implements
    BY <1>5, QuietImplements DEF LinkEdge, consolVars
  <1>6. ASSUME NEW a \in Runs, BlockChild(a)
        PROVE  Implements
    BY <1>6, QuietImplements DEF BlockChild, consolVars
  <1>7. ASSUME NEW a \in Runs, MarkWaiting(a)
        PROVE  Implements
    BY <1>0, <1>7, EndImplements DEF MarkWaiting, Busy
  <1>8. ASSUME NEW a \in Runs, AbortRun(a)
        PROVE  Implements
    <2>1. Busy(a)
      BY <1>8, <1>0 DEF AbortRun, Busy, CoordSet, RunPc
    <2>2. PICK s \in {"FAILED", "QUEUED"} : EndRun(a, s)
      BY <1>8 DEF AbortRun, AfterError
    <2> QED
      BY <1>0, <1>8, <2>1, <2>2, EndImplements DEF AbortRun
  <1>9. ASSUME RobRun
        PROVE  Implements
    BY <1>9 DEF RobRun, Hazard, NobodyRobs
  <1>10. ASSUME NEW m \in Rows, ClaimChild(m)
        PROVE  Implements
    BY <1>10, ChildImplements DEF ClaimChild, Open, ChildStatus
  <1>11. ASSUME NEW m \in Rows, CompleteChild(m)
        PROVE  Implements
    BY <1>11, ChildImplements DEF CompleteChild, Open, ChildStatus
  <1>12. ASSUME NEW m \in Rows, ChildError(m)
        PROVE  Implements
    <2>1. PICK s \in ChildStatus : child' = [child EXCEPT ![m] = s]
      BY <1>12, ErrorStatus DEF ChildError
    <2> QED
      BY <1>12, <2>1, ChildImplements DEF ChildError, Open
  <1>13. ASSUME NEW p \in Rows \cup Supervisors,
                \/ ReadCandidates(p) \/ \E m \in task[p].todo : Judge(p, m)
                \/ ReadParent(p) \/ ReadExisting(p) \/ StartCycle(p) \/ CutTask(p)
        PROVE  Implements
    BY <1>13, QuietImplements
    DEF ReadCandidates, Judge, ReadParent, ReadExisting, StartCycle, CutTask,
        rootVars, childVars, consolVars
  <1>14. ASSUME NEW p \in Rows \cup Supervisors, Promote(p)
        PROVE  Implements
    BY <1>14, QuietImplements DEF Promote, rootVars, consolVars
  <1>15. ASSUME NEW p \in Rows \cup Supervisors, EnqueueConsolidation(p)
        PROVE  Implements
    <2>1. Gathered
      BY <1>15 DEF EnqueueConsolidation, Consolidating, IInv, Answering
    <2>2. Pending = {} /\ Pending' = {}
      BY <1>0, <1>15, <2>1, NothingPending DEF EnqueueConsolidation, Pending, childVars
    <2>3. CASE root = "COMPLETED"
      <3>1. StageOf = "answered" /\ StageOf' = "answered"
        BY <1>0, <1>15, <2>3, StageValues DEF StageTable, EnqueueConsolidation, rootVars
      <3> QED
        BY <2>2, <3>1 DEF Pending, TheAnswer!answerVars
    <2>4. CASE root = "WAITING"
      <3>1. (\E c \in Consols : consol[c] # "ABSENT") => \E c \in Consols : consol'[c] # "ABSENT"
        BY <1>0, <1>15 DEF EnqueueConsolidation, TypeOK
      <3>2. \/ StageOf = "gathering" /\ StageOf' \in {"gathering", "answering"}
            \/ StageOf = "answering" /\ StageOf' = "answering"
        BY <1>0, <1>15, <2>4, <3>1, StageValues DEF StageTable, EnqueueConsolidation, rootVars
      <3> QED
        BY <2>2, <3>2
        DEF Pending, TheAnswer!AnswerNext, TheAnswer!answerVars, TheAnswer!PrepareAnswer
    <2> QED
      BY <2>1, <2>3, <2>4 DEF Gathered
  <1>16. ASSUME NEW c \in Consols,
                ClaimConsolidation(c) \/ CompleteConsolidation(c) \/ ConsolidationError(c)
        PROVE  Implements
    <2>1. PICK s \in ChildStatus \ {"ABSENT"} : consol' = [consol EXCEPT ![c] = s]
      BY <1>16, ErrorStatus DEF ClaimConsolidation, CompleteConsolidation, ConsolidationError, ChildStatus
    <2>2. consol[c] # "ABSENT" /\ consol'[c] # "ABSENT"
      BY <1>0, <1>16, <2>1 DEF ClaimConsolidation, CompleteConsolidation, ConsolidationError, TypeOK
    <2> QED
      BY <1>16, <2>2, QuietImplements
      DEF ClaimConsolidation, CompleteConsolidation, ConsolidationError, rootVars, childVars
  <1>17. ASSUME NEW c \in Consols, CloseRoot(c)
        PROVE  Implements
    <2>1. consol[c] # "ABSENT" /\ Gathered
      BY <1>17 DEF CloseRoot, IInv, ClosingIsCompleted, Answering, Consolidating
    <2>2. StageOf \in {"answering", "answered"} /\ StageOf' = "answered"
      BY <1>0, <1>17, <2>1, StageValues DEF StageTable, CloseRoot, Gathered
    <2>3. UNCHANGED Pending
      BY <1>17 DEF CloseRoot, Pending, childVars
    <2> QED
      BY <2>2, <2>3 DEF Pending, TheAnswer!AnswerNext, TheAnswer!answerVars, TheAnswer!Answer
  <1>18. ASSUME NEW c \in Consols, CutClosing(c)
        PROVE  Implements
    BY <1>18, QuietImplements DEF CutClosing, rootVars, childVars
  <1>19. CASE UNCHANGED vars
    BY <1>19, QuietImplements DEF vars, rootVars, childVars, consolVars
  <1> QED
    BY <1>1, <1>2, <1>3, <1>4, <1>5, <1>6, <1>7, <1>8, <1>9, <1>10, <1>11, <1>12, <1>13,
       <1>14, <1>15, <1>16, <1>17, <1>18, <1>19
    DEF Next, Coordination, Others, CoordinatorStep, ChildStep, TaskStep, ConsolidationStep

\* The coordination of a mission, with retries, deaths, parallel supervisors and
\* late promotions, implements MissionAnswer: work is delegated while the mission
\* is open, and its answer is prepared when nothing that was delegated is pending.
THEOREM TreeImplementsAnswer ==
  ASSUME NobodyRobs
  PROVE  Spec => ImplementsAnswer
  <1>1. Init => TheAnswer!AnswerInit
    BY DEF Init, StageOf, Open, TheAnswer!AnswerInit
  <1> QED
    BY InvInit, InvStep, AnswerStep, <1>1, PTL DEF Spec, ImplementsAnswer, TheAnswer!AnswerSpec

=============================================================================
