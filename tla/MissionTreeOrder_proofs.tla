---------------------- MODULE MissionTreeOrder_proofs ----------------------
(***************************************************************************)
(* That children start in the order of the plan, for any specializations,  *)
(* plans, edges, runs and supervisors, whatever fails, is cut or robbed:   *)
(* only an overlap with a coordinator that writes (run tree_overlap), or   *)
(* the death of one, may break it.  And that the root, with every hazard,  *)
(* is owned as MissionOwnership says.                                      *)
(***************************************************************************)
EXTENDS MissionTree_proofs

Undisturbed == "overlap" \notin Hazards /\ "abort" \notin Hazards

(***************************************************************************)
(* The inductive invariant.  A child becomes READY when it is created      *)
(* without predecessors, or when somebody has read that those it depends   *)
(* on COMPLETED.  That these are all of its plan's predecessors is what    *)
(* Linked says: whoever reads does so when no coordinator writes.          *)
(***************************************************************************)

\* Runs begin one after the other; before one delegates it has no plan and no children.
Unstarted ==
  \A a \in Runs :
    /\ a > rootAttempt => coord[a].pc = "none"
    /\ coord[a].pc \in {"none", "deciding"} =>
         coord[a].plan = {} /\ \A s \in Specs : child[<<a, s>>] = "ABSENT"

\* A run that is over recorded every dependency of its plan.
Linked ==
  \A a \in Runs : coord[a].pc = "ended" =>
    \A e \in PlanEdges(coord[a].plan) : EdgeRow(a, e) \in deps

\* Only children depend on something.
DependentsExist == \A d \in deps : child[d[1]] # "ABSENT"

PredsDone(m) == \A q \in PlanPreds(m) : child[q] = "COMPLETED"

\* Whoever promotes a child has seen its predecessors COMPLETED.
PromotesDone ==
  \A p \in Rows \cup Supervisors :
    /\ task[p].todo \subseteq Children
    /\ task[p].pc = "promoting" => task[p].pick \in Children /\ PredsDone(task[p].pick)

ReadyIsDone == \A m \in Children : ready[m] => PredsDone(m)

OInv ==
  /\ TypeOK /\ Unstarted /\ Linked /\ DependentsExist
  /\ PromotesDone /\ ReadyIsDone /\ DagOrder

-----------------------------------------------------------------------------
(* What the steps have in common *)

\* Children are never forgotten, and COMPLETED is final.
Lasting ==
  \A m \in Rows : /\ child[m] # "ABSENT" => child'[m] # "ABSENT"
                  /\ child[m] = "COMPLETED" => child'[m] = "COMPLETED"

SamePlans == \A a \in Runs : coord'[a].plan = coord[a].plan

\* The predecessors of a child are rows of the same run.
LEMMA PredRows == \A m \in Rows : PlanPreds(m) \subseteq Rows
  <1> SUFFICES ASSUME NEW m \in Rows, NEW e \in Edges PROVE <<m[1], e[1]>> \in Rows
    BY DEF PlanPreds, PlanEdges
  <1>1. m[1] \in Runs /\ e[1] \in Specs
    BY TreeAssumption DEF Rows
  <1> QED
    BY <1>1 DEF Rows

LEMMA SamePreds ==
  ASSUME SamePlans, NEW m \in Rows
  PROVE  PlanPreds(m)' = PlanPreds(m)
  <1>1. m[1] \in Runs
    BY DEF Rows
  <1> QED
    BY <1>1 DEF SamePlans, PlanPreds, PlanEdges

\* What is done stays done while the plans stay.
LEMMA DoneStays ==
  ASSUME SamePlans, Lasting, NEW m \in Rows, PredsDone(m)
  PROVE  PredsDone(m)'
  <1>1. PlanPreds(m)' = PlanPreds(m) /\ PlanPreds(m) \subseteq Rows
    BY SamePreds, PredRows
  <1> QED
    BY <1>1 DEF Lasting, PredsDone

\* Promoters that go on as they were.
LEMMA PromotersStay ==
  ASSUME PromotesDone, SamePlans, Lasting, UNCHANGED task
  PROVE  PromotesDone'
  <1>1. Children \subseteq Children'
    BY DEF Children, Lasting
  <1>2. ASSUME NEW p \in Rows \cup Supervisors, task[p].pc = "promoting"
        PROVE  task[p].pick \in Children /\ PredsDone(task[p].pick)'
    <2>1. PICK m \in Rows : m = task[p].pick
      BY <1>2 DEF PromotesDone, Children
    <2>2. m \in Children /\ PredsDone(m)
      BY <1>2, <2>1 DEF PromotesDone
    <2>3. PredsDone(m)'
      BY <2>2, DoneStays
    <2> QED
      BY <2>1, <2>2, <2>3
  <1> QED
    BY <1>1, <1>2 DEF PromotesDone

\* A step of the coordinators that leaves the children as they are.
LEMMA CoordinatorKeeps ==
  ASSUME OInv, TypeOK', SamePlans, UNCHANGED <<child, task>>,
         \A m \in Rows : ready'[m] => ready[m],
         Unstarted', Linked', DependentsExist'
  PROVE  OInv'
  <1>1. Lasting
    BY DEF Lasting
  <1>2. PromotesDone'
    BY <1>1, PromotersStay DEF OInv
  <1>3. Children' = Children /\ Children \subseteq Rows
    BY DEF Children
  <1>4. ReadyIsDone'
    BY <1>1, <1>3, DoneStays DEF OInv, ReadyIsDone
  <1>5. DagOrder'
    BY <1>1, <1>3, DoneStays DEF OInv, DagOrder, PredsDone
  <1> QED
    BY <1>2, <1>4, <1>5 DEF OInv

\* A step of the others: the coordinators and their dependencies stay.
LEMMA OthersKeep ==
  ASSUME OInv, TypeOK', Lasting, UNCHANGED <<rootAttempt, coord, deps>>,
         \A m \in Rows : child[m] = "ABSENT" => child'[m] = "ABSENT",
         PromotesDone', ReadyIsDone', DagOrder'
  PROVE  OInv'
  <1>1. Unstarted'
    BY DEF OInv, Unstarted, Rows
  <1>2. Linked'
    BY DEF OInv, Linked
  <1>3. DependentsExist'
    BY DEF OInv, DependentsExist, TypeOK, Lasting
  <1> QED
    BY <1>1, <1>2, <1>3 DEF OInv

-----------------------------------------------------------------------------
(* The coordinators *)

LEMMA ClaimRootOrder ==
  ASSUME OInv, TypeOK', ClaimRoot
  PROVE  OInv'
  <1> DEFINE n == rootAttempt + 1
  <1>1. n \in Runs /\ rootAttempt' = n /\ n > rootAttempt /\ coord[n].pc = "none"
    BY TreeAssumption DEF ClaimRoot, OInv, TypeOK, Runs, Unstarted
  <1>2. \A a \in Runs : /\ coord'[a].plan = coord[a].plan
                        /\ coord'[a].pc = IF a = n THEN "deciding" ELSE coord[a].pc
    BY <1>1 DEF ClaimRoot, OInv, TypeOK
  <1>3. SamePlans /\ Linked'
    BY <1>2 DEF SamePlans, OInv, Linked, ClaimRoot, childVars, PlanEdges
  <1>4. Unstarted'
    <2>1. \A a \in Runs : a > n => a > rootAttempt /\ a # n
      BY TreeAssumption DEF OInv, TypeOK, Runs
    <2>2. UNCHANGED child
      BY DEF ClaimRoot, childVars
    <2> HIDE DEF n
    <2> QED
      BY <1>1, <1>2, <2>1, <2>2 DEF OInv, Unstarted
  <1>5. DependentsExist'
    BY DEF OInv, DependentsExist, ClaimRoot, childVars
  <1> QED
    BY <1>3, <1>4, <1>5, CoordinatorKeeps DEF ClaimRoot, childVars

LEMMA DelegateOrder ==
  ASSUME OInv, TypeOK', NEW a \in Runs, NEW P \in Plans, Delegate(a, P)
  PROVE  OInv'
  <1>1. /\ UNCHANGED <<rootAttempt, child, ready, deps, task>>
        /\ coord[a].pc = "deciding" /\ coord'[a].pc = "writing"
        /\ \A b \in Runs \ {a} : coord'[b] = coord[b]
    BY DEF Delegate, childVars, OInv, TypeOK
  <1>2. Children' = Children /\ \A m \in Children : m \in Rows /\ m[1] \in Runs \ {a}
    BY <1>1 DEF Children, Rows, OInv, Unstarted
  <1>3. \A m \in Children : PlanPreds(m)' = PlanPreds(m)
    BY <1>1, <1>2 DEF PlanPreds, PlanEdges
  <1>4. \A m \in Children : PredsDone(m) => PredsDone(m)'
    BY <1>1, <1>3 DEF PredsDone
  <1>5. Unstarted' /\ Linked' /\ DependentsExist'
    BY <1>1 DEF OInv, Unstarted, Linked, DependentsExist, PlanEdges
  <1>6. PromotesDone' /\ ReadyIsDone'
    BY <1>1, <1>2, <1>4 DEF OInv, PromotesDone, ReadyIsDone
  <1>7. DagOrder'
    BY <1>1, <1>2, <1>3 DEF OInv, DagOrder
  <1> QED
    BY <1>5, <1>6, <1>7 DEF OInv

\* The run ends; what it leaves in the root does not matter here.
LEMMA EndOrder ==
  ASSUME OInv, TypeOK', NEW a \in Runs, NEW s, EndRun(a, s), coord[a].pc # "none",
         UNCHANGED <<childVars, task>>,
         \A e \in PlanEdges(coord[a].plan) : EdgeRow(a, e) \in deps
  PROVE  OInv'
  <1>1. /\ UNCHANGED <<rootAttempt, child, ready, deps>>
        /\ \A b \in Runs : /\ coord'[b].plan = coord[b].plan
                           /\ coord'[b].pc = IF b = a THEN "ended" ELSE coord[b].pc
    BY DEF EndRun, childVars, OInv, TypeOK
  <1>2. SamePlans
    BY <1>1 DEF SamePlans
  <1>3. Unstarted'
    BY <1>1 DEF OInv, Unstarted
  <1>4. Linked' /\ DependentsExist'
    BY <1>1 DEF OInv, Linked, DependentsExist, PlanEdges
  <1> QED
    BY <1>1, <1>2, <1>3, <1>4, CoordinatorKeeps

LEMMA FinishOrder ==
  ASSUME OInv, TypeOK', NEW a \in Runs, FinishWithoutDelegation(a)
  PROVE  OInv'
  <1>1. PlanEdges(coord[a].plan) = {}
    BY DEF FinishWithoutDelegation, OInv, Unstarted, PlanEdges
  <1> QED
    BY <1>1, EndOrder DEF FinishWithoutDelegation

LEMMA MarkWaitingOrder ==
  ASSUME OInv, TypeOK', NEW a \in Runs, MarkWaiting(a)
  PROVE  OInv'
  BY EndOrder DEF MarkWaiting

LEMMA LinkEdgeOrder ==
  ASSUME OInv, TypeOK', NEW a \in Runs, NEW e \in Edges, LinkEdge(a, e)
  PROVE  OInv'
  <1>1. /\ UNCHANGED <<rootAttempt, child, ready, task>>
        /\ coord[a].pc = "writing" /\ deps' = deps \cup {EdgeRow(a, e)}
        /\ \A b \in Runs : /\ coord'[b].plan = coord[b].plan
                           /\ coord'[b].pc = IF b = a THEN "blocking" ELSE coord[b].pc
    BY DEF LinkEdge, OInv, TypeOK
  <1>2. child[EdgeRow(a, e)[1]] # "ABSENT"
    BY DEF LinkEdge, EdgeRow, AllEnqueued, PlanEdges
  <1>3. SamePlans /\ Unstarted'
    BY <1>1 DEF SamePlans, OInv, Unstarted
  <1>4. Linked'
    BY <1>1 DEF OInv, Linked, PlanEdges
  <1>5. DependentsExist'
    BY <1>1, <1>2 DEF OInv, DependentsExist
  <1> QED
    BY <1>1, <1>3, <1>4, <1>5, CoordinatorKeeps

LEMMA BlockChildOrder ==
  ASSUME OInv, TypeOK', NEW a \in Runs, BlockChild(a)
  PROVE  OInv'
  <1>1. /\ UNCHANGED <<rootAttempt, child, deps, task>>
        /\ coord[a].pc = "blocking" /\ ready' = [ready EXCEPT ![coord[a].at] = FALSE]
        /\ \A b \in Runs : /\ coord'[b].plan = coord[b].plan
                           /\ coord'[b].pc = IF b = a THEN "writing" ELSE coord[b].pc
    BY DEF BlockChild, OInv, TypeOK
  <1>2. SamePlans /\ Unstarted'
    BY <1>1 DEF SamePlans, OInv, Unstarted
  <1>3. Linked' /\ DependentsExist'
    BY <1>1 DEF OInv, Linked, DependentsExist, PlanEdges
  <1>4. \A m \in Rows : ready'[m] => ready[m]
    BY <1>1 DEF OInv, TypeOK
  <1> QED
    BY <1>1, <1>2, <1>3, <1>4, CoordinatorKeeps

LEMMA RobRunOrder ==
  ASSUME OInv, TypeOK', RobRun
  PROVE  OInv'
  <1>1. UNCHANGED <<rootAttempt, coord, child, ready, deps, task>>
    BY DEF RobRun, childVars
  <1>2. SamePlans /\ Unstarted' /\ Linked' /\ DependentsExist'
    BY <1>1 DEF SamePlans, OInv, Unstarted, Linked, DependentsExist, PlanEdges
  <1> QED
    BY <1>1, <1>2, CoordinatorKeeps

\* A new child, READY only if its plan gives it no predecessors.
LEMMA EnqueueChildOrder ==
  ASSUME OInv, TypeOK', NEW a \in Runs, NEW s \in Specs, EnqueueChild(a, s)
  PROVE  OInv'
  <1> DEFINE n == <<a, s>>
  <1>1. /\ UNCHANGED <<rootAttempt, coord, deps, task>>
        /\ coord[a].pc = "writing" /\ n \in Rows /\ child[n] = "ABSENT"
        /\ child'[n] = "QUEUED" /\ (ready'[n] => PlanPreds(n) = {})
        /\ \A m \in Rows \ {n} : child'[m] = child[m] /\ ready'[m] = ready[m]
    BY RowTypes DEF EnqueueChild, rootVars, OInv, TypeOK
  <1> HIDE DEF n
  <1>2. SamePlans /\ Lasting
    BY <1>1 DEF SamePlans, Lasting
  <1>3. Children' = Children \cup {n} /\ n \notin Children /\ Children \subseteq Rows
    BY <1>1 DEF Children
  <1>4. Unstarted'
    <2>1. \A b \in Runs : coord[b].pc \in {"none", "deciding"} =>
            b # a /\ \A t \in Specs : <<b, t>> \in Rows \ {n}
      BY <1>1 DEF n, Rows
    <2> QED
      BY <1>1, <2>1 DEF OInv, Unstarted
  <1>5. Linked' /\ DependentsExist'
    BY <1>1, <1>2 DEF OInv, Linked, DependentsExist, PlanEdges, TypeOK, Lasting
  <1>6. PromotesDone'
    BY <1>1, <1>2, PromotersStay DEF OInv
  <1>7. ReadyIsDone'
    <2>1. ASSUME NEW m \in Children, ready'[m]
          PROVE  PredsDone(m)'
      BY <1>1, <1>2, <1>3, <2>1, DoneStays DEF OInv, ReadyIsDone
    <2>2. ready'[n] => PredsDone(n)'
      BY <1>1, <1>2, SamePreds DEF PredsDone
    <2> QED
      BY <1>3, <2>1, <2>2 DEF ReadyIsDone
  <1>8. DagOrder'
    <2>1. \A m \in Children : child[m] # "QUEUED" => PredsDone(m)
      BY DEF OInv, DagOrder, PredsDone
    <2>2. \A m \in Children : child'[m] # "QUEUED" => PredsDone(m)'
      BY <1>1, <1>2, <1>3, <2>1, DoneStays
    <2> QED
      BY <1>1, <1>3, <2>2 DEF DagOrder, PredsDone
  <1> QED
    BY <1>4, <1>5, <1>6, <1>7, <1>8 DEF OInv

-----------------------------------------------------------------------------
(* The children *)

\* A child moves on, as far as its predecessors allow.
LEMMA ChildKeeps ==
  ASSUME OInv, TypeOK', NEW n \in Rows, child[n] \in {"QUEUED", "RUNNING"},
         UNCHANGED <<rootAttempt, coord, ready, deps>>, PromotesDone',
         \A m \in Rows \ {n} : child'[m] = child[m],
         child'[n] # "ABSENT", child'[n] # "QUEUED" => PredsDone(n)
  PROVE  OInv'
  <1>1. Lasting /\ SamePlans
    BY DEF Lasting, SamePlans
  <1>2. Children' = Children /\ Children \subseteq Rows
    BY DEF Children
  <1>3. ReadyIsDone'
    BY <1>1, <1>2, DoneStays DEF OInv, ReadyIsDone
  <1>4. DagOrder'
    <2>1. \A m \in Children : child'[m] # "QUEUED" => PredsDone(m)
      BY DEF OInv, DagOrder, PredsDone, Children
    <2>2. \A m \in Children : child'[m] # "QUEUED" => PredsDone(m)'
      BY <1>1, <1>2, <2>1, DoneStays
    <2> QED
      BY <1>2, <2>2 DEF DagOrder, PredsDone
  <1> QED
    BY <1>1, <1>3, <1>4, OthersKeep

LEMMA ClaimChildOrder ==
  ASSUME OInv, TypeOK', NEW m \in Rows, ClaimChild(m)
  PROVE  OInv'
  <1>1. /\ UNCHANGED <<rootAttempt, coord, ready, deps, task>>
        /\ child[m] = "QUEUED" /\ child'[m] = "RUNNING"
        /\ \A n \in Rows \ {m} : child'[n] = child[n]
    BY DEF ClaimChild, rootVars, OInv, TypeOK
  <1>2. PredsDone(m)
    BY DEF ClaimChild, OInv, ReadyIsDone, Children
  <1>3. PromotesDone'
    <2>1. Lasting /\ SamePlans
      BY <1>1 DEF Lasting, SamePlans
    <2> QED
      BY <1>1, <2>1, PromotersStay DEF OInv
  <1> QED
    BY <1>1, <1>2, <1>3, ChildKeeps

LEMMA CompleteChildOrder ==
  ASSUME OInv, TypeOK', NEW m \in Rows, CompleteChild(m)
  PROVE  OInv'
  <1>1. /\ UNCHANGED <<rootAttempt, coord, ready, deps>>
        /\ child[m] = "RUNNING" /\ child'[m] = "COMPLETED"
        /\ \A n \in Rows \ {m} : child'[n] = child[n]
    BY DEF CompleteChild, rootVars, OInv, TypeOK
  <1>2. PredsDone(m)
    BY <1>1 DEF OInv, DagOrder, Children, PredsDone
  <1>3. PromotesDone'
    <2>1. Lasting /\ SamePlans /\ Children' = Children
      BY <1>1 DEF Lasting, SamePlans, Children
    <2>2. \A p \in Rows \cup Supervisors :
            /\ task'[p].todo = task[p].todo
            /\ task'[p].pc = "promoting" => task'[p] = task[p]
      BY DEF CompleteChild, Goto, OInv, TypeOK
    <2>3. ASSUME NEW p \in Rows \cup Supervisors, task[p].pc = "promoting"
          PROVE  \E n \in Children : n = task[p].pick /\ PredsDone(n)'
      <3>1. PICK n \in Children : n = task[p].pick /\ PredsDone(n)
        BY <2>3 DEF OInv, PromotesDone
      <3>2. PredsDone(n)'
        BY <2>1, <3>1, DoneStays DEF Children
      <3> QED
        BY <3>1, <3>2
    <2> QED
      BY <2>1, <2>2, <2>3 DEF OInv, PromotesDone
  <1> QED
    BY <1>1, <1>2, <1>3, ChildKeeps

LEMMA ChildErrorOrder ==
  ASSUME OInv, TypeOK', NEW m \in Rows, ChildError(m)
  PROVE  OInv'
  <1>1. /\ UNCHANGED <<rootAttempt, coord, ready, deps, task>>
        /\ child[m] = "RUNNING" /\ child'[m] # "ABSENT"
        /\ \A n \in Rows \ {m} : child'[n] = child[n]
    BY ErrorStatus DEF ChildError, rootVars, OInv, TypeOK
  <1>2. PredsDone(m)
    BY <1>1 DEF OInv, DagOrder, Children, PredsDone
  <1>3. PromotesDone'
    <2>1. Lasting /\ SamePlans
      BY <1>1 DEF Lasting, SamePlans
    <2> QED
      BY <1>1, <2>1, PromotersStay DEF OInv
  <1> QED
    BY <1>1, <1>2, <1>3, ChildKeeps

-----------------------------------------------------------------------------
(* Promotion, and the rest of the tasks *)

\* The task of p moves on and writes nothing.
LEMMA TaskKeeps ==
  ASSUME OInv, TypeOK', NEW p \in Rows \cup Supervisors,
         UNCHANGED <<rootAttempt, coord, child, ready, deps>>,
         \A q \in Rows \cup Supervisors : q # p => task'[q] = task[q],
         task'[p].todo \subseteq Children,
         task'[p].pc = "promoting" =>
           \E m \in Children : m = task'[p].pick /\ PredsDone(m)
  PROVE  OInv'
  <1>1. Lasting /\ SamePlans /\ Children' = Children
    BY DEF Lasting, SamePlans, Children
  <1>2. \A m \in Children : PredsDone(m) => PredsDone(m)'
    BY <1>1, DoneStays DEF Children
  <1>3. PromotesDone'
    BY <1>1, <1>2 DEF OInv, PromotesDone
  <1>4. ReadyIsDone' /\ DagOrder'
    BY <1>1, <1>2 DEF OInv, ReadyIsDone, DagOrder, PredsDone
  <1> QED
    BY <1>1, <1>3, <1>4, OthersKeep

\* What a task looks like after Consider and after Goto.
LEMMA Considered ==
  ASSUME TypeOK, NEW p \in Rows \cup Supervisors, NEW todo, Consider(p, todo)
  PROVE  /\ \A q \in Rows \cup Supervisors : q # p => task'[q] = task[q]
         /\ task'[p].todo = todo /\ task'[p].pc # "promoting"
  BY DEF TypeOK, Consider, AfterPromotion

LEMMA Gone ==
  ASSUME TypeOK, NEW p \in Rows \cup Supervisors, NEW pc, Goto(p, pc)
  PROVE  /\ \A q \in Rows \cup Supervisors : q # p => task'[q] = task[q]
         /\ task'[p].todo = task[p].todo /\ task'[p].pc = pc
  BY DEF TypeOK, Goto

LEMMA GotoKeeps ==
  ASSUME OInv, TypeOK', NEW p \in Rows \cup Supervisors, NEW pc, pc # "promoting", Goto(p, pc),
         UNCHANGED <<rootAttempt, coord, child, ready, deps>>
  PROVE  OInv'
  <1>1. task[p].todo \subseteq Children
    BY DEF OInv, PromotesDone
  <1> QED
    BY <1>1, Gone, TaskKeeps DEF OInv

LEMMA ReadCandidatesOrder ==
  ASSUME OInv, TypeOK', NEW p \in Rows \cup Supervisors, ReadCandidates(p)
  PROVE  OInv'
  <1> DEFINE todo == IF p \in Supervisors THEN {m \in Rows : child[m] = "QUEUED" /\ ~ready[m]}
                                         ELSE {m \in Rows : p \in Preds(m)}
  <1>1. todo \subseteq Children
    <2>1. \A m \in Rows : Preds(m) # {} => child[m] # "ABSENT"
      BY DEF OInv, DependentsExist, Preds
    <2> QED
      BY <2>1 DEF Children
  <1>2. Consider(p, todo)
    BY DEF ReadCandidates
  <1> HIDE DEF todo
  <1> QED
    BY <1>1, <1>2, Considered, TaskKeeps DEF OInv, ReadCandidates, rootVars, childVars

\* When no coordinator writes, all the predecessors of a child are recorded.
LEMMA PredsAreRecorded ==
  ASSUME OInv, NobodyWrites, NEW m \in Children
  PROVE  PlanPreds(m) \subseteq Preds(m)
  <1>1. m \in Rows /\ m[1] \in Runs /\ m[2] \in Specs /\ m = <<m[1], m[2]>>
    BY DEF Children, Rows
  <1>2. coord[m[1]].pc = "ended"
    <2>1. coord[m[1]].pc \notin {"none", "deciding"}
      BY <1>1 DEF OInv, Unstarted, Children
    <2>2. coord[m[1]].pc \in {"none", "deciding", "writing", "blocking", "ended"}
      BY <1>1 DEF OInv, TypeOK
    <2> QED
      BY <1>1, <2>1, <2>2 DEF NobodyWrites
  <1>3. ASSUME NEW e \in PlanEdges(coord[m[1]].plan), e[2] = m[2]
        PROVE  <<m[1], e[1]>> \in Preds(m)
    <2>1. EdgeRow(m[1], e) \in deps
      BY <1>1, <1>2 DEF OInv, Linked
    <2>2. EdgeRow(m[1], e) = <<m, <<m[1], e[1]>>>>
      BY <1>1, <1>3 DEF EdgeRow
    <2>3. <<m[1], e[1]>> \in Rows
      BY <1>1, TreeAssumption DEF PlanEdges, Rows
    <2> QED
      BY <2>1, <2>2, <2>3 DEF Preds
  <1> QED
    BY <1>3 DEF PlanPreds

LEMMA JudgeOrder ==
  ASSUME OInv, TypeOK', NobodyWrites,
         NEW p \in Rows \cup Supervisors, NEW m \in task[p].todo, Judge(p, m)
  PROVE  OInv'
  <1>1. m \in Children /\ task[p].todo \subseteq Children
    BY DEF OInv, PromotesDone
  <1>2. UNCHANGED <<rootAttempt, coord, child, ready, deps>>
    BY DEF Judge, rootVars, childVars
  <1>3. CASE \A q \in Preds(m) : child[q] = "COMPLETED"
    <2>1. PredsDone(m)
      BY <1>1, <1>3, PredsAreRecorded DEF PredsDone
    <2>2. /\ \A q \in Rows \cup Supervisors : q # p => task'[q] = task[q]
          /\ task'[p].todo \subseteq Children /\ task'[p].pick = m
      BY <1>1, <1>3 DEF Judge, OInv, TypeOK
    <2> QED
      BY <1>1, <1>2, <2>1, <2>2, TaskKeeps
  <1>4. CASE ~\A q \in Preds(m) : child[q] = "COMPLETED"
    <2>1. Consider(p, task[p].todo \ {m})
      BY <1>4 DEF Judge
    <2> QED
      BY <1>1, <1>2, <2>1, Considered, TaskKeeps DEF OInv
  <1> QED
    BY <1>3, <1>4

LEMMA PromoteOrder ==
  ASSUME OInv, TypeOK', NEW p \in Rows \cup Supervisors, Promote(p)
  PROVE  OInv'
  <1>1. PICK n \in Children : n = task[p].pick /\ PredsDone(n)
    BY DEF Promote, OInv, PromotesDone
  <1>2. /\ UNCHANGED <<rootAttempt, coord, child, deps>>
        /\ \A m \in Rows \ {n} : ready'[m] = ready[m]
        /\ Consider(p, task[p].todo)
    BY <1>1 DEF Promote, rootVars, OInv, TypeOK
  <1>3. Lasting /\ SamePlans /\ Children' = Children /\ Children \subseteq Rows
    BY <1>2 DEF Lasting, SamePlans, Children
  <1>4. \A m \in Children : PredsDone(m) => PredsDone(m)'
    BY <1>3, DoneStays
  <1>5. PromotesDone'
    <2>1. /\ \A q \in Rows \cup Supervisors : q # p => task'[q] = task[q]
          /\ task'[p].todo = task[p].todo /\ task'[p].pc # "promoting"
      BY <1>2, Considered DEF OInv
    <2> QED
      BY <1>3, <1>4, <2>1 DEF OInv, PromotesDone
  <1>6. ReadyIsDone'
    BY <1>1, <1>2, <1>3, <1>4 DEF OInv, ReadyIsDone
  <1>7. DagOrder'
    BY <1>2, <1>3, <1>4 DEF OInv, DagOrder, PredsDone
  <1> QED
    BY <1>2, <1>3, <1>5, <1>6, <1>7, OthersKeep

\* The steps that only read, or that start, end or cut a task.
LEMMA OtherTaskOrder ==
  ASSUME OInv, TypeOK', NEW p \in Rows \cup Supervisors,
         \/ ReadParent(p) \/ ReadExisting(p) \/ EnqueueConsolidation(p)
         \/ StartCycle(p) \/ CutTask(p)
  PROVE  OInv'
  <1>1. UNCHANGED <<rootAttempt, coord, child, ready, deps>>
    BY DEF ReadParent, ReadExisting, EnqueueConsolidation, StartCycle, CutTask, rootVars, childVars
  <1>2. CASE CutTask(p)
    <2>1. /\ \A q \in Rows \cup Supervisors : q # p => task'[q] = task[q]
          /\ task'[p].todo = {} /\ task'[p].pc = "idle"
      BY <1>2 DEF CutTask, OInv, TypeOK
    <2> QED
      BY <1>1, <2>1, TaskKeeps
  <1>3. CASE ~CutTask(p)
    <2>1. \E pc \in TaskPc \ {"promoting"} : Goto(p, pc)
      BY <1>3 DEF ReadParent, ReadExisting, EnqueueConsolidation, StartCycle,
         AfterConsolidation, TaskPc
    <2> QED
      BY <1>1, <2>1, GotoKeeps
  <1> QED
    BY <1>2, <1>3

\* The consolidation does not touch the children.
LEMMA QuietKeeps ==
  ASSUME OInv, TypeOK', UNCHANGED <<rootAttempt, coord, child, ready, deps, task>>
  PROVE  OInv'
  <1>1. SamePlans /\ Unstarted' /\ Linked' /\ DependentsExist'
    BY DEF SamePlans, OInv, Unstarted, Linked, DependentsExist, PlanEdges
  <1> QED
    BY <1>1, CoordinatorKeeps

-----------------------------------------------------------------------------
(* The theorem *)

LEMMA OrderInit == Init => OInv
  <1> SUFFICES ASSUME Init PROVE OInv
    OBVIOUS
  <1>1. TypeOK
    BY TypeInit
  <1>2. Children = {} /\ deps = {}
    BY DEF Init, Children
  <1>3. Unstarted /\ Linked
    BY DEF Init, Unstarted, Linked, Rows
  <1>4. PromotesDone
    BY DEF Init, PromotesDone
  <1> QED
    BY <1>1, <1>2, <1>3, <1>4 DEF OInv, DependentsExist, ReadyIsDone, DagOrder

LEMMA OrderStep ==
  ASSUME Undisturbed
  PROVE  OInv /\ [Next]_vars => OInv'
  <1> SUFFICES ASSUME OInv, [Next]_vars PROVE OInv'
    OBVIOUS
  <1>0. TypeOK'
    BY TypeStep DEF OInv
  <1>1. CASE Coordination
    <2>1. ASSUME NEW a \in Runs, CoordinatorStep(a)
          PROVE  OInv'
      BY <1>0, <2>1, DelegateOrder, FinishOrder, EnqueueChildOrder, LinkEdgeOrder, BlockChildOrder,
         MarkWaitingOrder DEF CoordinatorStep
    <2>2. \A a \in Runs : ~AbortRun(a)
      BY DEF AbortRun, Hazard, Undisturbed
    <2> QED
      BY <1>0, <1>1, <2>1, <2>2, ClaimRootOrder, RobRunOrder DEF Coordination
  <1>2. CASE Others
    <2>0. NobodyWrites
      BY <1>2 DEF Others, Undisturbed
    <2>1. ASSUME NEW m \in Rows, ChildStep(m) \/ ChildError(m)
          PROVE  OInv'
      BY <1>0, <2>1, ClaimChildOrder, CompleteChildOrder, ChildErrorOrder DEF ChildStep
    <2>2. ASSUME NEW p \in Rows \cup Supervisors, TaskStep(p) \/ CutTask(p)
          PROVE  OInv'
      <3>1. ASSUME NEW m \in task[p].todo, Judge(p, m)
            PROVE  OInv'
        BY <1>0, <2>0, <3>1, JudgeOrder
      <3> QED
        BY <1>0, <2>2, <3>1, ReadCandidatesOrder, PromoteOrder, OtherTaskOrder DEF TaskStep
    <2>3. ASSUME NEW c \in Consols, ConsolidationStep(c) \/ CutClosing(c) \/ ConsolidationError(c)
          PROVE  OInv'
      <3>1. UNCHANGED <<rootAttempt, coord, child, ready, deps, task>>
        BY <2>3 DEF ConsolidationStep, ClaimConsolidation, CompleteConsolidation, CloseRoot,
           CutClosing, ConsolidationError, rootVars, childVars
      <3> QED
        BY <1>0, <3>1, QuietKeeps
    <2> QED
      BY <1>2, <2>1, <2>2, <2>3 DEF Others
  <1>3. CASE UNCHANGED vars
    BY <1>0, <1>3, QuietKeeps DEF vars, rootVars, childVars
  <1> QED
    BY <1>1, <1>2, <1>3 DEF Next

\* With children that fail, processes that are cut between any two statements and
\* coordinators that are robbed of the root, no child starts before those that its
\* plan puts before it COMPLETED, as long as no coordinator dies or meets others
\* while it writes its children and their dependencies.
THEOREM TreeRunsInOrder ==
  ASSUME Undisturbed
  PROVE  Spec => []DagOrder
  <1>1. OInv => DagOrder
    BY DEF OInv
  <1> QED
    BY OrderInit, OrderStep, <1>1, PTL DEF Spec

-----------------------------------------------------------------------------
(* The implementation of MissionOwnership, with every hazard *)

\* Whoever consolidates has seen the root waiting, and it is not taken from there
\* by anything but its answer; the runs begin one after the other.
Unheld == Consolidating => root \in {"WAITING", "COMPLETED"}
NewestRuns == \A a \in Runs : a > rootAttempt => coord[a].pc = "none"

OwnInv == TypeOK /\ NewestRuns /\ ClosingIsCompleted /\ Unheld

\* What leaves the runs alone, and does not begin to consolidate, keeps it.
LEMMA OwnKeeps ==
  ASSUME OwnInv, TypeOK', UNCHANGED <<rootAttempt, coord>>,
         root' = root \/ root' = "COMPLETED",
         ClosingIsCompleted', Consolidating' => Consolidating \/ root = "WAITING"
  PROVE  OwnInv'
  <1>1. NewestRuns' /\ Unheld'
    BY DEF OwnInv, NewestRuns, Unheld
  <1> QED
    BY <1>1 DEF OwnInv

\* A step of a coordinator keeps it.
LEMMA RunKeeps ==
  ASSUME OwnInv, TypeOK', NEW a \in Runs, coord[a].pc # "none",
         UNCHANGED <<rootAttempt, consolVars, task>>,
         \A b \in Runs : b # a => coord'[b] = coord[b],
         root' = root \/ root = "RUNNING"
  PROVE  OwnInv'
  <1>1. NewestRuns'
    BY DEF OwnInv, NewestRuns
  <1>2. ClosingIsCompleted' /\ (Consolidating' <=> Consolidating)
    BY DEF OwnInv, ClosingIsCompleted, Consolidating, consolVars
  <1>3. Unheld'
    BY <1>2 DEF OwnInv, Unheld
  <1> QED
    BY <1>1, <1>2, <1>3 DEF OwnInv

LEMMA OwnInit == Init => OwnInv
  <1> SUFFICES ASSUME Init PROVE OwnInv
    OBVIOUS
  <1>1. NewestRuns /\ ClosingIsCompleted /\ ~Consolidating
    BY DEF Init, NewestRuns, ClosingIsCompleted, Consolidating
  <1> QED
    BY <1>1, TypeInit DEF OwnInv, Unheld

\* Whatever goes wrong, the root is only answered from where its runs left it.
LEMMA OwnStep == OwnInv /\ [Next]_vars => OwnInv'
  <1> SUFFICES ASSUME OwnInv, [Next]_vars PROVE OwnInv'
    OBVIOUS
  <1>0. TypeOK /\ TypeOK'
    BY TypeStep DEF OwnInv
  <1>1. ASSUME ClaimRoot
        PROVE  OwnInv'
    <2>1. /\ rootAttempt' = rootAttempt + 1
          /\ \A b \in Runs : b # rootAttempt + 1 => coord'[b] = coord[b]
      BY <1>0, <1>1 DEF ClaimRoot, TypeOK
    <2>2. NewestRuns'
      BY <1>0, <2>1 DEF OwnInv, NewestRuns, TypeOK, Runs
    <2>3. ClosingIsCompleted' /\ Unheld'
      BY <1>1 DEF ClaimRoot, OwnInv, ClosingIsCompleted, Unheld, Consolidating, consolVars
    <2> QED
      BY <1>0, <2>2, <2>3 DEF OwnInv
  <1>2. ASSUME NEW a \in Runs, CoordinatorStep(a) \/ AbortRun(a)
        PROVE  OwnInv'
    <2>1. /\ coord[a].pc # "none" /\ UNCHANGED <<rootAttempt, consolVars, task>>
          /\ \A b \in Runs : b # a => coord'[b] = coord[b]
          /\ root' = root \/ root = "RUNNING"
      BY <1>0, <1>2
      DEF CoordinatorStep, Delegate, FinishWithoutDelegation, EnqueueChild, LinkEdge, BlockChild,
          MarkWaiting, AbortRun, EndRun, OwnsRoot, rootVars, TypeOK
    <2> QED
      BY <1>0, <2>1, RunKeeps
  <1>3. ASSUME RobRun
        PROVE  OwnInv'
    BY <1>0, <1>3
    DEF RobRun, OwnInv, NewestRuns, ClosingIsCompleted, Unheld, Consolidating, consolVars
  <1>4. ASSUME NEW m \in Rows, ChildStep(m) \/ ChildError(m)
        PROVE  OwnInv'
    <2>1. /\ UNCHANGED <<rootVars, consolVars>>
          /\ \A p \in Rows \cup Supervisors : task'[p].pc = "candidates" \/ task'[p].pc = task[p].pc
      BY <1>0, <1>4 DEF ChildStep, ClaimChild, CompleteChild, ChildError, Goto, TypeOK
    <2>2. ClosingIsCompleted' /\ (Consolidating' => Consolidating)
      BY <2>1 DEF OwnInv, ClosingIsCompleted, Consolidating, consolVars
    <2> QED
      BY <1>0, <2>1, <2>2, OwnKeeps DEF rootVars
  <1>5. ASSUME NEW p \in Rows \cup Supervisors, TaskStep(p) \/ CutTask(p)
        PROVE  OwnInv'
    <2>1. UNCHANGED <<rootVars, closing>>
      BY <1>5
      DEF TaskStep, CutTask, ReadCandidates, Judge, Promote, ReadParent, ReadExisting,
          EnqueueConsolidation, StartCycle, consolVars
    <2>2. CASE EnqueueConsolidation(p)
      <3>1. Consolidating
        BY <2>2 DEF EnqueueConsolidation, Consolidating
      <3>2. ClosingIsCompleted'
        BY <1>0, <2>2 DEF EnqueueConsolidation, OwnInv, ClosingIsCompleted, TypeOK
      <3> QED
        BY <1>0, <2>1, <3>1, <3>2, OwnKeeps DEF rootVars
    <2>3. CASE ~EnqueueConsolidation(p)
      <3>1. UNCHANGED consol
        BY <1>5, <2>3
        DEF TaskStep, CutTask, ReadCandidates, Judge, Promote, ReadParent, ReadExisting,
            StartCycle, consolVars
      <3>2. /\ \A q \in Rows \cup Supervisors : q # p => task'[q] = task[q]
            /\ \/ task'[p].pc \notin {"existing", "creating"}
               \/ task[p].pc = "existing" \/ root = "WAITING"
        <4>1. ASSUME \E todo : Consider(p, todo)
              PROVE  /\ \A q \in Rows \cup Supervisors : q # p => task'[q] = task[q]
                     /\ task'[p].pc \notin {"existing", "creating"}
          BY <1>0, <4>1 DEF Consider, AfterPromotion, TypeOK
        <4>2. ASSUME NEW m \in task[p].todo, Judge(p, m)
              PROVE  /\ \A q \in Rows \cup Supervisors : q # p => task'[q] = task[q]
                     /\ task'[p].pc \notin {"existing", "creating"}
          BY <1>0, <4>1, <4>2 DEF Judge, TypeOK
        <4>3. ASSUME ReadParent(p) \/ ReadExisting(p) \/ StartCycle(p)
              PROVE  /\ \A q \in Rows \cup Supervisors : q # p => task'[q] = task[q]
                     /\ \/ task'[p].pc \notin {"existing", "creating"}
                        \/ task[p].pc = "existing" \/ root = "WAITING"
          BY <1>0, <4>3, Gone DEF ReadParent, ReadExisting, StartCycle, AfterConsolidation
        <4>4. ASSUME CutTask(p)
              PROVE  /\ \A q \in Rows \cup Supervisors : q # p => task'[q] = task[q]
                     /\ task'[p].pc \notin {"existing", "creating"}
          BY <1>0, <4>4 DEF CutTask, TypeOK
        <4> QED
          BY <1>5, <2>3, <4>1, <4>2, <4>3, <4>4 DEF TaskStep, ReadCandidates, Promote
      <3>3. ClosingIsCompleted' /\ (Consolidating' => Consolidating \/ root = "WAITING")
        BY <2>1, <3>1, <3>2 DEF OwnInv, ClosingIsCompleted, Consolidating
      <3> QED
        BY <1>0, <2>1, <3>3, OwnKeeps DEF rootVars
    <2> QED
      BY <2>2, <2>3
  <1>6. ASSUME NEW c \in Consols, ConsolidationStep(c) \/ CutClosing(c) \/ ConsolidationError(c)
        PROVE  OwnInv'
    <2>1. UNCHANGED <<rootAttempt, coord, task>> /\ (root' = root \/ root' = "COMPLETED")
      BY <1>6
      DEF ConsolidationStep, ClaimConsolidation, CompleteConsolidation, CloseRoot, CutClosing,
          ConsolidationError, rootVars
    <2>2. \A d \in Consols : consol'[d] # "ABSENT" <=> consol[d] # "ABSENT"
      BY <1>0, <1>6, ErrorStatus
      DEF ConsolidationStep, ClaimConsolidation, CompleteConsolidation, CloseRoot, CutClosing,
          ConsolidationError, TypeOK
    <2>3. \A d \in closing' : d \in closing \/ consol[d] = "RUNNING"
      BY <1>6
      DEF ConsolidationStep, ClaimConsolidation, CompleteConsolidation, CloseRoot, CutClosing,
          ConsolidationError
    <2>4. ClosingIsCompleted' /\ (Consolidating' => Consolidating)
      BY <1>0, <2>1, <2>2, <2>3 DEF OwnInv, ClosingIsCompleted, Consolidating, TypeOK
    <2> QED
      BY <1>0, <2>1, <2>4, OwnKeeps
  <1>7. CASE UNCHANGED vars
    BY <1>0, <1>7, OwnKeeps
    DEF vars, rootVars, consolVars, OwnInv, ClosingIsCompleted, Consolidating
  <1> QED
    BY <1>1, <1>2, <1>3, <1>4, <1>5, <1>6, <1>7 DEF Next, Coordination, Others

\* The phase that each status of the root stands for, before and after a step.
PhaseTable ==
  /\ root = "QUEUED" => RootPhase = "free"
  /\ root = "RUNNING" => RootPhase = "held"
  /\ root = "WAITING" => RootPhase = "handed"
  /\ root = "COMPLETED" => RootPhase = "done"
  /\ root = "FAILED" => RootPhase = "dropped"

LEMMA PhaseValues == PhaseTable /\ PhaseTable'
  <1>1. PhaseTable
    BY DEF PhaseTable, RootPhase
  <1>2. PhaseTable'
    BY DEF PhaseTable, RootPhase
  <1> QED
    BY <1>1, <1>2

Phases == [m \in {"root"} |-> RootPhase]
Granted == [m \in {"root"} |-> rootAttempt]
Tickets == [a \in Runs |-> IF Busy(a) THEN [m |-> "root", n |-> a] ELSE [m |-> "nobody", n |-> 0]]

\* Steps that MissionOwnership does not see.
LEMMA SameOwnership ==
  ASSUME UNCHANGED <<root, rootAttempt>>, \A a \in Runs : Busy(a)' <=> Busy(a)
  PROVE  UNCHANGED RootOwnership!ownershipVars
  BY DEF RootOwnership!ownershipVars, RootPhase

\* A run that ends decides if it is the newest one of a root that is RUNNING; the
\* others only forget what they had claimed.
LEMMA EndOwns ==
  ASSUME TypeOK, NEW a \in Runs, Busy(a), NEW s \in {"COMPLETED", "WAITING", "FAILED", "QUEUED"},
         EndRun(a, s)
  PROVE  RootOwnership!OwnershipNext
  <1>1. /\ coord \in CoordSet /\ coord' = [coord EXCEPT ![a].pc = "ended"]
        /\ Granted' = Granted
    BY DEF TypeOK, CoordSet, RunPc, EndRun, Granted
  <1>2. Tickets' = [Tickets EXCEPT ![a] = [m |-> "nobody", n |-> 0]]
    <2>1. \A b \in Runs : Busy(b)' <=> Busy(b) /\ b # a
      BY <1>1 DEF Busy, CoordSet
    <2> QED
      BY <2>1 DEF Tickets
  <1>3. CASE OwnsRoot(a)
    <2>1. RootPhase = "held" /\ RootPhase' \in {"done", "handed", "free", "dropped"}
      BY <1>3, PhaseValues DEF PhaseTable, OwnsRoot, EndRun
    <2>2. Tickets[a] = [m |-> "root", n |-> Granted["root"]]
      BY <1>3 DEF Tickets, Granted, OwnsRoot
    <2>3. Phases["root"] = "held" /\ Phases' = [Phases EXCEPT !["root"] = RootPhase']
      BY <2>1 DEF Phases
    <2>4. RootOwnership!Decide(a, "root")
      BY <1>1, <1>2, <2>1, <2>2, <2>3
      DEF RootOwnership!Decide, RootOwnership!Newest, RootOwnership!NoTicket,
          Phases, Granted, Tickets
    <2> QED
      BY <2>4 DEF RootOwnership!OwnershipNext
  <1>4. CASE ~OwnsRoot(a)
    <2>1. Phases' = Phases
      BY <1>4 DEF EndRun, Phases, RootPhase
    <2>2. RootOwnership!Forget(a)
      BY <1>1, <1>2, <2>1
      DEF RootOwnership!Forget, RootOwnership!NoTicket, Phases, Granted, Tickets
    <2> QED
      BY <2>2 DEF RootOwnership!OwnershipNext
  <1> QED
    BY <1>3, <1>4

\* Every step is a step of MissionOwnership, or changes nothing that it sees.
LEMMA OwnershipStep ==
  OwnInv /\ [Next]_vars => [RootOwnership!OwnershipNext]_(RootOwnership!ownershipVars)
  <1> SUFFICES ASSUME OwnInv, [Next]_vars
               PROVE  [RootOwnership!OwnershipNext]_(RootOwnership!ownershipVars)
    OBVIOUS
  <1> DEFINE Implements == [RootOwnership!OwnershipNext]_(RootOwnership!ownershipVars)
  <1>0. TypeOK /\ coord \in CoordSet
    BY DEF OwnInv, TypeOK, CoordSet, RunPc
  <1>1. ASSUME ClaimRoot
        PROVE  Implements
    <2> DEFINE n == rootAttempt + 1
    <2>1. n \in Runs /\ rootAttempt' = n /\ coord' = [coord EXCEPT ![n].pc = "deciding"]
      BY <1>0, <1>1, TreeAssumption DEF ClaimRoot, TypeOK, Runs
    <2>2. Phases["root"] = "free" /\ Phases' = [Phases EXCEPT !["root"] = "held"]
      BY <1>1, PhaseValues DEF Phases, PhaseTable, ClaimRoot
    <2>3. Granted["root"] = rootAttempt /\ Granted' = [Granted EXCEPT !["root"] = @ + 1]
      BY <2>1 DEF Granted
    <2>4. Tickets' = [Tickets EXCEPT ![n] = [m |-> "root", n |-> Granted["root"] + 1]]
      <3>1. \A b \in Runs : Busy(b)' <=> Busy(b) \/ b = n
        BY <1>0, <2>1 DEF Busy, CoordSet
      <3> QED
        BY <2>1, <2>3, <3>1 DEF Tickets
    <2> HIDE DEF n
    <2>5. RootOwnership!Grant(n, "root")
      BY <2>2, <2>3, <2>4 DEF RootOwnership!Grant, Phases, Granted, Tickets
    <2> QED
      BY <2>1, <2>5 DEF RootOwnership!OwnershipNext
  <1>2. ASSUME NEW a \in Runs, FinishWithoutDelegation(a) \/ MarkWaiting(a)
        PROVE  Implements
    BY <1>0, <1>2, EndOwns DEF FinishWithoutDelegation, MarkWaiting, Busy
  <1>3. ASSUME NEW a \in Runs, AbortRun(a)
        PROVE  Implements
    <2>1. Busy(a)
      BY <1>3, <1>0 DEF AbortRun, Busy, CoordSet, RunPc
    <2>2. PICK s \in {"FAILED", "QUEUED"} : EndRun(a, s)
      BY <1>3 DEF AbortRun, AfterError
    <2> QED
      BY <1>0, <2>1, <2>2, EndOwns
  <1>4. ASSUME NEW a \in Runs,
               \/ \E P \in Plans : Delegate(a, P)
               \/ \E s \in Specs : EnqueueChild(a, s)
               \/ \E e \in Edges : LinkEdge(a, e)
               \/ BlockChild(a)
        PROVE  Implements
    <2>1. CASE \E s \in Specs : EnqueueChild(a, s)
      BY <2>1, SameOwnership DEF EnqueueChild, rootVars, Busy
    <2>2. CASE \E P \in Plans : Delegate(a, P)
      <3>1. UNCHANGED <<root, rootAttempt>> /\ \A b \in Runs : Busy(b)' <=> Busy(b)
        BY <1>0, <2>2 DEF Delegate, Busy, CoordSet
      <3> QED
        BY <3>1, SameOwnership
    <2>3. CASE (\E e \in Edges : LinkEdge(a, e)) \/ BlockChild(a)
      <3>1. UNCHANGED <<root, rootAttempt>> /\ \A b \in Runs : Busy(b)' <=> Busy(b)
        BY <1>0, <2>3 DEF LinkEdge, BlockChild, Busy, CoordSet
      <3> QED
        BY <3>1, SameOwnership
    <2> QED
      BY <1>4, <2>1, <2>2, <2>3
  <1>5. ASSUME RobRun
        PROVE  Implements
    <2>1. Phases["root"] = "held" /\ Phases' = [Phases EXCEPT !["root"] = "free"]
      BY <1>5, PhaseValues DEF Phases, PhaseTable, RobRun
    <2>2. Granted' = Granted /\ Tickets' = Tickets
      BY <1>5 DEF RobRun, Granted, Tickets, Busy
    <2>3. RootOwnership!Revoke("root")
      BY <2>1, <2>2 DEF RootOwnership!Revoke, Phases, Granted, Tickets
    <2> QED
      BY <2>3 DEF RootOwnership!OwnershipNext
  <1>6. ASSUME NEW c \in Consols, CloseRoot(c)
        PROVE  Implements
    <2>1. root \in {"WAITING", "COMPLETED"} /\ root' = "COMPLETED"
      BY <1>6 DEF CloseRoot, OwnInv, ClosingIsCompleted, Unheld, Consolidating, TypeOK
    <2>2. Granted' = Granted /\ Tickets' = Tickets
      BY <1>6 DEF CloseRoot, Granted, Tickets, Busy
    <2>3. CASE root = "WAITING"
      <3>1. Phases["root"] = "handed" /\ Phases' = [Phases EXCEPT !["root"] = "done"]
        BY <2>1, <2>3, PhaseValues DEF Phases, PhaseTable
      <3>2. RootOwnership!Administer("root")
        BY <2>2, <3>1 DEF RootOwnership!Administer, Phases, Granted, Tickets
      <3> QED
        BY <3>2 DEF RootOwnership!OwnershipNext
    <2>4. CASE root = "COMPLETED"
      BY <1>6, <2>1, <2>4, SameOwnership DEF CloseRoot, Busy
    <2> QED
      BY <2>1, <2>3, <2>4
  <1>7. ASSUME UNCHANGED rootVars
        PROVE  Implements
    BY <1>7, SameOwnership DEF rootVars, Busy
  <1>8. CASE Others
    <2>1. ASSUME NEW m \in Rows, ChildStep(m) \/ ChildError(m)
          PROVE  UNCHANGED rootVars
      BY <2>1 DEF ChildStep, ClaimChild, CompleteChild, ChildError
    <2>2. ASSUME NEW p \in Rows \cup Supervisors, TaskStep(p) \/ CutTask(p)
          PROVE  UNCHANGED rootVars
      BY <2>2
      DEF TaskStep, CutTask, ReadCandidates, Judge, Promote, ReadParent, ReadExisting,
          EnqueueConsolidation, StartCycle
    <2>3. ASSUME NEW c \in Consols,
                 \/ ClaimConsolidation(c) \/ CompleteConsolidation(c)
                 \/ CutClosing(c) \/ ConsolidationError(c)
          PROVE  UNCHANGED rootVars
      BY <2>3 DEF ClaimConsolidation, CompleteConsolidation, CutClosing, ConsolidationError
    <2> QED
      BY <1>6, <1>7, <1>8, <2>1, <2>2, <2>3 DEF Others, ConsolidationStep
  <1>9. CASE UNCHANGED vars
    BY <1>7, <1>9 DEF vars
  <1> QED
    BY <1>1, <1>2, <1>3, <1>4, <1>5, <1>8, <1>9 DEF Next, Coordination, CoordinatorStep

\* Whatever fails, is cut, robbed or overlaps, the root is owned as MissionOwnership
\* says: only the newest run of a RUNNING root settles it, although nothing else that
\* a run writes is fenced, and the update of completeConsolidation, which is not fenced
\* either, never takes the root from a run.
THEOREM TreeImplementsOwnership == Spec => ImplementsOwnership
  <1>1. Init => RootOwnership!OwnershipInit
    <2> SUFFICES ASSUME Init PROVE RootOwnership!OwnershipInit
      OBVIOUS
    <2>1. RootPhase = "free" /\ rootAttempt = 0 /\ \A a \in Runs : ~Busy(a)
      BY PhaseValues DEF Init, PhaseTable, Busy
    <2> QED
      BY <2>1 DEF RootOwnership!OwnershipInit, RootOwnership!NoTicket
  <1> QED
    BY OwnInit, OwnStep, OwnershipStep, <1>1, PTL
    DEF Spec, ImplementsOwnership, RootOwnership!OwnershipSpec

=============================================================================
