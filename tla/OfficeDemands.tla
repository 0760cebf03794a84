--------------------------- MODULE OfficeDemands ---------------------------
(***************************************************************************)
(* The demands of the automation office: interpretation, approval,         *)
(* execution, and the lazy copy of the mission's end (demand.service.ts,   *)
(* demand-interpreter.ts, approval.service.ts, submit-demand-to-core.ts).  *)
(* Each request is a few statements without a transaction.                 *)
(***************************************************************************)
EXTENDS WorkGovernance

CONSTANT Critical  \* the demands whose risk is CRITICAL

ASSUME DemandAssumption == Critical \subseteq Demands

VARIABLES
  demand,    \* the OfficeDemand rows
  approval,  \* status of the OfficeApprovalRequest of a demand
  granted    \* history: demands that were approved at some time

DemandInit ==
  /\ demand = [d \in Demands |-> [status |-> "NONE", mission |-> 0]]
  /\ approval = [d \in Demands |-> "NONE"]
  /\ granted = {}

-----------------------------------------------------------------------------
(* interpretDemand: the row, its plan, and the request for approval *)

Interpret(h, d) ==
  /\ Free(h)
  /\ d \in inputs \cap Demands
  /\ inputs' = inputs \ {d}
  /\ demand' = [demand EXCEPT ![d].status = "INTERPRETING"]
  /\ Begin(h, At("plan", d))
  /\ UNCHANGED <<missions, ledger, dropped, events, cycleVars, approval, granted>>

\* resolveTargetStatus: READY needs AUTONOMOUS, which resolveAutonomy never gives.
Plan(h) ==
  LET d == handler[h].work IN
  /\ handler[h].pc = "plan"
  /\ demand' = [demand EXCEPT ![d].status =
       IF d \in Critical THEN "AWAITING_APPROVAL" ELSE "PLANNED"]
  /\ IF d \in Critical THEN GoTo(h, "ask") ELSE Return(h)
  /\ UNCHANGED <<inputs, missions, ledger, dropped, events, cycleVars, approval, granted>>

Ask(h) ==
  /\ handler[h].pc = "ask"
  /\ approval' = [approval EXCEPT ![handler[h].work] = "PENDING"]
  /\ Return(h)
  /\ UNCHANGED <<inputs, missions, ledger, dropped, events, cycleVars, demand, granted>>

-----------------------------------------------------------------------------
(* resolveApprovalAction: a check, and two updates that do not repeat it *)

DemandStatusOf == [APPROVED |-> "READY", REJECTED |-> "PAUSED", MODIFIED |-> "PLANNED"]

Resolve(h, d, verdict) ==
  /\ Free(h)
  /\ approval[d] = "PENDING"
  /\ Begin(h, [At("decide", d) EXCEPT !.verdict = verdict])
  /\ UNCHANGED <<inputs, missions, ledger, dropped, events, cycleVars, demand, approval, granted>>

Decide(h) ==
  LET d == handler[h].work IN
  /\ handler[h].pc = "decide"
  /\ approval' = [approval EXCEPT ![d] = handler[h].verdict]
  /\ granted' = IF handler[h].verdict = "APPROVED" THEN granted \cup {d} ELSE granted
  /\ GoTo(h, "apply")
  /\ UNCHANGED <<inputs, missions, ledger, dropped, events, cycleVars, demand>>

Apply(h) ==
  /\ handler[h].pc = "apply"
  /\ demand' = [demand EXCEPT ![handler[h].work].status = DemandStatusOf[handler[h].verdict]]
  /\ Return(h)
  /\ UNCHANGED <<inputs, missions, ledger, dropped, events, cycleVars, approval, granted>>

-----------------------------------------------------------------------------
(* executeDemand, reconcileDemandFromMission *)

\* OneMissionPerWork, when a demand that is EXECUTING may be executed.
FaultyMayExecute(d) ==
  \/ demand[d].status \in {"READY", "EXECUTING"}
  \/ demand[d].status = "AWAITING_APPROVAL" /\ approval[d] = "APPROVED"

\* DemandNeedsApproval, when the approvals are not looked at.
FaultyCanExecute(d) == demand[d].status \in {"READY", "AWAITING_APPROVAL"}

CanExecute(d) ==
  \/ demand[d].status = "READY"
  \/ demand[d].status = "AWAITING_APPROVAL" /\ approval[d] = "APPROVED"

Execute(h, d) ==
  /\ Free(h)
  /\ CanExecute(d)
  /\ Begin(h, At("admit", d))
  /\ UNCHANGED <<inputs, missions, ledger, dropped, events, cycleVars, demand, approval, granted>>

\* The update after submitDemandToCore, whatever the row has become.
Link(h) ==
  /\ handler[h].pc = "settle"
  /\ handler[h].work \in Demands
  /\ demand' = [demand EXCEPT ![handler[h].work] =
       [status |-> "EXECUTING", mission |-> handler[h].mission]]
  /\ Return(h)
  /\ UNCHANGED <<inputs, missions, ledger, dropped, events, cycleVars, approval, granted>>

\* Whoever reads a demand compares it with its mission ...
Reconcile(h, d) ==
  /\ Free(h)
  /\ demand[d].status = "EXECUTING"
  /\ missions[demand[d].mission].outcome # "OPEN"
  /\ handler' = [handler EXCEPT ![h] = [At("close", d) EXCEPT !.mission = demand[d].mission]]
  /\ UNCHANGED <<inputs, missions, ledger, crossed, dropped, events, cycleVars, demand, approval, granted>>

\* DemandReflectsMission, when the update does not name the mission.
FaultyClosable(h) == demand[handler[h].work].status = "EXECUTING"

\* The row is still EXECUTING, and its mission is the one that h has seen.
Closable(h) ==
  LET row == demand[handler[h].work] IN
  row.status = "EXECUTING" /\ row.mission = handler[h].mission

Closing(outcome) == IF outcome = "FAILED" THEN "FAILED" ELSE "COMPLETED"

\* ... and closes it, if nobody else wrote it in between.
Close(h) ==
  /\ handler[h].pc = "close"
  /\ demand' = IF Closable(h)
                 THEN [demand EXCEPT ![handler[h].work].status =
                         Closing(missions[handler[h].mission].outcome)]
                 ELSE demand
  /\ Return(h)
  /\ UNCHANGED <<inputs, missions, ledger, dropped, events, cycleVars, approval, granted>>

DemandStep(h) == Plan(h) \/ Ask(h) \/ Decide(h) \/ Apply(h) \/ Link(h) \/ Close(h)
=============================================================================
