--------------------------- MODULE ScheduleRules ---------------------------
(***************************************************************************)
(* The recurring rules of mission-scheduler.ts: a supervisor's cycle lists *)
(* them, enqueues a mission for each one that is due, with dedupe, and     *)
(* then marks the rule.                                                    *)
(***************************************************************************)
EXTENDS WorkGovernance

VARIABLES
  due,    \* due[r]: intervalSec have passed since lastEnqueuedAt, or r was never enqueued
  rounds  \* history: how often r became due

RuleInit ==
  /\ due = [r \in Rules |-> r \in inputs]
  /\ rounds = [r \in Rules |-> IF due[r] THEN 1 ELSE 0]

Elapse(r) ==
  /\ Event
  /\ r \in inputs
  /\ ~due[r]
  /\ due' = [due EXCEPT ![r] = TRUE]
  /\ rounds' = [rounds EXCEPT ![r] = @ + 1]
  /\ UNCHANGED <<inputs, missions, ledger, handler, crossed, dropped, cycleVars>>

\* The list is read once in a cycle, after the signals.
List(h) ==
  LET listed == {r \in Rules : due[r]} IN
  /\ handler[h].pc = "idle"
  /\ scanning[h] /\ ahead[h] = {}
  /\ scanning' = [scanning EXCEPT ![h] = FALSE]
  /\ ahead' = [ahead EXCEPT ![h] = listed]
  /\ crossed' = crossed \cup {r \in listed : \E q \in Handlers \ {h} : Busy(q, r)}
  /\ UNCHANGED <<inputs, missions, ledger, handler, dropped, events, due, rounds>>

\* What the list says of a rule decides, whatever the rule has become.
Tick(h, r) ==
  /\ handler[h].pc = "idle"
  /\ r \in ahead[h]
  /\ ahead' = [ahead EXCEPT ![h] = @ \ {r}]
  /\ handler' = [handler EXCEPT ![h] = At("find", r)]
  /\ UNCHANGED <<inputs, missions, ledger, crossed, dropped, events, scanning, due, rounds>>

\* markEnqueued, with the time at which the cycle began, and whether or not the mission
\* was created.
MarkEnqueued(h) ==
  /\ handler[h].pc = "settle"
  /\ handler[h].work \in Rules
  /\ due' = [due EXCEPT ![handler[h].work] = FALSE]
  /\ Return(h)
  /\ UNCHANGED <<inputs, missions, ledger, dropped, events, cycleVars, rounds>>

RuleStep(h) == List(h) \/ (\E r \in Rules : Tick(h, r)) \/ MarkEnqueued(h)
=============================================================================
