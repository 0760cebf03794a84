--------------------------- MODULE WorkGovernance ---------------------------
(***************************************************************************)
(* How work gets into the mission queue: the admission gate, its ledger    *)
(* and the enqueue that follows (already-done-gate.ts, decision-ledger.ts, *)
(* mission-queue.ts).  A handler is one activity of a process of the API:  *)
(* a request of the web, a webhook, or the cycle of a supervisor, which    *)
(* collects works first and then comes to one after the other.  It takes   *)
(* each work through the statements below, between those of its own kind:  *)
(* DomainSignals, OfficeDemands and ScheduleRules.                         *)
(***************************************************************************)
EXTENDS Naturals, Sequences, FiniteSets

CONSTANTS
  Signals,      \* works by kind: domain signals ...
  Demands,      \* ... demands of the office ...
  Rules,        \* ... and schedule rules
  NoWork,       \* not a work
  Repos,        \* the repositories that the supervisors scan
  Handlers,     \* activities that go on at once
  Identity,     \* Identity[w]: buildWorkIdentity and buildContextFingerprint of a signal
  Context,      \*   or demand, each a natural number, 0 for unsafe and insufficient
  HistoryTake,  \* how many decisions the gate looks back
  Workloads,    \* BOUND of the model: sets of works that may arrive
  EventBound    \* BOUND of the model: handlers that die, and intervals that elapse

Works == Signals \cup Demands \cup Rules
Governed == Signals \cup Demands    \* a rule does not pass the gate
Deduped == Signals \cup Rules       \* enqueue with dedupe

ASSUME GovernanceAssumption ==
  /\ Signals \cap Demands = {} /\ Rules \cap Governed = {}
  /\ NoWork \notin Works
  /\ Repos \cap Works = {}
  /\ Identity \in [Governed -> Nat]
  /\ Context \in [Governed -> Nat]
  /\ HistoryTake \in Nat
  /\ Workloads \subseteq SUBSET Works
  /\ EventBound \in Nat

\* Operators named Faulty... are plausible bugs, one line away from the definition
\* that follows; no specification uses them.

VARIABLES
  inputs,    \* works that have not arrived yet
  missions,  \* the COORDINATE missions as they were created: the work, how it ended
  ledger,    \* the decisions as they were appended
  handler,   \* handler[h]: where h is, and what it has in memory
  scanning,  \* scanning[h]: h is in a supervisor's cycle that has not listed the rules yet
  ahead,     \* ahead[h]: what its cycle has yet to come to: the repositories to scan, the
             \* signals that were found, and then the rules that were due
  crossed,   \* history: works that two handlers were at at once
  dropped,   \* history: works whose handler died, or whose own error was caught
  events     \* deaths and intervals so far

\* A mission is OPEN, or COMPLETED with a valid result, or without, or FAILED.
Outcomes == {"OPEN", "VALID", "INVALID", "FAILED"}

Idle == [pc |-> "idle", work |-> NoWork, verdict |-> "NONE", mission |-> 0]
At(pc, w) == [Idle EXCEPT !.pc = pc, !.work = w]

Free(h) == handler[h].pc = "idle" /\ ~scanning[h] /\ ahead[h] = {}

\* h has made up its mind to act on w.
Passive == {"idle", "store", "refresh", "ingest", "close"}
Busy(h, w) ==
  \/ handler[h].work = w /\ handler[h].pc \notin Passive
  \/ w \in ahead[h] \cap Rules

\* h, which is at c from now on, begins to act on c.work.
Begin(h, c) ==
  /\ handler' = [handler EXCEPT ![h] = c]
  /\ crossed' = IF \E q \in Handlers \ {h} : Busy(q, c.work)
                  THEN crossed \cup {c.work} ELSE crossed

GoTo(h, pc) == handler' = [handler EXCEPT ![h].pc = pc] /\ UNCHANGED crossed

\* h is done with a work, and with its request, but not with its cycle ...
Return(h) == handler' = [handler EXCEPT ![h] = Idle] /\ UNCHANGED crossed

\* ... or with all of it.
Leave(h) ==
  /\ Return(h)
  /\ scanning' = [scanning EXCEPT ![h] = FALSE]
  /\ ahead' = [ahead EXCEPT ![h] = {}]

GovernanceInit ==
  /\ inputs \in Workloads
  /\ missions = <<>>
  /\ ledger = <<>>
  /\ handler = [h \in Handlers |-> Idle]
  /\ scanning = [h \in Handlers |-> FALSE]
  /\ ahead = [h \in Handlers |-> {}]
  /\ crossed = {}
  /\ dropped = {}
  /\ events = 0

cycleVars == <<scanning, ahead>>

Event == events < EventBound /\ events' = events + 1

-----------------------------------------------------------------------------
(* admit *)

Last(S) == CHOOSE i \in S : \A j \in S : j <= i

RowsOf(w) == {i \in DOMAIN ledger : ledger[i].work = w}
Alike(w) == {i \in DOMAIN ledger : Identity[ledger[i].work] = Identity[w]}
History(w) == {i \in Alike(w) : Cardinality({j \in Alike(w) : j > i}) < HistoryTake}

\* SkippedWorkWasDone, when COMPLETED is enough.
FaultyMatches(w) ==
  {i \in History(w) :
     /\ ledger[i].decision = "EXECUTE"
     /\ missions[ledger[i].mission].outcome \in {"VALID", "INVALID"}
     /\ Context[ledger[i].work] = Context[w]}

\* The decisions that say that w was done: the mission is COMPLETED, its tree has a
\* valid result, and the context is the same.
Matches(w) ==
  {i \in History(w) :
     /\ ledger[i].decision = "EXECUTE"
     /\ missions[ledger[i].mission].outcome = "VALID"
     /\ Context[ledger[i].work] = Context[w]}

EnqueuePc(w) == IF w \in Deduped THEN "find" ELSE "create"

\* What the caller does with a decision: only a SKIP spares it the enqueue, an EXECUTE
\* of the ledger, which has a mission too, does not.
Obey(c, row) ==
  IF row.decision = "SKIP" THEN [c EXCEPT !.pc = "settle", !.mission = row.mission]
                           ELSE [c EXCEPT !.pc = EnqueuePc(c.work)]

\* Reads of the ledger and of the missions it names.
Admit(h) ==
  LET w == handler[h].work IN
  /\ handler[h].pc = "admit"
  /\ handler' = [handler EXCEPT ![h] =
       IF RowsOf(w) # {} THEN Obey(@, ledger[Last(RowsOf(w))])
       ELSE IF Identity[w] # 0 /\ Context[w] # 0 /\ Matches(w) # {}
       THEN [@ EXCEPT !.pc = "skip", !.mission = ledger[Last(Matches(w))].mission]
       ELSE [@ EXCEPT !.pc = EnqueuePc(w)]]
  /\ UNCHANGED <<inputs, missions, ledger, crossed, dropped, events, cycleVars>>

\* append: correlationId is unique, and a row that is there is returned instead.
Skip(h) ==
  LET w == handler[h].work
      row == [work |-> w, decision |-> "SKIP", mission |-> handler[h].mission] IN
  /\ handler[h].pc = "skip"
  /\ ledger' = IF RowsOf(w) = {} THEN Append(ledger, row) ELSE ledger
  /\ handler' = [handler EXCEPT ![h] =
       Obey(@, IF RowsOf(w) = {} THEN row ELSE ledger[Last(RowsOf(w))])]
  /\ UNCHANGED <<inputs, missions, crossed, dropped, events, cycleVars>>

-----------------------------------------------------------------------------
(* enqueue, bindExecute *)

OpenOf(w) == {i \in DOMAIN missions : missions[i].work = w /\ missions[i].outcome = "OPEN"}

Enqueued(h, m) ==
  handler' = [handler EXCEPT ![h].mission = m,
                             ![h].pc = IF handler[h].work \in Governed THEN "bind" ELSE "settle"]

\* RuleIsServed, when a rule is marked only if its mission was created.
FaultyFindOpen(h) ==
  LET S == OpenOf(handler[h].work) IN
  /\ handler[h].pc = "find"
  /\ IF S # {} THEN IF handler[h].work \in Rules THEN handler' = [handler EXCEPT ![h] = Idle]
                                                 ELSE Enqueued(h, Last(S))
               ELSE handler' = [handler EXCEPT ![h].pc = "create"]
  /\ UNCHANGED <<inputs, missions, ledger, crossed, dropped, events, cycleVars>>

FindOpen(h) ==
  LET S == OpenOf(handler[h].work) IN
  /\ handler[h].pc = "find"
  /\ IF S # {} THEN Enqueued(h, Last(S)) ELSE handler' = [handler EXCEPT ![h].pc = "create"]
  /\ UNCHANGED <<inputs, missions, ledger, crossed, dropped, events, cycleVars>>

Create(h) ==
  /\ handler[h].pc = "create"
  /\ missions' = Append(missions, [work |-> handler[h].work, outcome |-> "OPEN"])
  /\ Enqueued(h, Len(missions'))
  /\ UNCHANGED <<inputs, ledger, crossed, dropped, events, cycleVars>>

\* TypeOK, without the look for a row of the same correlationId.
FaultyBind(h) ==
  /\ handler[h].pc = "bind"
  /\ ledger' = Append(ledger, [work |-> handler[h].work, decision |-> "EXECUTE",
                              mission |-> handler[h].mission])
  /\ GoTo(h, "settle")
  /\ UNCHANGED <<inputs, missions, dropped, events, cycleVars>>

\* ConvertedAsDecided, when the decision is not kept.
FaultyForget(h) ==
  /\ handler[h].pc = "bind"
  /\ GoTo(h, "settle")
  /\ UNCHANGED <<inputs, missions, ledger, dropped, events, cycleVars>>

\* The result of bindExecute is not used: the caller keeps the mission it enqueued.
Bind(h) ==
  LET w == handler[h].work IN
  /\ handler[h].pc = "bind"
  /\ ledger' = IF RowsOf(w) # {} THEN ledger
               ELSE Append(ledger, [work |-> w, decision |-> "EXECUTE",
                                    mission |-> handler[h].mission])
  /\ GoTo(h, "settle")
  /\ UNCHANGED <<inputs, missions, dropped, events, cycleVars>>

-----------------------------------------------------------------------------
(* Around it *)

\* The workers are done with a mission (CANCELLED is like FAILED to the gate).
Finish(i, outcome) ==
  /\ missions[i].outcome = "OPEN"
  /\ outcome # "OPEN"
  /\ missions' = [missions EXCEPT ![i].outcome = outcome]
  /\ UNCHANGED <<inputs, ledger, handler, crossed, dropped, events, cycleVars>>

\* What h has written something of, or has found, and does not come to.
Left(h) ==
  {w \in Works : \/ w = handler[h].work /\ handler[h].pc \notin {"store", "refresh"}
                 \/ w \in ahead[h] \cap Signals}

\* The process of h dies, or a statement fails and the error ends the request or the
\* cycle: no caller has anything to undo.
Die(h) ==
  /\ Event
  /\ ~Free(h)
  /\ Leave(h)
  /\ dropped' = dropped \cup Left(h)
  /\ UNCHANGED <<inputs, missions, ledger>>

\* The error at a repository, or at a rule, is caught in the loop over them.
Catch(h) ==
  /\ Event
  /\ \/ handler[h].pc \in {"store", "refresh", "ingest"}
     \/ handler[h].work \in Rules
  /\ Return(h)
  /\ dropped' = dropped \cup (Left(h) \ ahead[h])
  /\ UNCHANGED <<inputs, missions, ledger, cycleVars>>

GateStep(h) == Admit(h) \/ Skip(h) \/ FindOpen(h) \/ Create(h) \/ Bind(h)
=============================================================================
