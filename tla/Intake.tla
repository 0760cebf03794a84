------------------------------- MODULE Intake -------------------------------
(***************************************************************************)
(* Signals, demands and rules together, through one gate and one queue.    *)
(***************************************************************************)
EXTENDS DomainSignals, OfficeDemands, ScheduleRules

gateVars == <<inputs, missions, ledger, handler, crossed, dropped, events, cycleVars>>
demandVars == <<demand, approval, granted>>
ruleVars == <<due, rounds>>
vars == <<gateVars, signalVars, demandVars, ruleVars>>

Init == GovernanceInit /\ SignalInit /\ DemandInit /\ RuleInit

Proceed(h) ==
  \/ GateStep(h) /\ UNCHANGED <<signalVars, demandVars, ruleVars>>
  \/ SignalStep(h) /\ UNCHANGED <<demandVars, ruleVars>>
  \/ DemandStep(h) /\ UNCHANGED <<signalVars, ruleVars>>
  \/ RuleStep(h) /\ UNCHANGED <<signalVars, demandVars>>

\* A supervisor's cycle begins.  One that has nothing to look at is no step.
Look(h) ==
  /\ Changing # {} \/ \E r \in Rules : due[r]
  /\ StartCycle(h) /\ UNCHANGED <<demandVars, ruleVars>>

\* A request comes.
Request(h) ==
  \/ \E s \in Signals : Deliver(h, s) /\ UNCHANGED <<demandVars, ruleVars>>
  \/ /\ \E d \in Demands :
          \/ Interpret(h, d) \/ Execute(h, d) \/ Reconcile(h, d)
          \/ \E v \in DOMAIN DemandStatusOf : Resolve(h, d, v)
     /\ UNCHANGED <<signalVars, ruleVars>>

World ==
  \/ /\ \/ \E i \in DOMAIN missions, o \in Outcomes : Finish(i, o)
        \/ \E h \in Handlers : Die(h) \/ Catch(h)
     /\ UNCHANGED <<signalVars, demandVars, ruleVars>>
  \/ \E s \in Scans : Push(s) /\ UNCHANGED <<demandVars, ruleVars>>
  \/ \E r \in Rules : Elapse(r) /\ UNCHANGED <<signalVars, demandVars>>

Next ==
  \/ World
  \/ \E h \in Handlers : Proceed(h) \/ Look(h) \/ Request(h)

Spec == Init /\ [][Next]_vars

\* A handler's statements return, and the supervisors loop for ever.
Fairness == \A h \in Handlers : WF_vars(Proceed(h)) /\ WF_vars(Look(h))

FairSpec == Spec /\ Fairness

-----------------------------------------------------------------------------
(* Properties *)

GatePcs == {"admit", "skip", "find", "create", "bind", "settle"}
ScanPcs == {"store", "refresh", "ingest"}
SignalPcs == {"judge", "evaluate", "mark"}
DemandPcs == {"plan", "ask", "decide", "apply", "close"}

Evaluations == {"IGNORE", "DEFER", "CONVERT_CANDIDATE"}
Resolutions == {"APPROVED", "REJECTED", "MODIFIED"}

Handling == [pc : {"idle"} \cup GatePcs \cup ScanPcs \cup SignalPcs \cup DemandPcs,
             work : Works \cup {NoWork},
             verdict : {"NONE"} \cup Evaluations \cup Resolutions,
             mission : Nat]
Mission == [work : Works, outcome : Outcomes]
LedgerRow == [work : Governed, decision : {"SKIP", "EXECUTE"}, mission : Nat]
Signal == [status : {"NONE", "DETECTED", "EVALUATED", "IGNORED", "CONVERTED"},
           decision : {"NONE"} \cup Evaluations, mission : Nat]
Demand == [status : {"NONE", "INTERPRETING", "AWAITING_APPROVAL", "PLANNED", "READY", "PAUSED",
                     "EXECUTING", "COMPLETED", "FAILED"},
           mission : Nat]

\* What a handler at a given point is known to have.
HandlerOK(c) ==
  /\ c \in Handling
  /\ c.pc # "idle" => c.work \in Works
  /\ c.pc \in {"admit", "skip", "bind"} => c.work \in Governed
  /\ c.pc \in {"skip", "bind", "settle", "mark", "close"} => c.mission \in DOMAIN missions
  /\ c.pc \in ScanPcs => c.work \in Scans
  /\ c.pc \in SignalPcs => c.work \in Signals
  /\ c.pc = "evaluate" => c.verdict \in Evaluations
  /\ c.pc \in DemandPcs => c.work \in Demands
  /\ c.pc \in {"decide", "apply"} => c.verdict \in Resolutions

\* The ledger names missions, and the correlationId of its rows is unique.
LedgerOK ==
  /\ ledger \in Seq(LedgerRow)
  /\ \A i \in DOMAIN ledger :
       /\ ledger[i].mission \in DOMAIN missions
       /\ \A j \in DOMAIN ledger : ledger[j].work = ledger[i].work => j = i

DemandOK(d) ==
  demand[d].status \in {"EXECUTING", "COMPLETED", "FAILED"} => demand[d].mission \in DOMAIN missions

\* Types, and the references between the tables.
TypeOK ==
  /\ inputs \subseteq Works
  /\ missions \in Seq(Mission)
  /\ LedgerOK
  /\ handler \in [Handlers -> Handling]
  /\ \A h \in Handlers : HandlerOK(handler[h])
  /\ scanning \in [Handlers -> BOOLEAN]
  /\ ahead \in [Handlers -> SUBSET (Repos \cup Scans \cup Rules)]
  /\ signal \in [Signals -> Signal]
  /\ demand \in [Demands -> Demand]
  /\ \A d \in Demands : DemandOK(d)
  /\ approval \in [Demands -> {"NONE", "PENDING"} \cup Resolutions]
  /\ head \in [Repos -> Scans \cup {NoWork}] /\ snapshot \in [Repos -> Scans \cup {NoWork}]
  /\ due \in [Rules -> BOOLEAN] /\ rounds \in [Rules -> Nat]
  /\ events \in 0..EventBound

MissionsOf(w) == {i \in DOMAIN missions : missions[i].work = w}
Allowed(w) == IF w \in Rules THEN rounds[w] ELSE 1

\* A signal or a demand has one mission, a rule one per interval, although neither the
\* gate nor the dedupe of the queue are enough for it.  Two handlers at one work at once
\* may create two; a handler that dies may cost a demand or a rule a second one, never
\* a signal.
OneMissionPerWork ==
  \A w \in Works \ crossed :
    w \in Signals \/ w \notin dropped => Cardinality(MissionsOf(w)) <= Allowed(w)

\* A CONVERTED signal has the mission that the ledger has for it, unless two handlers
\* were at it at once.
ConvertedAsDecided ==
  \A s \in Signals \ crossed :
    signal[s].status = "CONVERTED" =>
      \E i \in RowsOf(s) : ledger[i].mission = signal[s].mission

\* Work is skipped only if the mission it is given completed with a valid result, and
\* was executed for the same identity and context.
SkippedWorkWasDone ==
  \A i \in DOMAIN ledger :
    ledger[i].decision = "SKIP" =>
      LET m == missions[ledger[i].mission] IN
      /\ m.outcome = "VALID"
      /\ Identity[m.work] = Identity[ledger[i].work]
      /\ Context[m.work] = Context[ledger[i].work]

\* No demand has a mission unless somebody approved it, whatever the order of the
\* updates of approvals, executions and reads.
DemandNeedsApproval ==
  \A i \in DOMAIN missions : missions[i].work \in Demands => missions[i].work \in granted

\* A closed demand names a mission that ended that way, however late the executions,
\* approvals and reads that are under way write.
DemandReflectsMission ==
  \A d \in Demands :
    /\ demand[d].status = "COMPLETED" => missions[demand[d].mission].outcome \in {"VALID", "INVALID"}
    /\ demand[d].status = "FAILED" => missions[demand[d].mission].outcome = "FAILED"

Unsettled(s) ==
  /\ signal[s].status \in {"DETECTED", "EVALUATED"}
  /\ signal[s].decision # "DEFER"
  /\ s \notin dropped \cup stranded

\* A signal that was stored is ignored, deferred or converted in the end, unless its
\* handler died, or its cycle ended with the error of another signal: nobody takes it up
\* again.
SignalIsSettled == []<>(\A s \in Signals : ~Unsettled(s))

\* A cycle ends with an error at a signal, and leaves the others of its scan DETECTED for
\* good, only if two supervisors were at that signal at once.
OnlyRacesStrand == stranded # {} => crossed \cap Scans # {}

\* A state of a repository that lasts gets its signal, although supervisors overwrite
\* each other's snapshots; an error or a death between snapshot and signal loses it.
ChangeIsSignalled ==
  \A r \in Repos : []<>(head[r] = NoWork \/ head[r] \in dropped \/ signal[head[r]].status # "NONE")

\* A rule that is due is marked again and again, also while its mission stays open.
RuleIsServed == \A r \in Rules : []<>~due[r]
=============================================================================
