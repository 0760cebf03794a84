--------------------------- MODULE DomainSignals ---------------------------
(***************************************************************************)
(* The signals of GitHub, from their arrival to the mission they are       *)
(* converted to.  A webhook (github-webhook-pipeline.ts) brings one signal *)
(* per delivery; a supervisor (github-repository-scanner.ts) compares the  *)
(* repository with its last snapshot and makes a signal of the difference, *)
(* which signal-decision-engine.ts then handles.  Both write the row       *)
(* through domain-signal-service.ts: a read, a check, a later update.      *)
(***************************************************************************)
EXTENDS WorkGovernance

CONSTANTS
  Scans,   \* the signals of the scanner: a state of the repository each.  It determines the
           \* deliveryId, which names the fields that changed: every push changes the same.
           \* The other signals come by webhook
  RepoOf,  \* RepoOf[s]: the repository of a scan
  Policy,  \* Policy[s]: decideGitHubEvaluation, from the type and the payload
  Hash     \* Hash[s]: signalHash

ASSUME SignalAssumption ==
  /\ Scans \subseteq Signals
  /\ RepoOf \in [Scans -> Repos]
  /\ Policy \in [Signals -> {"IGNORE", "DEFER", "CONVERT_CANDIDATE", "UNLESS_SIMILAR"}]
  /\ Hash \in [Signals -> Nat]

VARIABLES
  signal,    \* the DomainSignal rows
  head,      \* head[r]: r as it is: one of Scans, or NoWork before its first push
  snapshot,  \* snapshot[r]: r as it was last scanned: before the first push it was, since
             \* the first scan of a repository makes no signal
  stranded   \* history: signals whose cycle ended with an error at another of them

signalVars == <<signal, head, snapshot, stranded>>

NoSignal == [status |-> "NONE", decision |-> "NONE", mission |-> 0]

SignalInit ==
  /\ signal = [s \in Signals |-> NoSignal]
  /\ head = [r \in Repos |-> NoWork]
  /\ snapshot = [r \in Repos |-> NoWork]
  /\ stranded = {}

Detect(s) == signal' = IF signal[s].status = "NONE"
                         THEN [signal EXCEPT ![s].status = "DETECTED"] ELSE signal

-----------------------------------------------------------------------------
(* Arrival *)

\* A delivery.  When it comes again the row is there, and the pipeline returns: nothing
\* is resumed (so that is no step).
Deliver(h, s) ==
  /\ Free(h)
  /\ s \in inputs \ Scans
  /\ inputs' = inputs \ {s}
  /\ Detect(s)
  /\ Begin(h, At("judge", s))
  /\ UNCHANGED <<missions, ledger, dropped, events, cycleVars, head, snapshot, stranded>>

\* A repository changes.  Its updatedAt tells any two of its states apart.
Push(s) ==
  /\ s \in inputs \cap Scans
  /\ inputs' = inputs \ {s}
  /\ head' = [head EXCEPT ![RepoOf[s]] = s]
  /\ UNCHANGED <<missions, ledger, handler, crossed, dropped, events, cycleVars,
                 signal, snapshot, stranded>>

\* Repositories that change in the behaviour at hand: a scan of another has no effect.
Changing == {r \in Repos : head[r] # NoWork \/ \E s \in inputs \cap Scans : RepoOf[s] = r}

\* A supervisor's cycle begins.
StartCycle(h) ==
  /\ Free(h)
  /\ scanning' = [scanning EXCEPT ![h] = TRUE]
  /\ ahead' = [ahead EXCEPT ![h] = Changing]
  /\ UNCHANGED <<inputs, missions, ledger, handler, crossed, dropped, events, signalVars>>

\* fetchRepository, and the comparison with the snapshot.
Fetch(h, r) ==
  /\ handler[h].pc = "idle"
  /\ r \in ahead[h]
  /\ ahead' = [ahead EXCEPT ![h] = @ \ {r}]
  /\ handler' = [handler EXCEPT ![h] =
       IF head[r] = NoWork THEN Idle
       ELSE At(IF head[r] = snapshot[r] THEN "refresh" ELSE "store", head[r])]
  /\ UNCHANGED <<inputs, missions, ledger, crossed, dropped, events, scanning, signalVars>>

\* ChangeIsSignalled, when the comparison is made after the upsert.
FaultyStore(h) ==
  LET s == handler[h].work IN
  /\ handler[h].pc \in {"store", "refresh"}
  /\ snapshot' = [snapshot EXCEPT ![RepoOf[s]] = s]
  /\ IF s # snapshot'[RepoOf[s]] THEN GoTo(h, "ingest") ELSE Return(h)
  /\ UNCHANGED <<inputs, missions, ledger, dropped, events, cycleVars, signal, head, stranded>>

\* The upsert of the snapshot, be it older than what is there, before the signal.
Store(h) ==
  LET s == handler[h].work IN
  /\ handler[h].pc \in {"store", "refresh"}
  /\ snapshot' = [snapshot EXCEPT ![RepoOf[s]] = s]
  /\ IF handler[h].pc = "store" THEN GoTo(h, "ingest") ELSE Return(h)
  /\ UNCHANGED <<inputs, missions, ledger, dropped, events, cycleVars, signal, head, stranded>>

\* The signal of the change; one that is there already is found as well.
Ingest(h) ==
  LET s == handler[h].work IN
  /\ handler[h].pc = "ingest"
  /\ Detect(s)
  /\ ahead' = [ahead EXCEPT ![h] = @ \cup {s}]
  /\ Return(h)
  /\ UNCHANGED <<inputs, missions, ledger, dropped, events, scanning, head, snapshot, stranded>>

\* OnlyRacesStrand, without processSignal's look at the status.
FaultyLoad(h, s) ==
  /\ handler[h].pc = "idle"
  /\ ahead[h] \cap Repos = {}
  /\ s \in ahead[h]
  /\ ahead' = [ahead EXCEPT ![h] = @ \ {s}]
  /\ Begin(h, At("judge", s))
  /\ UNCHANGED <<inputs, missions, ledger, dropped, events, scanning, signalVars>>

\* When all repositories are scanned, processGithubScan loads one row after the other,
\* and processSignal leaves those that are not DETECTED.
Load(h, s) ==
  /\ handler[h].pc = "idle"
  /\ ahead[h] \cap Repos = {}
  /\ s \in ahead[h]
  /\ ahead' = [ahead EXCEPT ![h] = @ \ {s}]
  /\ IF signal[s].status = "DETECTED" THEN Begin(h, At("judge", s))
                                      ELSE UNCHANGED <<handler, crossed>>
  /\ UNCHANGED <<inputs, missions, ledger, dropped, events, scanning, signalVars>>

-----------------------------------------------------------------------------
(* Decision *)

Similar(s) == {t \in Signals \ {s} : Hash[t] = Hash[s] /\ signal[t].status # "NONE"}

\* pr.updated is deferred if there is a signal of the same hash, however old.
Decision(s) ==
  IF Policy[s] # "UNLESS_SIMILAR" THEN Policy[s]
  ELSE IF Similar(s) # {} THEN "DEFER" ELSE "CONVERT_CANDIDATE"

\* assertTransition throws: that ends the request, or the loop over the signals that
\* were found and the cycle with it.
Throw(h) ==
  /\ Leave(h)
  /\ stranded' = stranded \cup (ahead[h] \cap Signals)

\* countSimilar, and evaluate's read: assertTransition lets an EVALUATED row through.
Judge(h) ==
  LET s == handler[h].work IN
  /\ handler[h].pc = "judge"
  /\ IF signal[s].status \in {"DETECTED", "EVALUATED"}
       THEN /\ handler' = [handler EXCEPT ![h].pc = "evaluate", ![h].verdict = Decision(s)]
            /\ UNCHANGED <<crossed, cycleVars, stranded>>
       ELSE Throw(h)
  /\ UNCHANGED <<inputs, missions, ledger, dropped, events, signal, head, snapshot>>

\* SignalIsSettled, when the conversion is left for another time.
FaultyEvaluate(h) ==
  LET v == handler[h].verdict IN
  /\ handler[h].pc = "evaluate"
  /\ signal' = [signal EXCEPT ![handler[h].work] =
       [@ EXCEPT !.status = IF v = "IGNORE" THEN "IGNORED" ELSE "EVALUATED", !.decision = v]]
  /\ Return(h)
  /\ UNCHANGED <<inputs, missions, ledger, dropped, events, cycleVars, head, snapshot, stranded>>

\* evaluate's update, whatever the row has become.
Evaluate(h) ==
  LET v == handler[h].verdict IN
  /\ handler[h].pc = "evaluate"
  /\ signal' = [signal EXCEPT ![handler[h].work] =
       [@ EXCEPT !.status = IF v = "IGNORE" THEN "IGNORED" ELSE "EVALUATED", !.decision = v]]
  /\ IF v = "CONVERT_CANDIDATE" THEN GoTo(h, "admit") ELSE Return(h)
  /\ UNCHANGED <<inputs, missions, ledger, dropped, events, cycleVars, head, snapshot, stranded>>

\* markConverted, after the gate and the queue: its read throws, or ...
MayConvert(h) ==
  LET row == signal[handler[h].work] IN
  /\ handler[h].pc = "settle"
  /\ handler[h].work \in Signals
  /\ IF row.status = "EVALUATED" /\ row.decision \in {"CONVERT_CANDIDATE", "DEFER"}
       THEN GoTo(h, "mark") /\ UNCHANGED <<cycleVars, stranded>> ELSE Throw(h)
  /\ UNCHANGED <<inputs, missions, ledger, dropped, events, signal, head, snapshot>>

\* ... its update follows, whatever the row has become.
MarkConverted(h) ==
  /\ handler[h].pc = "mark"
  /\ signal' = [signal EXCEPT ![handler[h].work] =
       [@ EXCEPT !.status = "CONVERTED", !.mission = handler[h].mission]]
  /\ Return(h)
  /\ UNCHANGED <<inputs, missions, ledger, dropped, events, cycleVars, head, snapshot, stranded>>

SignalStep(h) ==
  \/ \E r \in Repos : Fetch(h, r)
  \/ Store(h) \/ Ingest(h)
  \/ \E s \in Signals : Load(h, s)
  \/ Judge(h) \/ Evaluate(h) \/ MayConvert(h) \/ MarkConverted(h)
=============================================================================
