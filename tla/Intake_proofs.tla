---------------------------- MODULE Intake_proofs ----------------------------
(***************************************************************************)
(* Inv is inductive: it ties the handlers' memory to the tables they wrote *)
(* it from, and the tables to each other.  It holds whatever the handlers  *)
(* interleave, and whichever of them die; the properties follow from it.   *)
(***************************************************************************)
EXTENDS Intake, FiniteSetTheorems, TLAPS

\* The work of the mission m was done for w.
DoneFor(m, w) ==
  /\ missions[m].outcome = "VALID"
  /\ Identity[missions[m].work] = Identity[w]
  /\ Context[missions[m].work] = Context[w]

\* What a handler remembers is still true, or true for good.
Knows(c) ==
  /\ c.pc \in GatePcs /\ c.work \in Demands => c.work \in granted
  /\ c.pc = "apply" /\ c.verdict = "APPROVED" => c.work \in granted
  /\ c.pc = "bind" => missions[c.mission].work = c.work
  /\ c.pc = "skip" => DoneFor(c.mission, c.work)
  /\ c.pc = "close" => missions[c.mission].outcome # "OPEN"

HandlersInv ==
  /\ handler \in [Handlers -> Handling]
  /\ \A h \in Handlers : HandlerOK(handler[h]) /\ Knows(handler[h])

\* A SKIP names work that was done, an EXECUTE the mission that was enqueued for it.
Decided(row) ==
  IF row.decision = "SKIP" THEN DoneFor(row.mission, row.work)
                           ELSE missions[row.mission].work = row.work

QueueInv ==
  /\ inputs \subseteq Works
  /\ missions \in Seq(Mission)
  /\ \A i \in DOMAIN missions : missions[i].work \in Demands => missions[i].work \in granted
  /\ events \in 0..EventBound

LedgerInv == LedgerOK /\ \A i \in DOMAIN ledger : Decided(ledger[i])

SignalInv ==
  /\ signal \in [Signals -> Signal]
  /\ head \in [Repos -> Scans \cup {NoWork}] /\ snapshot \in [Repos -> Scans \cup {NoWork}]

Reflects(d) ==
  /\ demand[d].status = "COMPLETED" => missions[demand[d].mission].outcome \in {"VALID", "INVALID"}
  /\ demand[d].status = "FAILED" => missions[demand[d].mission].outcome = "FAILED"

DemandInv ==
  /\ demand \in [Demands -> Demand]
  /\ approval \in [Demands -> {"NONE", "PENDING"} \cup Resolutions]
  /\ \A d \in Demands :
       /\ DemandOK(d) /\ Reflects(d)
       /\ demand[d].status = "READY" => d \in granted
       /\ approval[d] = "APPROVED" => d \in granted

RuleInv == due \in [Rules -> BOOLEAN] /\ rounds \in [Rules -> Nat]

AheadInv ==
  /\ scanning \in [Handlers -> BOOLEAN]
  /\ ahead \in [Handlers -> SUBSET (Repos \cup Scans \cup Rules)]

Inv == HandlersInv /\ QueueInv /\ LedgerInv /\ SignalInv /\ DemandInv /\ RuleInv

Moved(h, c) == handler' = [handler EXCEPT ![h] = c]

\* Missions are only added or finished, and an approval that was granted stays granted.
Grows ==
  /\ DOMAIN missions \subseteq DOMAIN missions'
  /\ \A i \in DOMAIN missions :
       /\ missions'[i].work = missions[i].work
       /\ missions[i].outcome # "OPEN" => missions'[i].outcome = missions[i].outcome
  /\ granted \subseteq granted'

-----------------------------------------------------------------------------
(* Frames: what is not written keeps its part of Inv *)

LEMMA KnownStays ==
  ASSUME Grows, NEW c, HandlerOK(c), Knows(c)
  PROVE  (HandlerOK(c) /\ Knows(c))'
  BY DEF Grows, HandlerOK, Knows, DoneFor

LEMMA HandlersFrame ==
  ASSUME HandlersInv, Grows, NEW h \in Handlers, NEW c, Moved(h, c),
         (HandlerOK(c) /\ Knows(c))'
  PROVE  HandlersInv'
  <1>1. c \in Handling
    BY DEF HandlerOK
  <1>2. handler' \in [Handlers -> Handling]
    BY <1>1 DEF HandlersInv, Moved
  <1>3. ASSUME NEW q \in Handlers
        PROVE  (HandlerOK(handler[q]) /\ Knows(handler[q]))'
    <2>1. CASE q = h
      <3>1. handler'[q] = c
        BY <2>1 DEF HandlersInv, Moved
      <3> QED
        BY <3>1 DEF HandlerOK, Knows, DoneFor
    <2>2. CASE q # h
      <3>1. handler'[q] = handler[q] /\ HandlerOK(handler[q]) /\ Knows(handler[q])
        BY <2>2 DEF HandlersInv, Moved
      <3> QED
        BY <3>1 DEF Grows, HandlerOK, Knows, DoneFor
    <2> QED
      BY <2>1, <2>2
  <1> QED
    BY <1>2, <1>3 DEF HandlersInv

LEMMA HandlersStay ==
  ASSUME HandlersInv, Grows, UNCHANGED handler
  PROVE  HandlersInv'
  BY DEF HandlersInv, Grows, HandlerOK, Knows, DoneFor

LEMMA LedgerStays ==
  ASSUME LedgerInv, Grows, UNCHANGED ledger
  PROVE  LedgerInv'
  BY DEF LedgerInv, LedgerOK, Grows, Decided, DoneFor

LEMMA DemandStays ==
  ASSUME DemandInv, Grows, UNCHANGED <<demand, approval>>
  PROVE  DemandInv'
  BY DEF DemandInv, DemandOK, Reflects, Grows

LEMMA Quiet ==
  ASSUME UNCHANGED <<missions, granted>>
  PROVE  Grows
  BY DEF Grows

\* A handler goes on, to c, and the tables stay.
LEMMA HandlerMoves ==
  ASSUME Inv, NEW h \in Handlers, NEW c, Moved(h, c), HandlerOK(c), Knows(c),
         inputs' \subseteq inputs, events' \in 0..EventBound,
         UNCHANGED <<missions, ledger, granted, demand, approval>>,
         SignalInv', RuleInv'
  PROVE  Inv'
  <1>1. Grows
    BY Quiet
  <1>2. HandlersInv'
    BY <1>1, KnownStays, HandlersFrame DEF Inv
  <1>3. LedgerInv' /\ DemandInv'
    BY <1>1, LedgerStays, DemandStays DEF Inv
  <1>4. QueueInv'
    BY DEF Inv, QueueInv
  <1> QED
    BY <1>2, <1>3, <1>4 DEF Inv

-----------------------------------------------------------------------------
(* Where the moves of a handler lead *)

AllPcs == {"idle"} \cup GatePcs \cup ScanPcs \cup SignalPcs \cup DemandPcs

LEMMA GoToMoves ==
  ASSUME HandlersInv, NEW h \in Handlers, NEW pc \in AllPcs, GoTo(h, pc)
  PROVE  \E c \in Handling :
           /\ Moved(h, c) /\ c.pc = pc /\ c.work = handler[h].work
           /\ c.verdict = handler[h].verdict /\ c.mission = handler[h].mission
  <1> DEFINE c == [handler[h] EXCEPT !.pc = pc]
  <1>1. c \in Handling
    BY DEF HandlersInv, Handling, AllPcs
  <1>2. /\ c.pc = pc /\ c.work = handler[h].work
        /\ c.verdict = handler[h].verdict /\ c.mission = handler[h].mission
    BY DEF HandlersInv, Handling
  <1>3. Moved(h, c)
    BY DEF GoTo, Moved, HandlersInv
  <1> QED
    BY <1>1, <1>2, <1>3

LEMMA AtIsThere ==
  ASSUME NEW pc \in AllPcs, NEW w \in Works \cup {NoWork}
  PROVE  /\ At(pc, w) \in Handling /\ At(pc, w).pc = pc /\ At(pc, w).work = w
         /\ At(pc, w).verdict = "NONE" /\ At(pc, w).mission = 0
  BY DEF At, Idle, Handling, AllPcs

LEMMA IdleIsFine == HandlerOK(Idle) /\ Knows(Idle)
  BY DEF Idle, HandlerOK, Knows, Handling, GatePcs, ScanPcs, SignalPcs, DemandPcs

LEMMA ReturnMoves ==
  ASSUME NEW h \in Handlers, Return(h)
  PROVE  Moved(h, Idle)
  BY DEF Return, Moved

LEMMA LeaveMoves ==
  ASSUME NEW h \in Handlers, Leave(h)
  PROVE  Moved(h, Idle)
  BY ReturnMoves DEF Leave

LEMMA BeginMoves ==
  ASSUME NEW h, NEW c, Begin(h, c)
  PROVE  Moved(h, c)
  BY DEF Begin, Moved

\* The last row of a set of rows is one of them.
LEMMA LastIsThere ==
  ASSUME NEW n \in Nat, NEW S \in SUBSET (1..n), S # {}
  PROVE  Last(S) \in S
  <1> DEFINE Up == {i..n : i \in S}
  <1>1. Up \subseteq FiniteSubsetsOf(1..n)
    <2>1. \A i \in S : i..n \in SUBSET (1..n) /\ IsFiniteSet(i..n)
      BY FS_Interval
    <2> QED
      BY <2>1 DEF FiniteSubsetsOf
  <1>2. IsWellFoundedOn(StrictSubsetOrdering(1..n), FiniteSubsetsOf(1..n))
    BY FS_Interval, FS_StrictSubsetOrderingWellFounded
  <1>3. PICK U \in Up : \A V \in Up : ~(<<V, U>> \in StrictSubsetOrdering(1..n))
    <2>1. Up # {}
      OBVIOUS
    <2> HIDE DEF Up
    <2> QED
      BY <1>1, <1>2, <2>1, WFMin
  <1>4. PICK top \in S : U = top..n
    OBVIOUS
  <1>5. \A j \in S : j <= top
    <2> SUFFICES ASSUME NEW j \in S, j > top PROVE FALSE
      OBVIOUS
    <2>1. j..n \in Up /\ j..n \subseteq top..n /\ top \in top..n /\ top \notin j..n
      OBVIOUS
    <2>2. j..n \in SUBSET (1..n) /\ top..n \in SUBSET (1..n) /\ j..n # top..n
      BY <2>1
    <2>3. <<j..n, top..n>> \in StrictSubsetOrdering(1..n)
      BY <2>1, <2>2, Zenon DEF StrictSubsetOrdering
    <2> QED
      BY <1>3, <1>4, <2>1, <2>3, Zenon
  <1> QED
    BY <1>5 DEF Last

-----------------------------------------------------------------------------
(* Signals: each step keeps Inv *)

LEMMA SignalTables ==
  ASSUME Inv, UNCHANGED <<head, snapshot>>,
         \/ signal' = signal
         \/ \E s \in Signals : Detect(s)
         \/ \E s \in Signals, r \in Signal : signal' = [signal EXCEPT ![s] = r]
  PROVE  SignalInv'
  BY DEF Inv, SignalInv, Detect, Signal

LEMMA DeliverKeeps ==
  ASSUME Inv, NEW h \in Handlers, NEW s \in Signals, Deliver(h, s),
         UNCHANGED <<demandVars, ruleVars>>
  PROVE  Inv'
  <1> DEFINE c == At("judge", s)
  <1>1. c \in Handling /\ c.pc = "judge" /\ c.work = s
    BY AtIsThere DEF AllPcs, SignalPcs, Works
  <1>2. Moved(h, c)
    BY BeginMoves DEF Deliver
  <1> HIDE DEF c
  <1>3. HandlerOK(c) /\ Knows(c)
    BY <1>1 DEF HandlerOK, Knows, GatePcs, ScanPcs, SignalPcs, DemandPcs, Works
  <1>4. SignalInv'
    BY SignalTables DEF Deliver
  <1> QED
    BY <1>2, <1>3, <1>4, HandlerMoves DEF Deliver, Inv, QueueInv, RuleInv, demandVars, ruleVars

LEMMA PushKeeps ==
  ASSUME Inv, NEW s \in Scans, Push(s), UNCHANGED <<demandVars, ruleVars>>
  PROVE  Inv'
  <1>1. Grows
    BY Quiet DEF Push, demandVars
  <1>2. HandlersInv' /\ LedgerInv' /\ DemandInv'
    BY <1>1, HandlersStay, LedgerStays, DemandStays DEF Push, demandVars, Inv
  <1>3. QueueInv' /\ SignalInv' /\ RuleInv'
    BY SignalAssumption DEF Push, demandVars, ruleVars, Inv, QueueInv, SignalInv, RuleInv
  <1> QED
    BY <1>2, <1>3 DEF Inv

LEMMA FetchKeeps ==
  ASSUME Inv, NEW h \in Handlers, NEW r \in Repos, Fetch(h, r),
         UNCHANGED <<demandVars, ruleVars>>
  PROVE  Inv'
  <1>1. SUFFICES ASSUME NEW c, Moved(h, c), HandlerOK(c), Knows(c)
                 PROVE  Inv'
    <2>1. CASE head[r] = NoWork
      <3>1. Moved(h, Idle)
        BY <2>1 DEF Fetch, Moved
      <3> QED
        BY <1>1, <3>1, IdleIsFine
    <2>2. CASE head[r] # NoWork
      <3>1. PICK pc \in {"refresh", "store"} : Moved(h, At(pc, head[r]))
        BY <2>2 DEF Fetch, Moved
      <3>2. head[r] \in Scans /\ head[r] \in Signals
        BY <2>2, SignalAssumption DEF Inv, SignalInv
      <3> DEFINE c == At(pc, head[r])
      <3>3. c \in Handling /\ c.pc = pc /\ c.work = head[r]
        BY <3>2, AtIsThere DEF AllPcs, ScanPcs, Works
      <3> HIDE DEF c
      <3>4. HandlerOK(c) /\ Knows(c)
        BY <3>2, <3>3 DEF HandlerOK, Knows, GatePcs, ScanPcs, SignalPcs, DemandPcs, Works
      <3>5. Moved(h, c)
        BY <3>1 DEF c
      <3> QED
        BY <1>1, <3>4, <3>5
    <2> QED
      BY <2>1, <2>2
  <1>2. SignalInv' /\ RuleInv'
    BY DEF Fetch, Inv, SignalInv, RuleInv, signalVars, ruleVars
  <1> QED
    BY <1>1, <1>2, HandlerMoves DEF Fetch, Inv, QueueInv, demandVars

\* A handler goes on, or returns, and only the tables of the signals may change.
LEMMA SignalMoves ==
  ASSUME Inv, NEW h \in Handlers, NEW c, Moved(h, c), HandlerOK(c) /\ Knows(c),
         UNCHANGED <<inputs, missions, ledger, dropped, events, demandVars, ruleVars>>,
         SignalInv'
  PROVE  Inv'
  BY HandlerMoves DEF Inv, QueueInv, RuleInv, demandVars, ruleVars

LEMMA StoreKeeps ==
  ASSUME Inv, NEW h \in Handlers, Store(h), UNCHANGED <<demandVars, ruleVars>>
  PROVE  Inv'
  <1>1. HandlerOK(handler[h])
    BY DEF Inv, HandlersInv
  <1>2. handler[h].work \in Scans /\ handler[h].work \in Signals
    BY <1>1, SignalAssumption DEF Store, HandlerOK, ScanPcs
  <1>3. SignalInv'
    BY <1>2, SignalAssumption DEF Store, Inv, SignalInv
  <1>4. CASE Return(h)
    BY <1>3, <1>4, IdleIsFine, ReturnMoves, SignalMoves DEF Store
  <1>5. CASE GoTo(h, "ingest")
    <2>1. PICK c \in Handling : Moved(h, c) /\ c.pc = "ingest" /\ c.work = handler[h].work
      BY <1>5, GoToMoves DEF Inv, AllPcs, ScanPcs
    <2>2. HandlerOK(c) /\ Knows(c)
      BY <1>2, <2>1 DEF HandlerOK, Knows, GatePcs, ScanPcs, SignalPcs, DemandPcs, Works
    <2> QED
      BY <1>3, <2>1, <2>2, SignalMoves DEF Store
  <1> QED
    BY <1>4, <1>5 DEF Store

LEMMA IngestKeeps ==
  ASSUME Inv, NEW h \in Handlers, Ingest(h), UNCHANGED <<demandVars, ruleVars>>
  PROVE  Inv'
  <1>1. HandlerOK(handler[h])
    BY DEF Inv, HandlersInv
  <1>2. handler[h].work \in Scans /\ handler[h].work \in Signals
    BY <1>1, SignalAssumption DEF Ingest, HandlerOK, ScanPcs
  <1>3. SignalInv'
    BY <1>2, SignalTables DEF Ingest
  <1> QED
    BY <1>3, IdleIsFine, ReturnMoves, SignalMoves DEF Ingest

LEMMA LoadKeeps ==
  ASSUME Inv, NEW h \in Handlers, NEW s \in Signals, Load(h, s),
         UNCHANGED <<demandVars, ruleVars>>
  PROVE  Inv'
  <1>1. SignalInv'
    BY DEF Load, Inv, SignalInv, signalVars
  <1>2. CASE UNCHANGED handler
    <2>1. Moved(h, handler[h])
      BY <1>2 DEF Moved, Inv, HandlersInv
    <2>2. HandlerOK(handler[h]) /\ Knows(handler[h])
      BY DEF Inv, HandlersInv
    <2> QED
      BY <1>1, <2>1, <2>2, SignalMoves DEF Load
  <1>3. CASE Begin(h, At("judge", s))
    <2> DEFINE c == At("judge", s)
    <2>1. c \in Handling /\ c.pc = "judge" /\ c.work = s
      BY AtIsThere DEF AllPcs, SignalPcs, Works
    <2>2. Moved(h, c)
      BY <1>3, BeginMoves
    <2> HIDE DEF c
    <2>3. HandlerOK(c) /\ Knows(c)
      BY <2>1 DEF HandlerOK, Knows, GatePcs, ScanPcs, SignalPcs, DemandPcs, Works
    <2> QED
      BY <1>1, <2>2, <2>3, SignalMoves DEF Load
  <1> QED
    BY <1>2, <1>3 DEF Load

LEMMA JudgeKeeps ==
  ASSUME Inv, NEW h \in Handlers, Judge(h), UNCHANGED <<demandVars, ruleVars>>
  PROVE  Inv'
  <1>1. HandlerOK(handler[h]) /\ handler[h] \in Handling
    BY DEF Inv, HandlersInv
  <1>2. handler[h].work \in Signals
    BY <1>1 DEF Judge, HandlerOK, SignalPcs
  <1>3. SignalInv'
    BY DEF Judge, Inv, SignalInv
  <1>4. CASE Throw(h)
    BY <1>3, <1>4, IdleIsFine, LeaveMoves, SignalMoves DEF Judge, Throw
  <1>5. CASE ~Throw(h)
    <2> DEFINE v == Decision(handler[h].work)
               c == [handler[h] EXCEPT !.pc = "evaluate", !.verdict = v]
    <2>1. v \in Evaluations
      BY <1>2, SignalAssumption DEF Decision, Evaluations
    <2>2. Moved(h, c)
      BY <1>1, <1>5 DEF Judge, Moved, Inv, HandlersInv
    <2> HIDE DEF v
    <2>3. c \in Handling /\ c.pc = "evaluate" /\ c.work = handler[h].work /\ c.verdict = v
      BY <1>1, <2>1 DEF Handling, SignalPcs
    <2> HIDE DEF c
    <2>4. HandlerOK(c) /\ Knows(c)
      BY <1>2, <2>1, <2>3 DEF HandlerOK, Knows, GatePcs, ScanPcs, SignalPcs, DemandPcs, Works
    <2> QED
      BY <1>3, <2>2, <2>4, SignalMoves DEF Judge
  <1> QED
    BY <1>4, <1>5

LEMMA EvaluateKeeps ==
  ASSUME Inv, NEW h \in Handlers, Evaluate(h), UNCHANGED <<demandVars, ruleVars>>
  PROVE  Inv'
  <1>1. HandlerOK(handler[h]) /\ handler[h] \in Handling
    BY DEF Inv, HandlersInv
  <1>2. handler[h].work \in Signals /\ handler[h].verdict \in Evaluations
    BY <1>1 DEF Evaluate, HandlerOK, SignalPcs
  <1>3. SignalInv'
    <2> DEFINE r == [signal[handler[h].work] EXCEPT
                       !.status = IF handler[h].verdict = "IGNORE" THEN "IGNORED" ELSE "EVALUATED",
                       !.decision = handler[h].verdict]
    <2>1. signal' = [signal EXCEPT ![handler[h].work] = r]
      BY <1>2 DEF Evaluate, Inv, SignalInv
    <2>2. r \in Signal
      BY <1>2 DEF Inv, SignalInv, Signal
    <2> HIDE DEF r
    <2> QED
      BY <1>2, <2>1, <2>2, SignalTables DEF Evaluate
  <1>4. CASE Return(h)
    BY <1>3, <1>4, IdleIsFine, ReturnMoves, SignalMoves DEF Evaluate
  <1>5. CASE GoTo(h, "admit")
    <2>1. PICK c \in Handling : Moved(h, c) /\ c.pc = "admit" /\ c.work = handler[h].work
      BY <1>5, GoToMoves DEF Inv, AllPcs, GatePcs
    <2>2. c.work \notin Demands
      BY <1>2, <2>1, GovernanceAssumption
    <2>3. HandlerOK(c) /\ Knows(c)
      BY <1>2, <2>1, <2>2
      DEF HandlerOK, Knows, GatePcs, ScanPcs, SignalPcs, DemandPcs, Works, Governed
    <2> QED
      BY <1>3, <2>1, <2>3, SignalMoves DEF Evaluate
  <1> QED
    BY <1>4, <1>5 DEF Evaluate

LEMMA MayConvertKeeps ==
  ASSUME Inv, NEW h \in Handlers, MayConvert(h), UNCHANGED <<demandVars, ruleVars>>
  PROVE  Inv'
  <1>1. HandlerOK(handler[h])
    BY DEF Inv, HandlersInv
  <1>2. SignalInv'
    BY DEF MayConvert, Inv, SignalInv
  <1>3. CASE Throw(h)
    BY <1>2, <1>3, IdleIsFine, LeaveMoves, SignalMoves DEF MayConvert, Throw
  <1>4. CASE GoTo(h, "mark")
    <2>1. PICK c \in Handling : /\ Moved(h, c) /\ c.pc = "mark" /\ c.work = handler[h].work
                                /\ c.mission = handler[h].mission
      BY <1>4, GoToMoves DEF Inv, AllPcs, SignalPcs
    <2>2. HandlerOK(c) /\ Knows(c)
      BY <1>1, <2>1
      DEF MayConvert, HandlerOK, Knows, GatePcs, ScanPcs, SignalPcs, DemandPcs, Works
    <2> QED
      BY <1>2, <2>1, <2>2, SignalMoves DEF MayConvert
  <1> QED
    BY <1>3, <1>4 DEF MayConvert

LEMMA MarkConvertedKeeps ==
  ASSUME Inv, NEW h \in Handlers, MarkConverted(h), UNCHANGED <<demandVars, ruleVars>>
  PROVE  Inv'
  <1>1. HandlerOK(handler[h]) /\ handler[h] \in Handling
    BY DEF Inv, HandlersInv
  <1>2. handler[h].work \in Signals /\ handler[h].mission \in Nat
    BY <1>1 DEF MarkConverted, HandlerOK, SignalPcs, Handling
  <1> DEFINE r == [signal[handler[h].work] EXCEPT
                     !.status = "CONVERTED", !.mission = handler[h].mission]
  <1>3. signal' = [signal EXCEPT ![handler[h].work] = r] /\ r \in Signal
    BY <1>2 DEF MarkConverted, Inv, SignalInv, Signal
  <1> HIDE DEF r
  <1>4. SignalInv'
    BY <1>2, <1>3, SignalTables DEF MarkConverted
  <1> QED
    BY <1>4, IdleIsFine, ReturnMoves, SignalMoves DEF MarkConverted

-----------------------------------------------------------------------------
(* Gate, ledger and queue: each step keeps Inv *)

\* Every table of Inv is kept; missions may have grown.
LEMMA Together ==
  ASSUME Inv, NEW h \in Handlers, NEW c, Moved(h, c), Grows, (HandlerOK(c) /\ Knows(c))',
         inputs' \subseteq inputs, events' \in 0..EventBound,
         LedgerInv', DemandInv', SignalInv', RuleInv',
         missions' \in Seq(Mission),
         \A i \in DOMAIN missions' : missions'[i].work \in Demands => missions'[i].work \in granted'
  PROVE  Inv'
  <1>1. HandlersInv'
    BY HandlersFrame DEF Inv
  <1>2. QueueInv'
    BY DEF Inv, QueueInv
  <1> QED
    BY <1>1, <1>2 DEF Inv

LEMMA ObeyIsFine ==
  ASSUME NEW c \in Handling, c.work \in Governed, c.work \in Demands => c.work \in granted,
         NEW row \in LedgerRow, row.mission \in DOMAIN missions
  PROVE  HandlerOK(Obey(c, row)) /\ Knows(Obey(c, row))
  <1> DEFINE d == Obey(c, row)
  <1>1. CASE row.decision = "SKIP"
    <2>1. d \in Handling /\ d.pc = "settle" /\ d.work = c.work /\ d.mission = row.mission
      BY <1>1 DEF Obey, Handling, GatePcs, LedgerRow
    <2> HIDE DEF d
    <2>2. HandlerOK(d) /\ Knows(d)
      BY <2>1
      DEF HandlerOK, Knows, GatePcs, ScanPcs, SignalPcs, DemandPcs, Works, Governed
    <2> QED
      BY <2>2 DEF d
  <1>2. CASE row.decision # "SKIP"
    <2>1. d \in Handling /\ d.pc \in {"find", "create"} /\ d.work = c.work
      BY <1>2 DEF Obey, EnqueuePc, Handling, GatePcs
    <2> HIDE DEF d
    <2>2. HandlerOK(d) /\ Knows(d)
      BY <2>1
      DEF HandlerOK, Knows, GatePcs, ScanPcs, SignalPcs, DemandPcs, Works, Governed
    <2> QED
      BY <2>2 DEF d
  <1> QED
    BY <1>1, <1>2

\* The last of some rows of the ledger is a row of the ledger.
LEMMA LastRow ==
  ASSUME Inv, NEW S \in SUBSET (DOMAIN ledger), S # {}
  PROVE  Last(S) \in S /\ ledger[Last(S)] \in LedgerRow
         /\ ledger[Last(S)].mission \in DOMAIN missions
  <1>1. ledger \in Seq(LedgerRow)
    BY DEF Inv, LedgerInv, LedgerOK
  <1>2. Len(ledger) \in Nat /\ DOMAIN ledger = 1..Len(ledger)
    BY <1>1
  <1>3. Last(S) \in S
    BY <1>2, LastIsThere
  <1>4. \A i \in DOMAIN ledger : ledger[i] \in LedgerRow
    BY <1>1
  <1> QED
    BY <1>3, <1>4 DEF Inv, LedgerInv, LedgerOK

LEMMA AdmitKeeps ==
  ASSUME Inv, NEW h \in Handlers, Admit(h), UNCHANGED <<signalVars, demandVars, ruleVars>>
  PROVE  Inv'
  <1> DEFINE w == handler[h].work
             f == handler[h]
  <1>1. f \in Handling /\ HandlerOK(f) /\ Knows(f) /\ f.pc = "admit"
    BY DEF Admit, Inv, HandlersInv
  <1>2. f.work \in Governed /\ (f.work \in Demands => f.work \in granted)
    BY <1>1 DEF HandlerOK, Knows, GatePcs
  <1>3. SUFFICES ASSUME NEW c, Moved(h, c), HandlerOK(c), Knows(c)
                 PROVE  Inv'
    <2>1. CASE RowsOf(w) # {}
      <3> DEFINE c == Obey(f, ledger[Last(RowsOf(w))])
      <3>1. RowsOf(w) \subseteq DOMAIN ledger
        BY DEF RowsOf
      <3>2. ledger[Last(RowsOf(w))] \in LedgerRow
            /\ ledger[Last(RowsOf(w))].mission \in DOMAIN missions
        BY <2>1, <3>1, LastRow
      <3>3. HandlerOK(c) /\ Knows(c)
        BY <1>1, <1>2, <3>2, ObeyIsFine
      <3>4. Moved(h, c)
        BY <2>1 DEF Admit, Moved, Inv, HandlersInv
      <3> QED
        BY <1>3, <3>3, <3>4
    <2>2. CASE RowsOf(w) = {} /\ Identity[w] # 0 /\ Context[w] # 0 /\ Matches(w) # {}
      <3> DEFINE m == ledger[Last(Matches(w))].mission
                 c == [f EXCEPT !.pc = "skip", !.mission = m]
      <3>1. Matches(w) \subseteq DOMAIN ledger
        BY DEF Matches, History, Alike
      <3>2. /\ Last(Matches(w)) \in Matches(w)
            /\ ledger[Last(Matches(w))] \in LedgerRow
            /\ m \in DOMAIN missions
        BY <2>2, <3>1, LastRow
      <3>3. Moved(h, c)
        BY <2>2 DEF Admit, Moved, Inv, HandlersInv
      <3>4. Decided(ledger[Last(Matches(w))])
        BY <3>1, <3>2 DEF Inv, LedgerInv
      <3>5. DoneFor(m, w)
        BY <3>2, <3>4 DEF Matches, History, Alike, Decided, DoneFor
      <3>6. m \in Nat
        BY <3>2 DEF LedgerRow
      <3> HIDE DEF m
      <3>7. c \in Handling /\ c.pc = "skip" /\ c.work = w /\ c.mission = m
        BY <1>1, <3>6 DEF Handling, GatePcs
      <3> HIDE DEF c
      <3>8. HandlerOK(c) /\ Knows(c)
        BY <1>2, <3>2, <3>5, <3>7
        DEF HandlerOK, Knows, GatePcs, ScanPcs, SignalPcs, DemandPcs, Works, Governed, m
      <3> QED
        BY <1>3, <3>3, <3>8
    <2>3. CASE /\ RowsOf(w) = {}
               /\ ~(Identity[w] # 0 /\ Context[w] # 0 /\ Matches(w) # {})
      <3> DEFINE c == [f EXCEPT !.pc = EnqueuePc(w)]
      <3>1. Moved(h, c)
        BY <2>3 DEF Admit, Moved, Inv, HandlersInv
      <3>2. c \in Handling /\ c.pc \in {"find", "create"} /\ c.work = w
        BY <1>1 DEF Handling, GatePcs, EnqueuePc
      <3> HIDE DEF c
      <3>3. HandlerOK(c) /\ Knows(c)
        BY <1>2, <3>2
        DEF HandlerOK, Knows, GatePcs, ScanPcs, SignalPcs, DemandPcs, Works, Governed
      <3> QED
        BY <1>3, <3>1, <3>3
    <2> QED
      BY <2>1, <2>2, <2>3
  <1> QED
    BY <1>3, HandlerMoves
    DEF Admit, Inv, QueueInv, SignalInv, RuleInv, signalVars, demandVars, ruleVars

\* A row for a work that has none, if it is decided as the tables say.
LEMMA LedgerGrows ==
  ASSUME Inv, Grows, NEW row \in LedgerRow, row.mission \in DOMAIN missions,
         Decided(row), RowsOf(row.work) = {}, ledger' = Append(ledger, row),
         UNCHANGED missions
  PROVE  LedgerInv'
  <1>1. ledger \in Seq(LedgerRow)
    BY DEF Inv, LedgerInv, LedgerOK
  <1>2. ledger' \in Seq(LedgerRow) /\ DOMAIN ledger' = 1..(Len(ledger) + 1)
        /\ DOMAIN ledger = 1..Len(ledger)
    BY <1>1
  <1>3. \A i \in DOMAIN ledger : ledger'[i] = ledger[i]
    BY <1>1, <1>2
  <1>4. ledger'[Len(ledger) + 1] = row /\ Len(ledger) + 1 \notin DOMAIN ledger
    BY <1>1, <1>2
  <1>5. \A i \in DOMAIN ledger' : i \in DOMAIN ledger \/ i = Len(ledger) + 1
    BY <1>1, <1>2
  <1>6. \A i \in DOMAIN ledger : ledger[i].work # row.work
    BY DEF RowsOf
  <1>7. LedgerOK'
    BY <1>2, <1>3, <1>4, <1>5, <1>6 DEF Inv, LedgerInv, LedgerOK
  <1>8. \A i \in DOMAIN ledger' : Decided(ledger'[i])
    BY <1>3, <1>4, <1>5 DEF Inv, LedgerInv
  <1>9. (\A i \in DOMAIN ledger : Decided(ledger[i]))'
    BY <1>8 DEF Decided, DoneFor
  <1> QED
    BY <1>7, <1>9 DEF LedgerInv

\* A row is appended, or not, and the handler goes on.
LEMMA Appended ==
  ASSUME Inv, NEW h \in Handlers, NEW c, Moved(h, c), HandlerOK(c), Knows(c),
         NEW row \in LedgerRow, row.mission \in DOMAIN missions, Decided(row),
         ledger' = IF RowsOf(row.work) = {} THEN Append(ledger, row) ELSE ledger,
         UNCHANGED <<inputs, missions, events, signalVars, demandVars, ruleVars>>
  PROVE  Inv'
  <1>1. Grows
    BY Quiet DEF demandVars
  <1>2. LedgerInv'
    BY <1>1, LedgerGrows, LedgerStays DEF Inv
  <1>3. (HandlerOK(c) /\ Knows(c))'
    BY <1>1, KnownStays
  <1>4. DemandInv'
    BY <1>1, DemandStays DEF Inv, demandVars
  <1>5. SignalInv' /\ RuleInv'
    BY DEF Inv, SignalInv, RuleInv, signalVars, ruleVars
  <1>6. \A i \in DOMAIN missions' :
          missions'[i].work \in Demands => missions'[i].work \in granted'
    BY DEF Inv, QueueInv, demandVars
  <1> QED
    BY <1>1, <1>2, <1>3, <1>4, <1>5, <1>6, Together DEF Inv, QueueInv

LEMMA SkipKeeps ==
  ASSUME Inv, NEW h \in Handlers, Skip(h), UNCHANGED <<signalVars, demandVars, ruleVars>>
  PROVE  Inv'
  <1> DEFINE f == handler[h]
             w == handler[h].work
             row == [work |-> w, decision |-> "SKIP", mission |-> handler[h].mission]
             there == IF RowsOf(w) = {} THEN row ELSE ledger[Last(RowsOf(w))]
             c == Obey(f, there)
  <1>1. f \in Handling /\ HandlerOK(f) /\ Knows(f) /\ f.pc = "skip"
    BY DEF Skip, Inv, HandlersInv
  <1>2. f.work \in Governed /\ (f.work \in Demands => f.work \in granted)
        /\ f.mission \in DOMAIN missions /\ f.mission \in Nat /\ DoneFor(f.mission, f.work)
    BY <1>1 DEF HandlerOK, Knows, GatePcs, Handling
  <1>3. row \in LedgerRow /\ row.mission \in DOMAIN missions /\ Decided(row)
    BY <1>2 DEF LedgerRow, Decided
  <1>4. there \in LedgerRow /\ there.mission \in DOMAIN missions
    <2>1. RowsOf(w) \subseteq DOMAIN ledger
      BY DEF RowsOf
    <2>2. CASE RowsOf(w) = {}
      BY <1>3, <2>2
    <2>3. CASE RowsOf(w) # {}
      BY <2>1, <2>3, LastRow
    <2> QED
      BY <2>2, <2>3
  <1>5. Moved(h, c)
    BY DEF Skip, Moved, Inv, HandlersInv
  <1>6. ledger' = IF RowsOf(row.work) = {} THEN Append(ledger, row) ELSE ledger
    BY DEF Skip
  <1> HIDE DEF row, there
  <1>7. HandlerOK(c) /\ Knows(c)
    BY <1>1, <1>2, <1>4, ObeyIsFine
  <1> HIDE DEF c
  <1> QED
    BY <1>3, <1>5, <1>6, <1>7, Appended DEF Skip

LEMMA BindKeeps ==
  ASSUME Inv, NEW h \in Handlers, Bind(h), UNCHANGED <<signalVars, demandVars, ruleVars>>
  PROVE  Inv'
  <1> DEFINE f == handler[h]
             row == [work |-> handler[h].work, decision |-> "EXECUTE",
                     mission |-> handler[h].mission]
  <1>1. f \in Handling /\ HandlerOK(f) /\ Knows(f) /\ f.pc = "bind"
    BY DEF Bind, Inv, HandlersInv
  <1>2. f.work \in Governed /\ (f.work \in Demands => f.work \in granted)
        /\ f.mission \in DOMAIN missions /\ f.mission \in Nat
        /\ missions[f.mission].work = f.work
    BY <1>1 DEF HandlerOK, Knows, GatePcs, Handling
  <1>3. row \in LedgerRow /\ row.mission \in DOMAIN missions /\ Decided(row)
    BY <1>2 DEF LedgerRow, Decided
  <1>4. ledger' = IF RowsOf(row.work) = {} THEN Append(ledger, row) ELSE ledger
    BY DEF Bind
  <1> HIDE DEF row
  <1>5. PICK c \in Handling : /\ Moved(h, c) /\ c.pc = "settle" /\ c.work = handler[h].work
                              /\ c.mission = handler[h].mission
    BY GoToMoves DEF Bind, Inv, AllPcs, GatePcs
  <1>6. HandlerOK(c) /\ Knows(c)
    BY <1>2, <1>5
    DEF HandlerOK, Knows, GatePcs, ScanPcs, SignalPcs, DemandPcs, Works, Governed
  <1> QED
    BY <1>3, <1>4, <1>5, <1>6, Appended DEF Bind

LEMMA EnqueuedMoves ==
  ASSUME HandlersInv, NEW h \in Handlers, NEW m \in Nat, Enqueued(h, m)
  PROVE  \E c \in Handling :
           /\ Moved(h, c) /\ c.work = handler[h].work /\ c.mission = m
           /\ c.pc = IF handler[h].work \in Governed THEN "bind" ELSE "settle"
  <1> DEFINE pc == IF handler[h].work \in Governed THEN "bind" ELSE "settle"
             c == [handler[h] EXCEPT !.mission = m, !.pc = pc]
  <1>1. c \in Handling
    BY DEF HandlersInv, Handling, GatePcs
  <1>2. c.pc = pc /\ c.work = handler[h].work /\ c.mission = m
    BY DEF HandlersInv, Handling
  <1>3. Moved(h, c)
    BY DEF Enqueued, Moved, HandlersInv
  <1> QED
    BY <1>1, <1>2, <1>3

LEMMA FindOpenKeeps ==
  ASSUME Inv, NEW h \in Handlers, FindOpen(h), UNCHANGED <<signalVars, demandVars, ruleVars>>
  PROVE  Inv'
  <1> DEFINE w == handler[h].work
             S == OpenOf(w)
             f == handler[h]
  <1>1. f \in Handling /\ HandlerOK(f) /\ Knows(f) /\ f.pc = "find"
    BY DEF FindOpen, Inv, HandlersInv
  <1>2. f.work \in Works /\ (f.work \in Demands => f.work \in granted)
    BY <1>1 DEF HandlerOK, Knows, GatePcs
  <1>3. SUFFICES ASSUME NEW c, Moved(h, c), HandlerOK(c), Knows(c)
                 PROVE  Inv'
    <2>1. CASE S # {}
      <3>1. missions \in Seq(Mission) /\ S \subseteq DOMAIN missions
        BY DEF OpenOf, Inv, QueueInv
      <3>2. Len(missions) \in Nat /\ DOMAIN missions = 1..Len(missions)
        BY <3>1
      <3>3. Last(S) \in S
        BY <2>1, <3>1, <3>2, LastIsThere
      <3>4. Last(S) \in DOMAIN missions /\ Last(S) \in Nat /\ missions[Last(S)].work = w
        BY <3>2, <3>3 DEF OpenOf
      <3>5. PICK c \in Handling :
              /\ Moved(h, c) /\ c.work = w /\ c.mission = Last(S)
              /\ c.pc = IF w \in Governed THEN "bind" ELSE "settle"
        BY <2>1, <3>4, EnqueuedMoves DEF FindOpen, Inv
      <3>6. HandlerOK(c) /\ Knows(c)
        BY <1>2, <3>4, <3>5
        DEF HandlerOK, Knows, GatePcs, ScanPcs, SignalPcs, DemandPcs, Works, Governed
      <3> QED
        BY <1>3, <3>5, <3>6
    <2>2. CASE S = {}
      <3> DEFINE c == [f EXCEPT !.pc = "create"]
      <3>1. Moved(h, c)
        BY <2>2 DEF FindOpen, Moved, Inv, HandlersInv
      <3>2. c \in Handling /\ c.pc = "create" /\ c.work = w
        BY <1>1 DEF Handling, GatePcs
      <3> HIDE DEF c
      <3>3. HandlerOK(c) /\ Knows(c)
        BY <1>2, <3>2
        DEF HandlerOK, Knows, GatePcs, ScanPcs, SignalPcs, DemandPcs, Works, Governed
      <3> QED
        BY <1>3, <3>1, <3>3
    <2> QED
      BY <2>1, <2>2
  <1> QED
    BY <1>3, HandlerMoves
    DEF FindOpen, Inv, QueueInv, SignalInv, RuleInv, signalVars, demandVars, ruleVars

LEMMA CreateKeeps ==
  ASSUME Inv, NEW h \in Handlers, Create(h), UNCHANGED <<signalVars, demandVars, ruleVars>>
  PROVE  Inv'
  <1> DEFINE w == handler[h].work
             m == [work |-> w, outcome |-> "OPEN"]
             n == Len(missions) + 1
  <1>1. HandlerOK(handler[h]) /\ Knows(handler[h]) /\ handler[h].pc = "create"
    BY DEF Create, Inv, HandlersInv
  <1>2. w \in Works /\ (w \in Demands => w \in granted)
    BY <1>1 DEF HandlerOK, Knows, GatePcs
  <1>3. missions \in Seq(Mission) /\ m \in Mission
    BY <1>2 DEF Inv, QueueInv, Mission, Outcomes
  <1>4. /\ missions' = Append(missions, m) /\ missions' \in Seq(Mission)
        /\ n \in Nat /\ Len(missions') = n
        /\ DOMAIN missions' = 1..n /\ DOMAIN missions = 1..Len(missions)
    BY <1>3 DEF Create
  <1>5. missions'[n] = m /\ \A i \in DOMAIN missions : missions'[i] = missions[i]
    BY <1>3, <1>4
  <1>6. n \in DOMAIN missions' /\ \A i \in DOMAIN missions' : i \in DOMAIN missions \/ i = n
    BY <1>4
  <1>7. Grows
    BY <1>4, <1>5 DEF Grows, demandVars
  <1>8. missions'[n].work = w
    BY <1>5
  <1> HIDE DEF m, n
  <1>9. \A i \in DOMAIN missions' : missions'[i].work \in Demands => missions'[i].work \in granted'
    BY <1>2, <1>5, <1>6, <1>8 DEF Inv, QueueInv, demandVars
  <1>10. PICK c \in Handling :
           /\ Moved(h, c) /\ c.work = w /\ c.mission = n
           /\ c.pc = IF w \in Governed THEN "bind" ELSE "settle"
    BY <1>4, EnqueuedMoves DEF Create, Inv
  <1>11. (HandlerOK(c) /\ Knows(c))'
    BY <1>2, <1>6, <1>8, <1>10
    DEF HandlerOK, Knows, GatePcs, ScanPcs, SignalPcs, DemandPcs, Works, Governed, demandVars
  <1>12. LedgerInv' /\ DemandInv'
    BY <1>7, LedgerStays, DemandStays DEF Create, Inv, demandVars
  <1>13. SignalInv' /\ RuleInv'
    BY DEF Inv, SignalInv, RuleInv, signalVars, ruleVars
  <1> QED
    BY <1>4, <1>7, <1>9, <1>10, <1>11, <1>12, <1>13, Together DEF Create, Inv, QueueInv

LEMMA FinishKeeps ==
  ASSUME Inv, NEW i \in DOMAIN missions, NEW o \in Outcomes, Finish(i, o),
         UNCHANGED <<signalVars, demandVars, ruleVars>>
  PROVE  Inv'
  <1>1. missions \in Seq(Mission)
    BY DEF Inv, QueueInv
  <1>2. missions' \in Seq(Mission) /\ DOMAIN missions' = DOMAIN missions
    <2> DEFINE m == [missions[i] EXCEPT !.outcome = o]
    <2>1. missions[i] \in Mission
      BY <1>1
    <2>2. m \in Mission
      BY <2>1 DEF Mission
    <2>3. missions' = [missions EXCEPT ![i] = m]
      BY <1>1 DEF Finish
    <2> HIDE DEF m
    <2> QED
      BY <1>1, <2>2, <2>3
  <1>3. \A j \in DOMAIN missions : missions[j] \in Mission
    BY <1>1
  <1>4. \A j \in DOMAIN missions :
          missions'[j].work = missions[j].work /\ (j # i => missions'[j] = missions[j])
    BY <1>1, <1>3 DEF Finish, Mission
  <1>5. Grows
    BY <1>2, <1>4 DEF Grows, Finish, demandVars
  <1>6. HandlersInv' /\ LedgerInv' /\ DemandInv'
    BY <1>5, HandlersStay, LedgerStays, DemandStays DEF Finish, demandVars, Inv
  <1>7. QueueInv'
    BY <1>2, <1>4 DEF Finish, demandVars, Inv, QueueInv
  <1>8. SignalInv' /\ RuleInv'
    BY DEF Inv, SignalInv, RuleInv, signalVars, ruleVars
  <1> QED
    BY <1>6, <1>7, <1>8 DEF Inv

LEMMA DieKeeps ==
  ASSUME Inv, NEW h \in Handlers, Die(h), UNCHANGED <<signalVars, demandVars, ruleVars>>
  PROVE  Inv'
  <1>1. Moved(h, Idle) /\ events' \in 0..EventBound
    BY GovernanceAssumption, LeaveMoves DEF Die, Event, Inv, QueueInv
  <1>2. SignalInv' /\ RuleInv'
    BY DEF Inv, SignalInv, RuleInv, signalVars, ruleVars
  <1> QED
    BY <1>1, <1>2, IdleIsFine, HandlerMoves DEF Die, demandVars

LEMMA CatchKeeps ==
  ASSUME Inv, NEW h \in Handlers, Catch(h), UNCHANGED <<signalVars, demandVars, ruleVars>>
  PROVE  Inv'
  <1>1. Moved(h, Idle) /\ events' \in 0..EventBound
    BY GovernanceAssumption, ReturnMoves DEF Catch, Event, Inv, QueueInv
  <1>2. SignalInv' /\ RuleInv'
    BY DEF Inv, SignalInv, RuleInv, signalVars, ruleVars
  <1> QED
    BY <1>1, <1>2, IdleIsFine, HandlerMoves DEF Catch, demandVars

\* A step that moves no handler, and changes no table.
LEMMA StillKeeps ==
  ASSUME Inv, UNCHANGED <<inputs, missions, ledger, handler, events, signalVars, demandVars,
                          ruleVars>>
  PROVE  Inv'
  <1> USE DEF signalVars, demandVars, ruleVars
  <1>1. Grows
    BY Quiet
  <1>2. HandlersInv' /\ LedgerInv' /\ DemandInv'
    BY <1>1, HandlersStay, LedgerStays, DemandStays DEF Inv
  <1>3. QueueInv' /\ SignalInv' /\ RuleInv'
    BY DEF Inv, QueueInv, SignalInv, RuleInv
  <1> QED
    BY <1>2, <1>3 DEF Inv

-----------------------------------------------------------------------------
(* Rules: each step keeps Inv *)

LEMMA ElapseKeeps ==
  ASSUME Inv, NEW r \in Rules, Elapse(r), UNCHANGED <<signalVars, demandVars>>
  PROVE  Inv'
  <1>1. Grows
    BY Quiet DEF Elapse, demandVars
  <1>2. HandlersInv' /\ LedgerInv' /\ DemandInv'
    BY <1>1, HandlersStay, LedgerStays, DemandStays DEF Elapse, demandVars, Inv
  <1>3. QueueInv'
    BY GovernanceAssumption DEF Elapse, Event, demandVars, Inv, QueueInv
  <1>4. SignalInv' /\ RuleInv'
    BY DEF Elapse, Inv, SignalInv, RuleInv, signalVars
  <1> QED
    BY <1>2, <1>3, <1>4 DEF Inv

LEMMA TickKeeps ==
  ASSUME Inv, NEW h \in Handlers, NEW r \in Rules, Tick(h, r),
         UNCHANGED <<signalVars, demandVars>>
  PROVE  Inv'
  <1> DEFINE c == At("find", r)
  <1>1. c \in Handling /\ c.pc = "find" /\ c.work = r
    BY AtIsThere DEF AllPcs, GatePcs, Works
  <1>2. Moved(h, c)
    BY DEF Tick, Moved
  <1> HIDE DEF c
  <1>3. r \notin Demands
    BY GovernanceAssumption DEF Governed
  <1>4. HandlerOK(c) /\ Knows(c)
    BY <1>1, <1>3 DEF HandlerOK, Knows, GatePcs, ScanPcs, SignalPcs, DemandPcs, Works
  <1> QED
    BY <1>2, <1>4, HandlerMoves
    DEF Tick, Inv, QueueInv, SignalInv, RuleInv, signalVars, demandVars

LEMMA ListKeeps ==
  ASSUME Inv, NEW h \in Handlers, List(h), UNCHANGED <<signalVars, demandVars>>
  PROVE  Inv'
  BY StillKeeps DEF List, ruleVars

LEMMA MarkEnqueuedKeeps ==
  ASSUME Inv, NEW h \in Handlers, MarkEnqueued(h), UNCHANGED <<signalVars, demandVars>>
  PROVE  Inv'
  <1>1. Moved(h, Idle)
    BY ReturnMoves DEF MarkEnqueued
  <1>2. SignalInv' /\ RuleInv'
    BY DEF MarkEnqueued, Inv, SignalInv, RuleInv, signalVars
  <1> QED
    BY <1>1, <1>2, IdleIsFine, HandlerMoves DEF MarkEnqueued, demandVars, Inv, QueueInv

-----------------------------------------------------------------------------
(* Demands: each step keeps Inv *)

\* The handler moves to c, and of the queue only the inputs change.
LEMMA DemandMoves ==
  ASSUME Inv, NEW h \in Handlers, NEW c, Moved(h, c), HandlerOK(c), Knows(c),
         granted \subseteq granted', inputs' \subseteq inputs, DemandInv',
         UNCHANGED <<missions, ledger, events, signalVars, ruleVars>>
  PROVE  Inv'
  <1>1. Grows
    BY DEF Grows
  <1>2. LedgerInv'
    BY <1>1, LedgerStays DEF Inv
  <1>3. (HandlerOK(c) /\ Knows(c))'
    BY <1>1, KnownStays
  <1>4. SignalInv' /\ RuleInv'
    BY DEF Inv, SignalInv, RuleInv, signalVars, ruleVars
  <1>5. \A i \in DOMAIN missions' :
          missions'[i].work \in Demands => missions'[i].work \in granted'
    BY DEF Inv, QueueInv
  <1> QED
    BY <1>1, <1>2, <1>3, <1>4, <1>5, Together DEF Inv, QueueInv

\* One row of the demands is written.
LEMMA RowWritten ==
  ASSUME Inv, NEW d \in Demands, NEW row \in Demand,
         demand' = [demand EXCEPT ![d] = row], UNCHANGED <<missions, approval, granted>>,
         row.status \in {"EXECUTING", "COMPLETED", "FAILED"} => row.mission \in DOMAIN missions,
         row.status = "COMPLETED" => missions[row.mission].outcome \in {"VALID", "INVALID"},
         row.status = "FAILED" => missions[row.mission].outcome = "FAILED",
         row.status = "READY" => d \in granted
  PROVE  DemandInv'
  <1>1. demand' \in [Demands -> Demand] /\ demand'[d] = row
        /\ \A e \in Demands \ {d} : demand'[e] = demand[e]
    BY DEF Inv, DemandInv
  <1> QED
    BY <1>1 DEF Inv, DemandInv, DemandOK, Reflects

LEMMA InterpretKeeps ==
  ASSUME Inv, NEW h \in Handlers, NEW d \in Demands, Interpret(h, d),
         UNCHANGED <<signalVars, ruleVars>>
  PROVE  Inv'
  <1> DEFINE c == At("plan", d)
             row == [demand[d] EXCEPT !.status = "INTERPRETING"]
  <1>1. c \in Handling /\ c.pc = "plan" /\ c.work = d
    BY AtIsThere DEF AllPcs, DemandPcs, Works
  <1>2. Moved(h, c)
    BY BeginMoves DEF Interpret
  <1> HIDE DEF c
  <1>3. HandlerOK(c) /\ Knows(c)
    BY <1>1 DEF HandlerOK, Knows, GatePcs, ScanPcs, SignalPcs, DemandPcs, Works
  <1>4. demand' = [demand EXCEPT ![d] = row] /\ row \in Demand /\ row.status = "INTERPRETING"
    BY DEF Interpret, Inv, DemandInv, Demand
  <1> HIDE DEF row
  <1>5. DemandInv'
    BY <1>4, RowWritten DEF Interpret
  <1> QED
    BY <1>2, <1>3, <1>5, DemandMoves DEF Interpret

LEMMA PlanKeeps ==
  ASSUME Inv, NEW h \in Handlers, Plan(h), UNCHANGED <<signalVars, ruleVars>>
  PROVE  Inv'
  <1> DEFINE d == handler[h].work
             row == [demand[d] EXCEPT
                       !.status = IF d \in Critical THEN "AWAITING_APPROVAL" ELSE "PLANNED"]
  <1>1. HandlerOK(handler[h])
    BY DEF Inv, HandlersInv
  <1>2. d \in Demands
    BY <1>1 DEF Plan, HandlerOK, DemandPcs
  <1>3. /\ demand' = [demand EXCEPT ![d] = row] /\ row \in Demand
        /\ row.status \in {"AWAITING_APPROVAL", "PLANNED"}
    BY <1>2 DEF Plan, Inv, DemandInv, Demand
  <1> HIDE DEF row
  <1>4. DemandInv'
    BY <1>2, <1>3, RowWritten DEF Plan
  <1>5. CASE Return(h)
    BY <1>4, <1>5, IdleIsFine, ReturnMoves, DemandMoves DEF Plan
  <1>6. CASE GoTo(h, "ask")
    <2>1. PICK c \in Handling : Moved(h, c) /\ c.pc = "ask" /\ c.work = handler[h].work
      BY <1>6, GoToMoves DEF Inv, AllPcs, DemandPcs
    <2>2. HandlerOK(c) /\ Knows(c)
      BY <1>2, <2>1 DEF HandlerOK, Knows, GatePcs, ScanPcs, SignalPcs, DemandPcs, Works
    <2> QED
      BY <1>4, <2>1, <2>2, DemandMoves DEF Plan
  <1> QED
    BY <1>5, <1>6 DEF Plan

LEMMA AskKeeps ==
  ASSUME Inv, NEW h \in Handlers, Ask(h), UNCHANGED <<signalVars, ruleVars>>
  PROVE  Inv'
  <1>1. HandlerOK(handler[h])
    BY DEF Inv, HandlersInv
  <1>2. handler[h].work \in Demands
    BY <1>1 DEF Ask, HandlerOK, DemandPcs
  <1>3. DemandInv'
    BY <1>2 DEF Ask, Inv, DemandInv, DemandOK, Reflects
  <1> QED
    BY <1>3, IdleIsFine, ReturnMoves, DemandMoves DEF Ask

LEMMA ResolveKeeps ==
  ASSUME Inv, NEW h \in Handlers, NEW d \in Demands, NEW v \in DOMAIN DemandStatusOf,
         Resolve(h, d, v), UNCHANGED <<signalVars, ruleVars>>
  PROVE  Inv'
  <1> DEFINE c == [At("decide", d) EXCEPT !.verdict = v]
  <1>1. v \in Resolutions
    BY DEF DemandStatusOf, Resolutions
  <1>2. c \in Handling /\ c.pc = "decide" /\ c.work = d /\ c.verdict = v
    BY <1>1, AtIsThere DEF AllPcs, DemandPcs, Works, Handling
  <1>3. Moved(h, c)
    BY BeginMoves DEF Resolve
  <1> HIDE DEF c
  <1>4. HandlerOK(c) /\ Knows(c)
    BY <1>1, <1>2 DEF HandlerOK, Knows, GatePcs, ScanPcs, SignalPcs, DemandPcs, Works
  <1>5. DemandInv'
    BY Quiet, DemandStays DEF Resolve, Inv
  <1> QED
    BY <1>3, <1>4, <1>5, DemandMoves DEF Resolve

LEMMA DecideKeeps ==
  ASSUME Inv, NEW h \in Handlers, Decide(h), UNCHANGED <<signalVars, ruleVars>>
  PROVE  Inv'
  <1>1. HandlerOK(handler[h])
    BY DEF Inv, HandlersInv
  <1>2. handler[h].work \in Demands /\ handler[h].verdict \in Resolutions
    BY <1>1 DEF Decide, HandlerOK, DemandPcs
  <1>3. granted \subseteq granted'
        /\ (handler[h].verdict = "APPROVED" => handler[h].work \in granted')
    BY DEF Decide
  <1>4. DemandInv'
    BY <1>2, <1>3 DEF Decide, Inv, DemandInv, DemandOK, Reflects
  <1>5. PICK c \in Handling : /\ Moved(h, c) /\ c.pc = "apply" /\ c.work = handler[h].work
                              /\ c.verdict = handler[h].verdict
    BY GoToMoves DEF Decide, Inv, AllPcs, DemandPcs
  <1>6. (HandlerOK(c) /\ Knows(c))'
    BY <1>2, <1>3, <1>5 DEF HandlerOK, Knows, GatePcs, ScanPcs, SignalPcs, DemandPcs, Works
  <1>7. Grows
    BY <1>3 DEF Decide, Grows
  <1>8. LedgerInv' /\ SignalInv' /\ RuleInv'
    BY <1>7, LedgerStays DEF Decide, Inv, SignalInv, RuleInv, signalVars, ruleVars
  <1>9. \A i \in DOMAIN missions' :
          missions'[i].work \in Demands => missions'[i].work \in granted'
    BY <1>3 DEF Decide, Inv, QueueInv
  <1> QED
    BY <1>4, <1>5, <1>6, <1>7, <1>8, <1>9, Together DEF Decide, Inv, QueueInv

LEMMA ApplyKeeps ==
  ASSUME Inv, NEW h \in Handlers, Apply(h), UNCHANGED <<signalVars, ruleVars>>
  PROVE  Inv'
  <1> DEFINE d == handler[h].work
             row == [demand[d] EXCEPT !.status = DemandStatusOf[handler[h].verdict]]
  <1>1. HandlerOK(handler[h]) /\ Knows(handler[h])
    BY DEF Inv, HandlersInv
  <1>2. d \in Demands /\ handler[h].verdict \in Resolutions
        /\ (handler[h].verdict = "APPROVED" => d \in granted)
    BY <1>1 DEF Apply, HandlerOK, DemandPcs, Knows
  <1>3. /\ demand' = [demand EXCEPT ![d] = row] /\ row \in Demand
        /\ row.status \in {"READY", "PAUSED", "PLANNED"}
        /\ row.status = "READY" => handler[h].verdict = "APPROVED"
    BY <1>2 DEF Apply, Inv, DemandInv, Demand, DemandStatusOf, Resolutions
  <1> HIDE DEF row
  <1>4. DemandInv'
    BY <1>2, <1>3, RowWritten DEF Apply
  <1> QED
    BY <1>4, IdleIsFine, ReturnMoves, DemandMoves DEF Apply

LEMMA ExecuteKeeps ==
  ASSUME Inv, NEW h \in Handlers, NEW d \in Demands, Execute(h, d),
         UNCHANGED <<signalVars, ruleVars>>
  PROVE  Inv'
  <1> DEFINE c == At("admit", d)
  <1>1. c \in Handling /\ c.pc = "admit" /\ c.work = d
    BY AtIsThere DEF AllPcs, GatePcs, Works
  <1>2. Moved(h, c)
    BY BeginMoves DEF Execute
  <1>3. d \in granted
    BY DEF Execute, CanExecute, Inv, DemandInv
  <1> HIDE DEF c
  <1>4. HandlerOK(c) /\ Knows(c)
    BY <1>1, <1>3
    DEF HandlerOK, Knows, GatePcs, ScanPcs, SignalPcs, DemandPcs, Works, Governed
  <1>5. DemandInv'
    BY Quiet, DemandStays DEF Execute, Inv
  <1> QED
    BY <1>2, <1>4, <1>5, DemandMoves DEF Execute

LEMMA LinkKeeps ==
  ASSUME Inv, NEW h \in Handlers, Link(h), UNCHANGED <<signalVars, ruleVars>>
  PROVE  Inv'
  <1> DEFINE row == [status |-> "EXECUTING", mission |-> handler[h].mission]
  <1>1. HandlerOK(handler[h]) /\ handler[h] \in Handling
    BY DEF Inv, HandlersInv
  <1>2. handler[h].mission \in DOMAIN missions /\ row \in Demand
    BY <1>1 DEF Link, HandlerOK, Handling, Demand
  <1>3. DemandInv'
    BY <1>2, RowWritten DEF Link
  <1> QED
    BY <1>3, IdleIsFine, ReturnMoves, DemandMoves DEF Link

LEMMA ReconcileKeeps ==
  ASSUME Inv, NEW h \in Handlers, NEW d \in Demands, Reconcile(h, d),
         UNCHANGED <<signalVars, ruleVars>>
  PROVE  Inv'
  <1> DEFINE m == demand[d].mission
             c == [At("close", d) EXCEPT !.mission = m]
  <1>1. m \in DOMAIN missions /\ m \in Nat /\ missions[m].outcome # "OPEN"
    BY DEF Reconcile, Inv, DemandInv, DemandOK, Demand
  <1>2. c \in Handling /\ c.pc = "close" /\ c.work = d /\ c.mission = m
    BY <1>1, AtIsThere DEF AllPcs, DemandPcs, Works, Handling
  <1>3. Moved(h, c)
    BY DEF Reconcile, Moved
  <1> HIDE DEF c
  <1>4. HandlerOK(c) /\ Knows(c)
    BY <1>1, <1>2 DEF HandlerOK, Knows, GatePcs, ScanPcs, SignalPcs, DemandPcs, Works
  <1>5. DemandInv'
    BY Quiet, DemandStays DEF Reconcile, Inv
  <1> QED
    BY <1>3, <1>4, <1>5, DemandMoves DEF Reconcile

LEMMA CloseKeeps ==
  ASSUME Inv, NEW h \in Handlers, Close(h), UNCHANGED <<signalVars, ruleVars>>
  PROVE  Inv'
  <1> DEFINE d == handler[h].work
             m == handler[h].mission
             row == [demand[d] EXCEPT !.status = Closing(missions[m].outcome)]
  <1>1. HandlerOK(handler[h]) /\ Knows(handler[h])
    BY DEF Inv, HandlersInv
  <1>2. d \in Demands /\ m \in DOMAIN missions /\ missions[m].outcome # "OPEN"
    BY <1>1 DEF Close, HandlerOK, DemandPcs, Knows
  <1>3. missions[m].outcome \in Outcomes
    <2>1. missions \in Seq(Mission)
      BY DEF Inv, QueueInv
    <2>2. missions[m] \in Mission
      BY <1>2, <2>1
    <2> QED
      BY <2>2 DEF Mission
  <1>4. DemandInv'
    <2>1. CASE ~Closable(h)
      <3>1. UNCHANGED <<demand, approval>> /\ Grows
        BY <2>1, Quiet DEF Close
      <3> QED
        BY <3>1, DemandStays DEF Inv
    <2>2. CASE Closable(h)
      <3>1. /\ demand' = [demand EXCEPT ![d] = row] /\ row \in Demand
            /\ row.status = Closing(missions[m].outcome) /\ row.mission = m
        BY <1>2, <2>2 DEF Close, Closable, Closing, Inv, DemandInv, Demand
      <3> HIDE DEF row
      <3>2. /\ row.status \in {"COMPLETED", "FAILED"}
            /\ row.status = "COMPLETED" => missions[m].outcome \in {"VALID", "INVALID"}
            /\ row.status = "FAILED" => missions[m].outcome = "FAILED"
        BY <1>2, <1>3, <3>1 DEF Closing, Outcomes
      <3> QED
        BY <1>2, <3>1, <3>2, RowWritten DEF Close
    <2> QED
      BY <2>1, <2>2
  <1> QED
    BY <1>4, IdleIsFine, ReturnMoves, DemandMoves DEF Close

-----------------------------------------------------------------------------
(* The invariant *)

LEMMA InitInv ==
  ASSUME Init
  PROVE  Inv
  <1> USE DEF Init, GovernanceInit, SignalInit, DemandInit, RuleInit
  <1>1. HandlersInv
    BY IdleIsFine DEF HandlersInv, HandlerOK
  <1>2. QueueInv
    BY GovernanceAssumption DEF QueueInv
  <1>3. LedgerInv
    BY DEF LedgerInv, LedgerOK
  <1>4. SignalInv
    BY DEF SignalInv, Signal, NoSignal
  <1>5. DemandInv
    BY DEF DemandInv, Demand, DemandOK, Reflects
  <1>6. RuleInv
    BY DEF RuleInv
  <1> QED
    BY <1>1, <1>2, <1>3, <1>4, <1>5, <1>6 DEF Inv

LEMMA ProceedKeeps ==
  ASSUME Inv, NEW h \in Handlers, Proceed(h)
  PROVE  Inv'
  <1>1. CASE GateStep(h) /\ UNCHANGED <<signalVars, demandVars, ruleVars>>
    BY <1>1, AdmitKeeps, SkipKeeps, FindOpenKeeps, CreateKeeps, BindKeeps DEF GateStep
  <1>2. CASE SignalStep(h) /\ UNCHANGED <<demandVars, ruleVars>>
    BY <1>2, FetchKeeps, StoreKeeps, IngestKeeps, LoadKeeps, JudgeKeeps, EvaluateKeeps, MayConvertKeeps,
       MarkConvertedKeeps DEF SignalStep
  <1>3. CASE DemandStep(h) /\ UNCHANGED <<signalVars, ruleVars>>
    BY <1>3, PlanKeeps, AskKeeps, DecideKeeps, ApplyKeeps, LinkKeeps, CloseKeeps DEF DemandStep
  <1>4. CASE RuleStep(h) /\ UNCHANGED <<signalVars, demandVars>>
    BY <1>4, ListKeeps, TickKeeps, MarkEnqueuedKeeps DEF RuleStep
  <1> QED
    BY <1>1, <1>2, <1>3, <1>4 DEF Proceed

LEMMA RequestKeeps ==
  ASSUME Inv, NEW h \in Handlers, Request(h)
  PROVE  Inv'
  <1>1. CASE \E s \in Signals : Deliver(h, s) /\ UNCHANGED <<demandVars, ruleVars>>
    BY <1>1, DeliverKeeps
  <1>2. CASE /\ \E d \in Demands : Interpret(h, d) \/ Execute(h, d) \/ Reconcile(h, d)
             /\ UNCHANGED <<signalVars, ruleVars>>
    BY <1>2, InterpretKeeps, ExecuteKeeps, ReconcileKeeps
  <1>3. CASE /\ \E d \in Demands, v \in DOMAIN DemandStatusOf : Resolve(h, d, v)
             /\ UNCHANGED <<signalVars, ruleVars>>
    BY <1>3, ResolveKeeps
  <1> QED
    BY <1>1, <1>2, <1>3 DEF Request

LEMMA WorldKeeps ==
  ASSUME Inv, World
  PROVE  Inv'
  <1>1. CASE /\ \E i \in DOMAIN missions, o \in Outcomes : Finish(i, o)
             /\ UNCHANGED <<signalVars, demandVars, ruleVars>>
    BY <1>1, FinishKeeps
  <1>2. CASE /\ \E h \in Handlers : Die(h) \/ Catch(h)
             /\ UNCHANGED <<signalVars, demandVars, ruleVars>>
    BY <1>2, DieKeeps, CatchKeeps
  <1>3. CASE \E s \in Scans : Push(s) /\ UNCHANGED <<demandVars, ruleVars>>
    BY <1>3, PushKeeps
  <1>4. CASE \E r \in Rules : Elapse(r) /\ UNCHANGED <<signalVars, demandVars>>
    BY <1>4, ElapseKeeps
  <1> QED
    BY <1>1, <1>2, <1>3, <1>4 DEF World

LEMMA LookKeeps ==
  ASSUME Inv, NEW h \in Handlers, Look(h)
  PROVE  Inv'
  BY StillKeeps DEF Look, StartCycle

LEMMA NextKeeps ==
  ASSUME Inv, [Next]_vars
  PROVE  Inv'
  <1>1. CASE World
    BY <1>1, WorldKeeps
  <1>2. ASSUME NEW h \in Handlers, Proceed(h) \/ Look(h) \/ Request(h)
        PROVE  Inv'
    BY <1>2, ProceedKeeps, LookKeeps, RequestKeeps
  <1>3. CASE UNCHANGED vars
    BY <1>3, StillKeeps DEF vars, gateVars
  <1> QED
    BY <1>1, <1>2, <1>3 DEF Next

\* Inv holds of every reachable state, for any works, handlers, policy and history.
THEOREM Invariance == Spec => []Inv
  <1>1. Init => Inv
    BY InitInv
  <1>2. Inv /\ [Next]_vars => Inv'
    BY NextKeeps
  <1> QED
    BY <1>1, <1>2, PTL DEF Spec

-----------------------------------------------------------------------------
(* The supervisors' cycles *)

\* The steps that change what a cycle has yet to come to, other than List.
CycleStep(h) ==
  \/ Leave(h) \/ StartCycle(h) \/ Ingest(h)
  \/ \E r \in Repos : Fetch(h, r)
  \/ \E s \in Signals : Load(h, s)
  \/ \E r \in Rules : Tick(h, r)

LEMMA CycleSteps ==
  ASSUME [Next]_vars
  PROVE  \/ UNCHANGED cycleVars
         \/ \E h \in Handlers : CycleStep(h)
         \/ \E h \in Handlers : List(h) /\ UNCHANGED <<signalVars, demandVars>>
  <1>1. CASE World
    BY <1>1 DEF World, Finish, Die, Catch, Push, Elapse, CycleStep
  <1>2. ASSUME NEW h \in Handlers, Request(h)
        PROVE  UNCHANGED cycleVars
    BY <1>2 DEF Request, Deliver, Interpret, Execute, Reconcile, Resolve
  <1>3. ASSUME NEW h \in Handlers, Look(h)
        PROVE  CycleStep(h)
    BY <1>3 DEF Look, CycleStep
  <1>4. ASSUME NEW h \in Handlers, Proceed(h)
        PROVE  \/ UNCHANGED cycleVars \/ CycleStep(h)
               \/ List(h) /\ UNCHANGED <<signalVars, demandVars>>
    <2>1. CASE GateStep(h)
      BY <2>1 DEF GateStep, Admit, Skip, FindOpen, Create, Bind
    <2>2. CASE SignalStep(h)
      BY <2>2 DEF SignalStep, CycleStep, Store, Judge, Evaluate, MayConvert, MarkConverted, Throw
    <2>3. CASE DemandStep(h)
      BY <2>3 DEF DemandStep, Plan, Ask, Decide, Apply, Link, Close
    <2>4. CASE RuleStep(h) /\ UNCHANGED <<signalVars, demandVars>>
      BY <2>4 DEF RuleStep, CycleStep, MarkEnqueued
    <2> QED
      BY <1>4, <2>1, <2>2, <2>3, <2>4 DEF Proceed
  <1>5. CASE UNCHANGED vars
    BY <1>5 DEF vars, gateVars
  <1> QED
    BY <1>1, <1>2, <1>3, <1>4, <1>5 DEF Next

LEMMA AheadKeeps ==
  ASSUME Inv, AheadInv, [Next]_vars
  PROVE  AheadInv'
  <1>1. CASE UNCHANGED cycleVars
    BY <1>1 DEF AheadInv, cycleVars
  <1>2. ASSUME NEW h \in Handlers, CycleStep(h) \/ List(h)
        PROVE  AheadInv'
    <2>1. CASE Leave(h)
      BY <2>1 DEF Leave, AheadInv
    <2>2. CASE StartCycle(h)
      BY <2>2 DEF StartCycle, Changing, AheadInv
    <2>3. CASE Ingest(h)
      <3>1. handler[h].work \in Scans
        BY <2>3 DEF Ingest, Inv, HandlersInv, HandlerOK, ScanPcs
      <3> QED
        BY <2>3, <3>1 DEF Ingest, AheadInv
    <2>4. CASE List(h)
      BY <2>4 DEF List, AheadInv
    <2>5. CASE \/ \E r \in Repos : Fetch(h, r)
               \/ \E s \in Signals : Load(h, s)
               \/ \E r \in Rules : Tick(h, r)
      BY <2>5 DEF Fetch, Load, Tick, AheadInv
    <2> QED
      BY <1>2, <2>1, <2>2, <2>3, <2>4, <2>5 DEF CycleStep
  <1> QED
    BY <1>1, <1>2, CycleSteps

THEOREM AheadInvariance == Spec => []AheadInv
  <1>1. Init => AheadInv
    BY DEF Init, GovernanceInit, AheadInv
  <1>2. Inv /\ AheadInv /\ [Next]_vars => AheadInv'
    BY AheadKeeps
  <1> QED
    BY <1>1, <1>2, Invariance, PTL DEF Spec

-----------------------------------------------------------------------------
(* What follows *)

\* The tables and the handlers have their types, and the ids they hold name rows.
THEOREM TypeCorrect == Spec => []TypeOK
  <1>1. Inv /\ AheadInv => TypeOK
    BY DEF Inv, HandlersInv, QueueInv, LedgerInv, SignalInv, DemandInv, RuleInv, AheadInv, TypeOK
  <1> QED
    BY <1>1, Invariance, AheadInvariance, PTL

\* The gate skips only work that was executed for the same identity and context and has
\* a valid result (already-done-gate.ts).
THEOREM SkipsAreSound == Spec => []SkippedWorkWasDone
  <1>1. Inv => SkippedWorkWasDone
    BY DEF Inv, LedgerInv, Decided, DoneFor, SkippedWorkWasDone
  <1> QED
    BY <1>1, Invariance, PTL

\* Only demands that were approved get missions (demand.service.ts, approval.service.ts).
THEOREM ApprovalFirst == Spec => []DemandNeedsApproval
  <1>1. Inv => DemandNeedsApproval
    BY DEF Inv, QueueInv, DemandNeedsApproval
  <1> QED
    BY <1>1, Invariance, PTL

\* A demand is closed as its mission ended (reconcileDemandFromMission).
THEOREM ClosedAsEnded == Spec => []DemandReflectsMission
  <1>1. Inv => DemandReflectsMission
    BY DEF Inv, DemandInv, Reflects, DemandReflectsMission
  <1> QED
    BY <1>1, Invariance, PTL
=============================================================================
