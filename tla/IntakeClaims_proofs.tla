------------------------- MODULE IntakeClaims_proofs -------------------------
(***************************************************************************)
(* That a signal or a demand has one mission, a rule one per interval, and *)
(* that a signal is converted to the mission of its decision, for any      *)
(* works, handlers and deaths.  The gate and the dedupe of the queue take  *)
(* no part in it (both only look at what is open, or done): what protects  *)
(* a work is the status of its own row, which its handler has to pass      *)
(* before it creates a mission and moves on after it.                      *)
(***************************************************************************)
EXTENDS Intake_proofs

\* Nothing is claimed about works that two handlers were at at once, or whose handler
\* died, unless they are signals.
Exempt(w) == w \in crossed \/ w \in dropped \ Signals

\* The next mission of w would not be one too many.
Fresh(w) == Cardinality(MissionsOf(w)) < Allowed(w)

\* Before and after the enqueue.
Beginning == {"admit", "skip", "find", "create"}
Ending == {"bind", "settle"}

\* What the ledger has for s is the mission m.
DecidedFor(s, m) == \E i \in RowsOf(s) : ledger[i].mission = m

\* The row of w does not say yet that w was taken care of.
MayBegin(w) ==
  /\ w \in Signals => signal[w].status \in {"NONE", "DETECTED"}
  /\ w \in Demands => demand[w].status \notin {"EXECUTING", "COMPLETED", "FAILED"}
  /\ w \in Rules => due[w]

\* The decision by which s is converted.
Sentenced(s) == signal[s].status = "EVALUATED" /\ signal[s].decision = "CONVERT_CANDIDATE"

Undecided(d) == approval[d] \in {"NONE", "PENDING"}

\* What is true of the work of a handler that is at c.
Holder(c) ==
  LET w == c.work IN
  ~Exempt(w) =>
    /\ c.pc \in Beginning => Fresh(w)
    /\ w \in Signals =>
         /\ c.pc \in {"judge", "evaluate"} => signal[w].status = "DETECTED"
         /\ c.pc \in GatePcs \cup {"mark"} => Sentenced(w)
         /\ c.pc \in Beginning \cup {"bind"} => RowsOf(w) = {}
         /\ c.pc \in {"settle", "mark"} => DecidedFor(w, c.mission)
    /\ w \in Demands =>
         /\ c.pc \in {"plan", "ask"} => approval[w] = "NONE"
         /\ c.pc = "decide" => approval[w] = "PENDING"
         /\ c.pc \in GatePcs \cup {"apply"} => ~Undecided(w)
         /\ c.pc = "apply" => Fresh(w)

\* What is true of a work, whoever is at it.
Settled(w) ==
  ~Exempt(w) =>
    /\ Cardinality(MissionsOf(w)) <= Allowed(w)
    /\ MayBegin(w) =>
         \/ Fresh(w)
         \/ w \notin Signals /\ \E h \in Handlers : handler[h].work = w /\ handler[h].pc \in Ending
    /\ w \in Signals =>
         /\ signal[w].status \in {"NONE", "DETECTED"} => RowsOf(w) = {}
         /\ signal[w].status = "CONVERTED" => DecidedFor(w, signal[w].mission)
    /\ w \in Demands /\ Undecided(w) =>
         demand[w].status \notin {"READY", "EXECUTING", "COMPLETED", "FAILED"}

\* A work that was not crossed has one handler.
Private ==
  \A w \in Works \ crossed : \A p, q \in Handlers : Busy(p, w) /\ Busy(q, w) => p = q

\* Nothing is known of a delivery or a request before it comes.
Unarrived ==
  \A w \in inputs \cap (Governed \ Scans) :
    /\ \A h \in Handlers : handler[h].work # w
    /\ w \in Signals => signal[w].status = "NONE"
    /\ w \in Demands => demand[w].status = "NONE" /\ approval[w] = "NONE"

\* A rule that a cycle has listed, and has yet to come to, may have one more mission.
Listed ==
  \A h \in Handlers : \A r \in ahead[h] \cap Rules :
    /\ handler[h].work = r => handler[h].pc \in Passive
    /\ ~Exempt(r) => Fresh(r)

Claims ==
  /\ Private /\ Unarrived /\ Listed
  /\ \A h \in Handlers : Holder(handler[h])
  /\ \A w \in Works : Settled(w)

-----------------------------------------------------------------------------
(* Frames: what a step leaves alone keeps its part of Claims *)

\* No cycle lists rules.
Shrinks == \A q \in Handlers : ahead'[q] \cap Rules \subseteq ahead[q]

\* The tables are the same at w ...
SameAt(w) ==
  /\ UNCHANGED <<MissionsOf(w), RowsOf(w)>>
  /\ \A i \in RowsOf(w) : ledger'[i] = ledger[i]
  /\ w \in Signals => UNCHANGED signal[w]
  /\ w \in Demands => UNCHANGED <<demand[w], approval[w]>>
  /\ w \in Rules => UNCHANGED <<due[w], rounds[w]>>

\* ... or differ in what a handler writes that has no claim on w: it detects a signal or
\* closes a demand.
KeptAt(w) ==
  /\ UNCHANGED <<MissionsOf(w), RowsOf(w)>>
  /\ \A i \in RowsOf(w) : ledger'[i] = ledger[i]
  /\ w \in Signals => \/ UNCHANGED signal[w]
                      \/ signal[w].status = "NONE" /\ signal'[w].status = "DETECTED"
  /\ w \in Demands => /\ UNCHANGED approval[w]
                      /\ \/ UNCHANGED demand[w]
                         \/ /\ demand[w].status = "EXECUTING"
                            /\ demand'[w].status \in {"COMPLETED", "FAILED"}
  /\ w \in Rules => UNCHANGED <<due[w], rounds[w]>>

LEMMA SameIsKept == \A w : SameAt(w) => KeptAt(w)
  BY DEF SameAt, KeptAt

\* The three kinds of works have nothing in common.
LEMMA Kinds ==
  /\ Signals \cap Demands = {} /\ Signals \cap Rules = {} /\ Demands \cap Rules = {}
  /\ Signals \subseteq Works /\ Demands \subseteq Works /\ Rules \subseteq Works
  /\ NoWork \notin Works /\ Scans \subseteq Signals
  BY GovernanceAssumption, SignalAssumption DEF Works, Governed

LEMMA HolderStays ==
  ASSUME NEW c, KeptAt(c.work), Holder(c), Exempt(c.work) => Exempt(c.work)'
  PROVE  Holder(c)'
  <1> DEFINE w == c.work
  <1>1. CASE Exempt(w)'
    BY <1>1 DEF Holder
  <1>2. CASE ~Exempt(w)'
    <2>1. ~Exempt(w)
      BY <1>2
    <2>2. Fresh(w)' <=> Fresh(w)
      BY Kinds DEF KeptAt, Fresh, Allowed, Works, Governed
    <2>3. w \in Signals => \A m : DecidedFor(w, m) => DecidedFor(w, m)'
      BY DEF KeptAt, DecidedFor
    <2>4. w \in Demands => (Undecided(w)' <=> Undecided(w)) /\ approval'[w] = approval[w]
      BY DEF KeptAt, Undecided
    <2>5. w \in Signals =>
            /\ signal[w].status = "DETECTED" => signal'[w].status = "DETECTED"
            /\ Sentenced(w) => Sentenced(w)'
            /\ RowsOf(w)' = RowsOf(w)
      BY DEF KeptAt, Sentenced
    <2> HIDE DEF w
    <2> QED
      BY <2>1, <2>2, <2>3, <2>4, <2>5 DEF Holder, w
  <1> QED
    BY <1>1, <1>2

LEMMA FreshStays ==
  ASSUME NEW w, KeptAt(w), Fresh(w)
  PROVE  Fresh(w)'
  BY DEF KeptAt, Fresh, Allowed

\* A work stays settled if the handlers that have enqueued it stay.
LEMMA SettledStays ==
  ASSUME NEW w \in Works, KeptAt(w), Settled(w), Exempt(w) => Exempt(w)',
         \A h \in Handlers : handler[h].work = w /\ handler[h].pc \in Ending =>
           \/ handler'[h].work = w /\ handler'[h].pc \in Ending
           \/ w \in Signals \/ Exempt(w)' \/ ~MayBegin(w)
  PROVE  Settled(w)'
  <1>1. CASE Exempt(w)'
    BY <1>1 DEF Settled
  <1>2. CASE ~Exempt(w)'
    <2>1. ~Exempt(w)
      BY <1>2
    <2>2. (Fresh(w)' <=> Fresh(w)) /\ Cardinality(MissionsOf(w))' = Cardinality(MissionsOf(w))
          /\ Allowed(w)' = Allowed(w)
      BY Kinds DEF KeptAt, Fresh, Allowed, Works, Governed
    <2>3. w \in Signals => \A m : DecidedFor(w, m) => DecidedFor(w, m)'
      BY DEF KeptAt, DecidedFor
    <2>4. w \in Demands => (Undecided(w)' <=> Undecided(w))
      BY DEF KeptAt, Undecided
    <2>5. MayBegin(w)' => MayBegin(w)
      BY DEF KeptAt, MayBegin
    <2>6. w \in Signals =>
            /\ signal'[w].status \in {"NONE", "DETECTED"} => signal[w].status \in {"NONE", "DETECTED"}
            /\ signal'[w].status = "CONVERTED" => UNCHANGED signal[w]
            /\ RowsOf(w)' = RowsOf(w)
      BY DEF KeptAt
    <2>7. /\ w \in Demands
          /\ demand[w].status \notin {"READY", "EXECUTING", "COMPLETED", "FAILED"}
          => UNCHANGED demand[w]
      BY DEF KeptAt
    <2> QED
      BY <1>2, <2>1, <2>2, <2>3, <2>4, <2>5, <2>6, <2>7 DEF Settled
  <1> QED
    BY <1>1, <1>2

-----------------------------------------------------------------------------
(* The steps of handlers *)

\* A handler without a claim on its work.
LEMMA PassiveHolds ==
  ASSUME NEW c, c.pc \in Passive
  PROVE  Holder(c) /\ Holder(c)'
  BY DEF Holder, Passive, Beginning, GatePcs

\* Once h is at c, the other handlers are where they were.
LEMMA MovedTo ==
  ASSUME HandlersInv, NEW h \in Handlers, NEW c, Moved(h, c)
  PROVE  handler'[h] = c /\ \A q \in Handlers \ {h} : handler'[q] = handler[q]
  BY DEF HandlersInv, Moved

\* The only handler at w that is busy goes on; what is written, is written at w.
LEMMA StepKeeps ==
  ASSUME HandlersInv, Claims, Shrinks, NEW h \in Handlers, NEW c, NEW w \in Works, Moved(h, c),
         handler[h].work = w \/ handler[h].pc \in Passive, c.work \in {w, NoWork},
         crossed \subseteq crossed', dropped \subseteq dropped', inputs' \subseteq inputs,
         w \notin inputs' \cap (Governed \ Scans), w \notin ahead'[h] \cap Rules,
         w \in crossed' \/ \A q \in Handlers \ {h} : ~Busy(q, w),
         \A v \in Works \ {w} : SameAt(v),
         Holder(c)', Settled(w)'
  PROVE  Claims'
  <1>1. handler'[h] = c /\ \A q \in Handlers \ {h} : handler'[q] = handler[q]
    BY MovedTo
  <1>2. \A v \in Works : Exempt(v) => Exempt(v)'
    BY DEF Exempt
  <1>3. Private'
    <2> SUFFICES ASSUME NEW v \in Works \ crossed', NEW p \in Handlers, NEW q \in Handlers,
                        Busy(p, v)', Busy(q, v)'
                 PROVE  p = q
      BY DEF Private
    <2>1. \A g \in Handlers \ {h} : Busy(g, v)' => Busy(g, v)
      BY <1>1 DEF Busy, Shrinks
    <2>2. CASE v = w
      BY <2>1, <2>2
    <2>3. CASE v # w
      <3>1. Busy(h, v)' => Busy(h, v)
        BY <1>1, <2>3, Kinds DEF Busy, Shrinks
      <3> QED
        BY <2>1, <3>1 DEF Claims, Private
    <2> QED
      BY <2>2, <2>3
  <1>4. Unarrived'
    <2> SUFFICES ASSUME NEW v \in inputs' \cap (Governed \ Scans)
                 PROVE  /\ \A q \in Handlers : handler'[q].work # v
                        /\ v \in Signals => signal'[v].status = "NONE"
                        /\ v \in Demands => demand'[v].status = "NONE" /\ approval'[v] = "NONE"
      BY DEF Unarrived
    <2>1. v \in Works /\ v # w /\ v # NoWork /\ v \in inputs \cap (Governed \ Scans)
      BY Kinds DEF Works, Governed
    <2>2. /\ \A q \in Handlers : handler[q].work # v
          /\ v \in Signals => signal[v].status = "NONE"
          /\ v \in Demands => demand[v].status = "NONE" /\ approval[v] = "NONE"
      BY <2>1 DEF Claims, Unarrived
    <2> QED
      BY <1>1, <2>1, <2>2 DEF SameAt
  <1>5. ASSUME NEW q \in Handlers
        PROVE  Holder(handler[q])'
    <2>1. CASE q = h
      BY <1>1, <2>1 DEF Holder
    <2>2. CASE q # h
      <3>1. PICK d : d = handler[q]
        OBVIOUS
      <3>2. handler'[q] = d /\ Holder(d)
        BY <1>1, <2>2, <3>1 DEF Claims
      <3>3. Holder(d)'
        <4>1. CASE d.work \in Works \ {w}
          BY <1>2, <3>2, <4>1, HolderStays, SameIsKept
        <4>2. CASE d.work \notin Works
          <5>1. HandlerOK(d) /\ d.pc = "idle"
            BY <3>1, <4>2 DEF HandlersInv, HandlerOK
          <5> QED
            BY <5>1, PassiveHolds DEF Passive
        <4>3. CASE d.work = w
          <5>1. CASE d.pc \in Passive
            BY <5>1, PassiveHolds
          <5>2. CASE d.pc \notin Passive
            <6>1. w \in crossed'
              BY <2>2, <3>1, <4>3, <5>2 DEF Busy
            <6> QED
              BY <4>3, <6>1 DEF Holder, Exempt
          <5> QED
            BY <5>1, <5>2
        <4> QED
          BY <4>1, <4>2, <4>3
      <3> QED
        BY <3>2, <3>3 DEF Holder
    <2> QED
      BY <2>1, <2>2
  <1>6. ASSUME NEW v \in Works
        PROVE  Settled(v)'
    <2>1. CASE v = w
      BY <2>1
    <2>2. CASE v # w
      <3>1. \A q \in Handlers :
              handler[q].work = v /\ handler[q].pc \in Ending => handler'[q] = handler[q]
        BY <1>1, <2>2, Kinds DEF Passive, Ending
      <3> QED
        BY <1>2, <2>2, <3>1, SettledStays, SameIsKept DEF Claims
    <2> QED
      BY <2>1, <2>2
  <1>7. Listed'
    <2> SUFFICES ASSUME NEW q \in Handlers, NEW r \in ahead'[q] \cap Rules
                 PROVE  /\ handler'[q].work = r => handler'[q].pc \in Passive
                        /\ ~Exempt(r)' => Fresh(r)'
      BY DEF Listed
    <2>1. /\ handler[q].work = r => handler[q].pc \in Passive
          /\ ~Exempt(r) => Fresh(r)
      BY DEF Claims, Listed, Shrinks
    <2>2. r \in Works /\ r # NoWork
      BY Kinds
    <2>3. CASE r = w
      <3>1. q # h
        BY <2>3
      <3>2. Busy(q, w)
        BY <2>3 DEF Busy, Shrinks
      <3> QED
        BY <1>1, <2>1, <2>3, <3>1, <3>2 DEF Exempt
    <2>4. CASE r # w
      <3>1. ~Exempt(r)' => Fresh(r)'
        BY <1>2, <2>1, <2>2, <2>4, FreshStays, SameIsKept
      <3>2. handler'[q].work = r => handler'[q].pc \in Passive
        BY <1>1, <2>1, <2>2, <2>4
      <3> QED
        BY <3>1, <3>2
    <2> QED
      BY <2>3, <2>4
  <1> QED
    BY <1>3, <1>4, <1>5, <1>6, <1>7 DEF Claims

\* Inv names the work of a handler, and nobody else is at a work that was not crossed.
LEMMA AloneAt ==
  ASSUME HandlersInv, Claims, NEW h \in Handlers, handler[h].pc \notin Passive
  PROVE  /\ handler[h].work \in Works
         /\ handler[h].work \notin inputs \cap (Governed \ Scans)
         /\ handler[h].work \in crossed \/ \A q \in Handlers \ {h} : ~Busy(q, handler[h].work)
         /\ handler[h].work \notin ahead[h] \cap Rules
  <1>1. handler[h].pc # "idle" /\ handler[h].work \in Works
    BY DEF HandlersInv, HandlerOK, Passive
  <1>2. Busy(h, handler[h].work)
    BY DEF Busy
  <1> QED
    BY <1>1, <1>2 DEF Claims, Private, Unarrived, Listed

\* A busy handler goes on.
LEMMA BusyStep ==
  ASSUME HandlersInv, Claims, Shrinks, NEW h \in Handlers, NEW c, NEW w, Moved(h, c),
         handler[h].work = w, handler[h].pc \notin Passive, c.work \in {w, NoWork},
         UNCHANGED <<inputs, crossed>>, dropped \subseteq dropped',
         \A v \in Works \ {w} : SameAt(v),
         Holder(c)', Settled(w)'
  PROVE  Claims'
  <1>1. w \notin ahead'[h] \cap Rules
    BY AloneAt DEF Shrinks
  <1> QED
    BY <1>1, AloneAt, StepKeeps

\* A handler begins to act on w.
LEMMA BeginStep ==
  ASSUME HandlersInv, Claims, Shrinks, NEW h \in Handlers, NEW c, NEW w \in Governed, Begin(h, c),
         handler[h].pc \in Passive, c.work = w,
         inputs' \subseteq inputs, w \notin inputs' \cap (Governed \ Scans), UNCHANGED dropped,
         \A v \in Works \ {w} : SameAt(v),
         Holder(c)', Settled(w)'
  PROVE  Claims'
  <1>1. crossed \subseteq crossed' /\ (w \in crossed' \/ \A q \in Handlers \ {h} : ~Busy(q, w))
    BY DEF Begin
  <1>2. w \in Works /\ w \notin Rules
    BY Kinds DEF Works, Governed
  <1> QED
    BY <1>1, <1>2, BeginMoves, StepKeeps

\* A handler begins to act on w, and the tables are kept.
LEMMA BeginCalmly ==
  ASSUME HandlersInv, Claims, Shrinks, NEW h \in Handlers, NEW c, NEW w \in Governed, Begin(h, c),
         handler[h].pc \in Passive, c.work = w,
         inputs' \subseteq inputs, w \notin inputs' \cap (Governed \ Scans), UNCHANGED dropped,
         KeptAt(w), \A v \in Works \ {w} : SameAt(v),
         Holder(c)'
  PROVE  Claims'
  <1>1. handler'[h] = c /\ \A q \in Handlers \ {h} : handler'[q] = handler[q]
    BY BeginMoves, MovedTo
  <1>2. Exempt(w) => Exempt(w)'
    BY DEF Begin, Exempt
  <1>3. Settled(w)'
    BY <1>1, <1>2, SettledStays DEF Claims, Passive, Ending, Works, Governed
  <1> QED
    BY <1>3, BeginStep

\* A busy handler goes on, and the tables are kept.
LEMMA CalmStep ==
  ASSUME HandlersInv, Claims, Shrinks, NEW h \in Handlers, NEW c, NEW w, Moved(h, c),
         handler[h].work = w, handler[h].pc \notin Passive, c.work \in {w, NoWork},
         UNCHANGED <<inputs, crossed, dropped>>,
         \A v \in Works : SameAt(v),
         Holder(c)',
         handler[h].pc \in Ending =>
           \/ c.work = w /\ c.pc \in Ending
           \/ w \in Signals
  PROVE  Claims'
  <1>1. handler'[h] = c /\ \A q \in Handlers \ {h} : handler'[q] = handler[q]
    BY MovedTo
  <1>2. w \in Works
    BY AloneAt
  <1>3. KeptAt(w) /\ (Exempt(w) => Exempt(w)')
    BY <1>2, SameIsKept DEF Exempt
  <1>4. Settled(w)'
    BY <1>1, <1>2, <1>3, SettledStays DEF Claims
  <1> QED
    BY <1>4, BusyStep

\* A handler without a claim goes on without one.
LEMMA PassiveStep ==
  ASSUME HandlersInv, Claims, Shrinks, NEW h \in Handlers, NEW c, Moved(h, c),
         handler[h].pc \in Passive, c.pc \in Passive,
         UNCHANGED <<inputs, crossed>>, dropped \subseteq dropped',
         \A v \in Works : KeptAt(v),
         \A v \in inputs \cap (Governed \ Scans) : SameAt(v) /\ c.work # v
  PROVE  Claims'
  <1>1. handler'[h] = c /\ \A q \in Handlers \ {h} : handler'[q] = handler[q]
    BY MovedTo
  <1>2. \A v : Exempt(v) => Exempt(v)'
    BY DEF Exempt
  <1>3. Private'
    <2> SUFFICES ASSUME NEW v \in Works \ crossed, NEW p \in Handlers, NEW q \in Handlers,
                        Busy(p, v)', Busy(q, v)'
                 PROVE  p = q
      BY DEF Private
    <2>1. \A g \in Handlers : Busy(g, v)' => Busy(g, v)
      BY <1>1 DEF Busy, Shrinks
    <2> QED
      BY <2>1 DEF Claims, Private
  <1>4. Unarrived'
    <2> SUFFICES ASSUME NEW v \in inputs \cap (Governed \ Scans)
                 PROVE  /\ \A q \in Handlers : handler'[q].work # v
                        /\ v \in Signals => signal'[v].status = "NONE"
                        /\ v \in Demands => demand'[v].status = "NONE" /\ approval'[v] = "NONE"
      BY DEF Unarrived
    <2>1. SameAt(v) /\ c.work # v
      OBVIOUS
    <2>2. /\ \A q \in Handlers : handler[q].work # v
          /\ v \in Signals => signal[v].status = "NONE"
          /\ v \in Demands => demand[v].status = "NONE" /\ approval[v] = "NONE"
      BY DEF Claims, Unarrived
    <2> QED
      BY <1>1, <2>1, <2>2 DEF SameAt
  <1>5. ASSUME NEW q \in Handlers
        PROVE  Holder(handler[q])'
    <2>1. PICK d : d = handler'[q]
      OBVIOUS
    <2>2. Holder(d)'
      <3>1. CASE d.pc \in Passive
        BY <3>1, PassiveHolds
      <3>2. CASE d.pc \notin Passive
        <4>1. q # h /\ d = handler[q]
          BY <1>1, <2>1, <3>2
        <4>2. d.work \in Works /\ Holder(d)
          BY <3>2, <4>1 DEF Claims, HandlersInv, HandlerOK, Passive
        <4> QED
          BY <1>2, <4>2, HolderStays
      <3> QED
        BY <3>1, <3>2
    <2> QED
      BY <2>1, <2>2 DEF Holder
  <1>6. ASSUME NEW v \in Works
        PROVE  Settled(v)'
    BY <1>1, <1>2, SettledStays DEF Claims, Passive, Ending
  <1>7. Listed'
    BY <1>1, <1>2, FreshStays, Kinds DEF Claims, Listed, Shrinks
  <1> QED
    BY <1>3, <1>4, <1>5, <1>6, <1>7 DEF Claims

\* No handler moves, and at the most a rule may begin once more.
LEMMA StillStep ==
  ASSUME HandlersInv, Claims, Shrinks, UNCHANGED <<handler, crossed, dropped>>, inputs' \subseteq inputs,
         \A v \in Works : SameAt(v) \/ (v \in Rules /\ Settled(v)' /\ (Exempt(v) \/ Fresh(v))')
  PROVE  Claims'
  <1>1. \A v : Exempt(v) => Exempt(v)'
    BY DEF Exempt
  <1>2. Private'
    BY DEF Claims, Private, Busy, Shrinks
  <1>3. Unarrived'
    <2> SUFFICES ASSUME NEW v \in inputs' \cap (Governed \ Scans)
                 PROVE  /\ \A q \in Handlers : handler'[q].work # v
                        /\ v \in Signals => signal'[v].status = "NONE"
                        /\ v \in Demands => demand'[v].status = "NONE" /\ approval'[v] = "NONE"
      BY DEF Unarrived
    <2>1. SameAt(v)
      BY Kinds DEF Works, Governed
    <2>2. /\ \A q \in Handlers : handler[q].work # v
          /\ v \in Signals => signal[v].status = "NONE"
          /\ v \in Demands => demand[v].status = "NONE" /\ approval[v] = "NONE"
      BY DEF Claims, Unarrived
    <2> QED
      BY <2>1, <2>2 DEF SameAt
  <1>4. ASSUME NEW q \in Handlers
        PROVE  Holder(handler[q])'
    <2>1. PICK d : d = handler[q]
      OBVIOUS
    <2>2. Holder(d) /\ HandlerOK(d)
      BY <2>1 DEF Claims, HandlersInv
    <2>3. Holder(d)'
      <3>1. CASE d.pc = "idle"
        BY <3>1, PassiveHolds DEF Passive
      <3>2. CASE d.pc # "idle" /\ SameAt(d.work)
        BY <1>1, <2>2, <3>2, HolderStays, SameIsKept
      <3>3. CASE d.work \in Rules /\ (Exempt(d.work) \/ Fresh(d.work))'
        BY <3>3, Kinds DEF Holder
      <3> QED
        BY <2>2, <3>1, <3>2, <3>3 DEF HandlerOK
    <2> QED
      BY <2>1, <2>3 DEF Holder
  <1>5. ASSUME NEW v \in Works
        PROVE  Settled(v)'
    <2>1. CASE SameAt(v)
      BY <1>1, <2>1, SettledStays, SameIsKept DEF Claims
    <2> QED
      BY <2>1
  <1>6. Listed'
    <2> SUFFICES ASSUME NEW q \in Handlers, NEW r \in ahead'[q] \cap Rules
                 PROVE  /\ handler'[q].work = r => handler'[q].pc \in Passive
                        /\ ~Exempt(r)' => Fresh(r)'
      BY DEF Listed
    <2>1. /\ handler[q].work = r => handler[q].pc \in Passive
          /\ ~Exempt(r) => Fresh(r)
          /\ r \in Works
      BY Kinds DEF Claims, Listed, Shrinks
    <2>2. ~Exempt(r)' => Fresh(r)'
      BY <1>1, <2>1, FreshStays, SameIsKept
    <2> QED
      BY <2>1, <2>2
  <1> QED
    BY <1>2, <1>3, <1>4, <1>5, <1>6 DEF Claims

-----------------------------------------------------------------------------
(* Tables: who reads, and who writes one row *)

LEMMA SameTables ==
  ASSUME UNCHANGED <<missions, ledger, signal, demand, approval, due, rounds>>
  PROVE  \A v : SameAt(v)
  BY DEF SameAt, MissionsOf, RowsOf

\* Where neither missions nor rows of the ledger come to w.
LEMMA Uncounted ==
  ASSUME NEW w, UNCHANGED <<missions, ledger, rounds>>
  PROVE  /\ Fresh(w)' <=> Fresh(w)
         /\ (Cardinality(MissionsOf(w)) <= Allowed(w))' <=> Cardinality(MissionsOf(w)) <= Allowed(w)
         /\ RowsOf(w)' = RowsOf(w)
         /\ \A m : DecidedFor(w, m)' <=> DecidedFor(w, m)
  BY DEF Fresh, Allowed, MissionsOf, RowsOf, DecidedFor

LEMMA SignalWritten ==
  ASSUME Inv, NEW w \in Signals, NEW r, signal' = [signal EXCEPT ![w] = r],
         UNCHANGED <<missions, ledger, demand, approval, due, rounds>>
  PROVE  signal'[w] = r /\ \A v \in Works \ {w} : SameAt(v)
  BY Kinds DEF SameAt, MissionsOf, RowsOf, Inv, SignalInv

LEMMA DemandWritten ==
  ASSUME Inv, NEW w \in Demands, NEW r, demand' = [demand EXCEPT ![w] = r],
         UNCHANGED <<missions, ledger, signal, approval, due, rounds>>
  PROVE  demand'[w] = r /\ \A v \in Works \ {w} : SameAt(v)
  BY Kinds DEF SameAt, MissionsOf, RowsOf, Inv, DemandInv

LEMMA ApprovalWritten ==
  ASSUME Inv, NEW w \in Demands, NEW a, approval' = [approval EXCEPT ![w] = a],
         UNCHANGED <<missions, ledger, signal, demand, due, rounds>>
  PROVE  approval'[w] = a /\ \A v \in Works \ {w} : SameAt(v)
  BY Kinds DEF SameAt, MissionsOf, RowsOf, Inv, DemandInv

\* A signal that is detected keeps what is claimed about it.
LEMMA DetectKeepsTables ==
  ASSUME Inv, NEW s \in Signals, Detect(s),
         UNCHANGED <<missions, ledger, demand, approval, due, rounds>>
  PROVE  KeptAt(s) /\ (\A v \in Works \ {s} : SameAt(v))
         /\ (signal[s].status = "NONE" => signal'[s].status = "DETECTED")
  <1>1. /\ signal \in [Signals -> Signal]
        /\ signal'[s] = IF signal[s].status = "NONE" THEN [signal[s] EXCEPT !.status = "DETECTED"]
                                                     ELSE signal[s]
        /\ \A t \in Signals \ {s} : signal'[t] = signal[t]
    BY DEF Inv, SignalInv, Detect
  <1>2. signal[s].status = "NONE" => signal'[s].status = "DETECTED"
    BY <1>1 DEF Signal
  <1>3. \A v \in Works \ {s} : SameAt(v)
    BY <1>1 DEF SameAt, MissionsOf, RowsOf
  <1>4. KeptAt(s)
    BY <1>1, <1>2, Kinds DEF KeptAt, MissionsOf, RowsOf
  <1> QED
    BY <1>2, <1>3, <1>4

-----------------------------------------------------------------------------
(* Signals *)

LEMMA DeliverClaims ==
  ASSUME Inv, Claims, Shrinks, NEW h \in Handlers, NEW s \in Signals, Deliver(h, s),
         UNCHANGED <<demandVars, ruleVars>>
  PROVE  Claims'
  <1>1. PICK c : c = At("judge", s)
    OBVIOUS
  <1>2. c.pc = "judge" /\ c.work = s
    BY <1>1, AtIsThere, Kinds DEF AllPcs, SignalPcs
  <1>3. KeptAt(s) /\ (\A v \in Works \ {s} : SameAt(v))
        /\ (signal[s].status = "NONE" => signal'[s].status = "DETECTED")
    BY DetectKeepsTables DEF Deliver, demandVars, ruleVars
  <1>4. signal[s].status = "NONE" /\ s \in Works /\ s \in Governed
    BY Kinds DEF Deliver, Claims, Unarrived, Governed
  <1>5. Holder(c)'
    BY <1>2, <1>3, <1>4, Kinds DEF Holder, Beginning, GatePcs
  <1> QED
    BY <1>1, <1>2, <1>3, <1>4, <1>5, BeginCalmly DEF Deliver, Free, Inv, Passive

\* Idle is without a claim, and at no work.
LEMMA IdleIsPassive == Idle.pc \in Passive /\ Idle.pc = "idle" /\ Idle.work = NoWork
  BY DEF Idle, Passive

LEMMA FetchClaims ==
  ASSUME Inv, Claims, Shrinks, NEW h \in Handlers, NEW r \in Repos, Fetch(h, r),
         UNCHANGED <<demandVars, ruleVars>>
  PROVE  Claims'
  <1>1. PICK c : Moved(h, c) /\ c.pc \in Passive /\ c.work \in Scans \cup {NoWork}
    <2>1. CASE head[r] = NoWork
      BY <2>1, IdleIsPassive DEF Fetch, Moved
    <2>2. CASE head[r] # NoWork
      <3>1. PICK pc \in {"refresh", "store"} : Moved(h, At(pc, head[r]))
        BY <2>2 DEF Fetch, Moved
      <3>2. head[r] \in Scans /\ head[r] \in Works
        BY <2>2, Kinds DEF Inv, SignalInv
      <3>3. At(pc, head[r]).pc = pc /\ At(pc, head[r]).work = head[r]
        BY <3>2, AtIsThere DEF AllPcs, ScanPcs
      <3> QED
        BY <3>1, <3>2, <3>3 DEF Passive
    <2> QED
      BY <2>1, <2>2
  <1>2. \A v : SameAt(v)
    BY SameTables DEF Fetch, signalVars, demandVars, ruleVars
  <1>3. \A v \in inputs \cap (Governed \ Scans) : c.work # v
    BY <1>1, Kinds DEF Works, Governed
  <1> QED
    BY <1>1, <1>2, <1>3, SameIsKept, PassiveStep DEF Fetch, Inv, Passive

LEMMA StoreClaims ==
  ASSUME Inv, Claims, Shrinks, NEW h \in Handlers, Store(h), UNCHANGED <<demandVars, ruleVars>>
  PROVE  Claims'
  <1>1. handler[h].work \in Scans
    BY DEF Store, Inv, HandlersInv, HandlerOK, ScanPcs
  <1>2. \A v : SameAt(v)
    BY SameTables DEF Store, demandVars, ruleVars
  <1>3. PICK c : Moved(h, c) /\ c.pc \in Passive /\ c.work \in {handler[h].work, NoWork}
    <2>1. CASE Return(h)
      BY <2>1, ReturnMoves, IdleIsPassive
    <2>2. CASE GoTo(h, "ingest")
      BY <2>2, GoToMoves DEF Inv, AllPcs, ScanPcs, Passive
    <2> QED
      BY <2>1, <2>2 DEF Store
  <1> QED
    BY <1>1, <1>2, <1>3, SameIsKept, PassiveStep, Kinds
    DEF Store, GoTo, Return, Inv, Passive, Works, Governed

LEMMA IngestClaims ==
  ASSUME Inv, Claims, Shrinks, NEW h \in Handlers, Ingest(h), UNCHANGED <<demandVars, ruleVars>>
  PROVE  Claims'
  <1>1. PICK s : s = handler[h].work
    OBVIOUS
  <1>2. s \in Scans /\ s \in Signals
    BY <1>1, Kinds DEF Ingest, Inv, HandlersInv, HandlerOK, ScanPcs
  <1>3. KeptAt(s) /\ \A v \in Works \ {s} : SameAt(v)
    BY <1>1, <1>2, DetectKeepsTables DEF Ingest, demandVars, ruleVars
  <1>4. Moved(h, Idle) /\ \A v \in inputs \cap (Governed \ Scans) : Idle.work # v /\ v # s
    BY <1>2, ReturnMoves, IdleIsPassive, Kinds DEF Ingest, Works, Governed
  <1>5. \A v \in inputs \cap (Governed \ Scans) : v \in Works
    BY Kinds DEF Works, Governed
  <1> QED
    BY <1>3, <1>4, <1>5, IdleIsPassive, SameIsKept, PassiveStep DEF Ingest, Return, Inv, Passive

LEMMA LoadClaims ==
  ASSUME Inv, Claims, Shrinks, NEW h \in Handlers, NEW s \in Signals, Load(h, s),
         UNCHANGED <<demandVars, ruleVars>>
  PROVE  Claims'
  <1>1. \A v : SameAt(v)
    BY SameTables DEF Load, signalVars, demandVars, ruleVars
  <1>2. CASE UNCHANGED <<handler, crossed>>
    BY <1>1, <1>2, StillStep DEF Load, Inv
  <1>3. CASE signal[s].status = "DETECTED" /\ Begin(h, At("judge", s))
    <2>1. PICK c : c = At("judge", s)
      OBVIOUS
    <2>2. c.pc = "judge" /\ c.work = s
      BY <2>1, AtIsThere, Kinds DEF AllPcs, SignalPcs
    <2>3. UNCHANGED signal
      BY DEF Load, signalVars
    <2>4. Holder(c)'
      BY <1>3, <2>2, <2>3, Kinds DEF Holder, Beginning, GatePcs
    <2>5. s \in Governed /\ s \notin inputs \cap (Governed \ Scans)
      BY <1>3 DEF Claims, Unarrived, Governed
    <2>6. KeptAt(s) /\ \A v \in Works \ {s} : SameAt(v)
      BY <1>1, SameIsKept
    <2> QED
      BY <1>3, <2>1, <2>2, <2>4, <2>5, <2>6, BeginCalmly DEF Load, Inv, Passive
  <1> QED
    BY <1>2, <1>3 DEF Load

LEMMA JudgeClaims ==
  ASSUME Inv, Claims, Shrinks, NEW h \in Handlers, Judge(h), UNCHANGED <<demandVars, ruleVars>>
  PROVE  Claims'
  <1>1. PICK s : s = handler[h].work
    OBVIOUS
  <1>2. PICK f : f = handler[h]
    OBVIOUS
  <1>3. f.pc = "judge" /\ f.work = s /\ f \in Handling /\ Holder(f) /\ s \in Signals
    BY <1>1, <1>2 DEF Judge, Inv, HandlersInv, HandlerOK, SignalPcs, Claims
  <1>4. \A v : SameAt(v)
    BY SameTables DEF Judge, demandVars, ruleVars
  <1>5. PICK c : Moved(h, c)
                 /\ \/ c.pc \in Passive /\ c.work = NoWork
                    \/ c.pc = "evaluate" /\ c.work = s
    <2>1. CASE Throw(h)
      BY <2>1, LeaveMoves, IdleIsPassive DEF Throw
    <2>2. CASE ~Throw(h)
      <3> DEFINE c == [handler[h] EXCEPT !.pc = "evaluate", !.verdict = Decision(s)]
      <3>1. Moved(h, c)
        BY <1>1, <2>2 DEF Judge, Moved, Inv, HandlersInv
      <3>2. c.pc = "evaluate" /\ c.work = s
        BY <1>2, <1>3 DEF Handling
      <3> QED
        BY <3>1, <3>2
    <2> QED
      BY <2>1, <2>2
  <1>6. Holder(c)'
    <2>1. CASE c.pc \in Passive
      BY <2>1, PassiveHolds
    <2>2. CASE c.pc = "evaluate" /\ c.work = s
      <3>1. Holder(c)
        BY <1>3, <2>2, Kinds DEF Holder, Beginning, GatePcs
      <3> QED
        BY <1>4, <3>1, SameIsKept, HolderStays DEF Judge, Throw, Leave, Return, Exempt
    <2> QED
      BY <1>5, <2>1, <2>2
  <1> QED
    BY <1>1, <1>2, <1>3, <1>4, <1>5, <1>6, CalmStep
    DEF Judge, Throw, Leave, Return, Inv, Passive, Ending

LEMMA EvaluateClaims ==
  ASSUME Inv, Claims, Shrinks, NEW h \in Handlers, Evaluate(h), UNCHANGED <<demandVars, ruleVars>>
  PROVE  Claims'
  <1>1. PICK f : f = handler[h]
    OBVIOUS
  <1>2. PICK s : s = f.work
    OBVIOUS
  <1>3. /\ f.pc = "evaluate" /\ f \in Handling /\ Holder(f) /\ s \in Signals /\ s \in Works
        /\ f.verdict \in Evaluations /\ Settled(s)
    BY <1>1, <1>2, Kinds DEF Evaluate, Inv, HandlersInv, HandlerOK, SignalPcs, Claims
  <1>4. /\ signal'[s].status \in {"EVALUATED", "IGNORED"}
        /\ f.verdict = "CONVERT_CANDIDATE" => Sentenced(s)'
        /\ \A v \in Works \ {s} : SameAt(v)
    <2>1. PICK r : /\ signal' = [signal EXCEPT ![s] = r]
                   /\ r = [signal[s] EXCEPT
                            !.status = IF f.verdict = "IGNORE" THEN "IGNORED" ELSE "EVALUATED",
                            !.decision = f.verdict]
      BY <1>1, <1>2, <1>3 DEF Evaluate, Inv, SignalInv
    <2>2. /\ r.status \in {"EVALUATED", "IGNORED"}
          /\ f.verdict = "CONVERT_CANDIDATE" =>
               r.status = "EVALUATED" /\ r.decision = "CONVERT_CANDIDATE"
      BY <1>3, <2>1 DEF Inv, SignalInv, Signal
    <2> QED
      BY <1>3, <2>1, <2>2, SignalWritten DEF Evaluate, Sentenced, demandVars, ruleVars
  <1>5. PICK c : Moved(h, c)
                 /\ \/ c.pc \in Passive /\ c.work = NoWork
                    \/ c.pc = "admit" /\ c.work = s /\ f.verdict = "CONVERT_CANDIDATE"
    <2>1. CASE Return(h)
      BY <2>1, ReturnMoves, IdleIsPassive
    <2>2. CASE f.verdict = "CONVERT_CANDIDATE" /\ GoTo(h, "admit")
      BY <1>1, <1>2, <2>2, GoToMoves DEF Inv, AllPcs, GatePcs
    <2> QED
      BY <1>1, <2>1, <2>2 DEF Evaluate
  <1>6. UNCHANGED <<missions, ledger, rounds, crossed, dropped, inputs>>
    BY DEF Evaluate, GoTo, Return, ruleVars
  <1>7. ~Exempt(s) => Fresh(s) /\ RowsOf(s) = {}
    BY <1>2, <1>3, Kinds DEF Holder, Settled, MayBegin
  <1>8. Settled(s)'
    BY <1>3, <1>4, <1>6, <1>7, Uncounted, Kinds DEF Settled, MayBegin, Exempt
  <1>9. Holder(c)'
    <2>1. CASE c.pc \in Passive
      BY <2>1, PassiveHolds
    <2>2. CASE c.pc = "admit" /\ c.work = s /\ f.verdict = "CONVERT_CANDIDATE"
      BY <1>3, <1>4, <1>6, <1>7, <2>2, Uncounted, Kinds DEF Holder, Beginning, GatePcs, Exempt
    <2> QED
      BY <1>5, <2>1, <2>2
  <1> QED
    BY <1>1, <1>2, <1>3, <1>4, <1>5, <1>6, <1>8, <1>9, BusyStep DEF Inv, Passive

LEMMA MayConvertClaims ==
  ASSUME Inv, Claims, Shrinks, NEW h \in Handlers, MayConvert(h), UNCHANGED <<demandVars, ruleVars>>
  PROVE  Claims'
  <1>1. PICK f : f = handler[h]
    OBVIOUS
  <1>2. PICK s : s = f.work
    OBVIOUS
  <1>3. f.pc = "settle" /\ Holder(f) /\ s \in Signals
    BY <1>1, <1>2 DEF MayConvert, Claims
  <1>4. \A v : SameAt(v)
    BY SameTables DEF MayConvert, demandVars, ruleVars
  <1>5. PICK c : Moved(h, c)
                 /\ \/ c.pc \in Passive /\ c.work = NoWork
                    \/ c.pc = "mark" /\ c.work = s /\ c.mission = f.mission
    <2>1. CASE Throw(h)
      BY <2>1, LeaveMoves, IdleIsPassive DEF Throw
    <2>2. CASE GoTo(h, "mark")
      BY <1>1, <1>2, <2>2, GoToMoves DEF Inv, AllPcs, SignalPcs
    <2> QED
      BY <2>1, <2>2 DEF MayConvert
  <1>6. Holder(c)'
    <2>1. CASE c.pc \in Passive
      BY <2>1, PassiveHolds
    <2>2. CASE c.pc = "mark" /\ c.work = s /\ c.mission = f.mission
      <3>1. Holder(c)
        BY <1>2, <1>3, <2>2, Kinds DEF Holder, Beginning, GatePcs
      <3> QED
        BY <1>4, <3>1, SameIsKept, HolderStays DEF MayConvert, GoTo, Throw, Leave, Return, Exempt
    <2> QED
      BY <1>5, <2>1, <2>2
  <1> QED
    BY <1>1, <1>2, <1>3, <1>4, <1>5, <1>6, CalmStep
    DEF MayConvert, GoTo, Throw, Leave, Return, Inv, Passive, Ending

LEMMA MarkConvertedClaims ==
  ASSUME Inv, Claims, Shrinks, NEW h \in Handlers, MarkConverted(h), UNCHANGED <<demandVars, ruleVars>>
  PROVE  Claims'
  <1>1. PICK f : f = handler[h]
    OBVIOUS
  <1>2. PICK s : s = f.work
    OBVIOUS
  <1>3. /\ f.pc = "mark" /\ f \in Handling /\ Holder(f) /\ s \in Signals /\ s \in Works
        /\ Settled(s)
    BY <1>1, <1>2, Kinds DEF MarkConverted, Inv, HandlersInv, HandlerOK, SignalPcs, Claims
  <1>4. /\ signal'[s].status = "CONVERTED" /\ signal'[s].mission = f.mission
        /\ \A v \in Works \ {s} : SameAt(v)
    <2>1. PICK r : /\ signal' = [signal EXCEPT ![s] = r]
                   /\ r = [signal[s] EXCEPT !.status = "CONVERTED", !.mission = f.mission]
      BY <1>1, <1>2, <1>3 DEF MarkConverted, Inv, SignalInv
    <2>2. r.status = "CONVERTED" /\ r.mission = f.mission
      BY <1>3, <2>1 DEF Inv, SignalInv, Signal
    <2> QED
      BY <1>3, <2>1, <2>2, SignalWritten DEF MarkConverted, demandVars, ruleVars
  <1>5. UNCHANGED <<missions, ledger, rounds, crossed, dropped, inputs>>
    BY DEF MarkConverted, Return, ruleVars
  <1>6. ~Exempt(s) => DecidedFor(s, f.mission)
    BY <1>2, <1>3 DEF Holder
  <1>7. Settled(s)'
    BY <1>3, <1>4, <1>5, <1>6, Uncounted, Kinds DEF Settled, MayBegin, Exempt
  <1>8. Moved(h, Idle) /\ Holder(Idle)'
    BY ReturnMoves, IdleIsPassive, PassiveHolds DEF MarkConverted
  <1> QED
    BY <1>1, <1>2, <1>3, <1>4, <1>5, <1>7, <1>8, IdleIsPassive, BusyStep DEF Inv, Passive

-----------------------------------------------------------------------------
(* Gate, ledger and queue *)

LEMMA ObeyMoves ==
  ASSUME NEW f \in Handling, NEW row
  PROVE  /\ Obey(f, row).work = f.work
         /\ IF row.decision = "SKIP"
              THEN Obey(f, row).pc = "settle" /\ Obey(f, row).mission = row.mission
              ELSE Obey(f, row).pc \in {"find", "create"}
  BY DEF Obey, EnqueuePc, Handling

\* Where Admit leads: a work that has rows in the ledger is no signal, unless it is exempt.
LEMMA AdmitMoves ==
  ASSUME Inv, NEW h \in Handlers, Admit(h), NEW w, w = handler[h].work
  PROVE  \E c : /\ Moved(h, c) /\ c.work = w
                /\ \/ c.pc \in {"skip", "find", "create"}
                   \/ c.pc = "settle" /\ RowsOf(w) # {}
  <1> DEFINE f == handler[h]
  <1>1. f \in Handling
    BY DEF Inv, HandlersInv
  <1>2. CASE RowsOf(w) # {}
    <2>1. PICK row : row = ledger[Last(RowsOf(w))]
      OBVIOUS
    <2>2. Moved(h, Obey(f, row))
      BY <1>2, <2>1 DEF Admit, Moved, Inv, HandlersInv
    <2>3. PICK c : c = Obey(f, row)
      OBVIOUS
    <2>4. c.work = w /\ c.pc \in {"settle", "find", "create"}
      BY <1>1, <2>3, ObeyMoves
    <2> QED
      BY <1>2, <2>2, <2>3, <2>4
  <1>3. CASE RowsOf(w) = {} /\ Identity[w] # 0 /\ Context[w] # 0 /\ Matches(w) # {}
    <2> DEFINE c == [f EXCEPT !.pc = "skip", !.mission = ledger[Last(Matches(w))].mission]
    <2>1. Moved(h, c)
      BY <1>3 DEF Admit, Moved, Inv, HandlersInv
    <2>2. c.work = w /\ c.pc = "skip"
      BY <1>1 DEF Handling
    <2> QED
      BY <2>1, <2>2
  <1>4. CASE RowsOf(w) = {} /\ ~(Identity[w] # 0 /\ Context[w] # 0 /\ Matches(w) # {})
    <2> DEFINE c == [f EXCEPT !.pc = EnqueuePc(w)]
    <2>1. Moved(h, c)
      BY <1>4 DEF Admit, Moved, Inv, HandlersInv
    <2>2. c.work = w /\ c.pc \in {"find", "create"}
      BY <1>1 DEF Handling, EnqueuePc
    <2> QED
      BY <2>1, <2>2
  <1> QED
    BY <1>2, <1>3, <1>4

LEMMA AdmitClaims ==
  ASSUME Inv, Claims, Shrinks, NEW h \in Handlers, Admit(h), UNCHANGED <<signalVars, demandVars, ruleVars>>
  PROVE  Claims'
  <1>1. PICK f : f = handler[h]
    OBVIOUS
  <1>2. PICK w : w = f.work
    OBVIOUS
  <1>3. f.pc = "admit" /\ Holder(f)
    BY <1>1 DEF Admit, Claims
  <1>4. \A v : SameAt(v)
    BY SameTables DEF Admit, signalVars, demandVars, ruleVars
  <1>5. PICK c : /\ Moved(h, c) /\ c.work = w
                 /\ \/ c.pc \in {"skip", "find", "create"}
                    \/ c.pc = "settle" /\ RowsOf(w) # {}
    BY <1>1, <1>2, AdmitMoves
  <1>6. Holder(c)
    BY <1>2, <1>3, <1>5, Kinds DEF Holder, Beginning, GatePcs
  <1>7. Holder(c)'
    BY <1>4, <1>6, SameIsKept, HolderStays DEF Admit, Exempt
  <1> QED
    BY <1>1, <1>2, <1>3, <1>4, <1>5, <1>7, CalmStep DEF Admit, Inv, Passive, Ending

\* A row is appended.
LEMMA RowAppended ==
  ASSUME Inv, NEW row \in LedgerRow, ledger' = Append(ledger, row),
         UNCHANGED <<missions, signal, demand, approval, due, rounds>>
  PROVE  /\ \A v \in Works \ {row.work} : SameAt(v)
         /\ DecidedFor(row.work, row.mission)'
         /\ \A m : DecidedFor(row.work, m) => DecidedFor(row.work, m)'
  <1>1. ledger \in Seq(LedgerRow)
    BY DEF Inv, LedgerInv, LedgerOK
  <1>2. DOMAIN ledger' = 1..(Len(ledger) + 1) /\ DOMAIN ledger = 1..Len(ledger)
        /\ Len(ledger) \in Nat
    BY <1>1
  <1>3. (\A i \in DOMAIN ledger : ledger'[i] = ledger[i]) /\ ledger'[Len(ledger) + 1] = row
    BY <1>1, <1>2
  <1>4. /\ DOMAIN ledger \subseteq DOMAIN ledger' /\ Len(ledger) + 1 \in DOMAIN ledger'
        /\ \A i \in DOMAIN ledger' : i \in DOMAIN ledger \/ i = Len(ledger) + 1
    BY <1>2
  <1>5. \A v : RowsOf(v)' = {i \in DOMAIN ledger' : ledger'[i].work = v}
    BY DEF RowsOf
  <1>6. \A v : v # row.work => RowsOf(v)' = RowsOf(v)
    BY <1>3, <1>4, <1>5 DEF RowsOf
  <1>7. Len(ledger) + 1 \in RowsOf(row.work)' /\ RowsOf(row.work) \subseteq RowsOf(row.work)'
    BY <1>3, <1>4, <1>5 DEF RowsOf
  <1>8. \A v \in Works \ {row.work} : SameAt(v)
    BY <1>3, <1>6 DEF SameAt, RowsOf, MissionsOf
  <1>9. DecidedFor(row.work, row.mission)'
    BY <1>3, <1>7 DEF DecidedFor
  <1>10. \A m : DecidedFor(row.work, m) => DecidedFor(row.work, m)'
    BY <1>3, <1>7 DEF DecidedFor, RowsOf
  <1> QED
    BY <1>8, <1>9, <1>10

\* The row of w is appended if it has none, and its handler goes on to settle it.
LEMMA RowClaims ==
  ASSUME Inv, Claims, Shrinks, NEW h \in Handlers, NEW c, NEW f, NEW row \in LedgerRow, NEW w,
         f = handler[h], w = f.work, f.pc \in {"skip", "bind"}, w \in Works,
         Moved(h, c), c.work = w, row.work = w,
         \/ c.pc = "settle"
         \/ f.pc = "skip" /\ RowsOf(w) # {} /\ c.pc \in {"find", "create"},
         RowsOf(w) = {} => c.pc = "settle" /\ c.mission = row.mission,
         ledger' = IF RowsOf(w) = {} THEN Append(ledger, row) ELSE ledger,
         UNCHANGED <<inputs, missions, crossed, dropped, events, signalVars, demandVars, ruleVars>>
  PROVE  Claims'
  <1>1. handler'[h] = c /\ (\A q \in Handlers \ {h} : handler'[q] = handler[q])
        /\ Holder(f) /\ Settled(w)
    BY MovedTo DEF Inv, Claims
  <1>2. CASE RowsOf(w) # {}
    <2>1. \A v : SameAt(v)
      BY <1>2, SameTables DEF signalVars, demandVars, ruleVars
    <2>2. Holder(c)
      BY <1>1, <1>2, Kinds DEF Holder, Beginning, GatePcs
    <2>3. Holder(c)'
      BY <2>1, <2>2, SameIsKept, HolderStays DEF Exempt
    <2>4. f.pc \notin Passive /\ (f.pc \in Ending => c.pc \in Ending)
      BY DEF Passive, Ending
    <2> QED
      BY <2>1, <2>3, <2>4, CalmStep DEF Inv
  <1>3. CASE RowsOf(w) = {}
    <2>1. /\ \A v \in Works \ {w} : SameAt(v)
          /\ DecidedFor(w, c.mission)'
          /\ \A m : DecidedFor(w, m) => DecidedFor(w, m)'
      BY <1>3, RowAppended DEF signalVars, demandVars, ruleVars
    <2>2. /\ Fresh(w)' <=> Fresh(w)
          /\ (Cardinality(MissionsOf(w)) <= Allowed(w))' <=> Cardinality(MissionsOf(w)) <= Allowed(w)
          /\ MayBegin(w)' <=> MayBegin(w)
          /\ Exempt(w)' <=> Exempt(w)
          /\ Undecided(w)' <=> Undecided(w)
      BY DEF Fresh, MissionsOf, Allowed, MayBegin, Exempt, Undecided,
             signalVars, demandVars, ruleVars
    <2>3. \A q \in Handlers : handler[q].work = w /\ handler[q].pc \in Ending =>
            handler'[q].work = w /\ handler'[q].pc \in Ending
      BY <1>1, <1>3 DEF Ending
    <2>4. UNCHANGED <<signal, demand>>
      BY DEF signalVars, demandVars
    <2>5. ~Exempt(w) /\ w \in Signals => Sentenced(w)
      BY <1>1 DEF Holder, GatePcs
    <2>6. Settled(w)'
      BY <1>1, <2>1, <2>2, <2>3, <2>4, <2>5 DEF Settled, Sentenced
    <2>7. ~Exempt(w) /\ w \in Demands => ~Undecided(w)
      BY <1>1, Kinds DEF Holder, GatePcs
    <2>8. Holder(c)'
      BY <1>3, <2>1, <2>2, <2>4, <2>5, <2>7 DEF Holder, Beginning, Sentenced
    <2> QED
      BY <2>1, <2>6, <2>8, BusyStep DEF Inv, Passive
  <1> QED
    BY <1>2, <1>3

LEMMA SkipClaims ==
  ASSUME Inv, Claims, Shrinks, NEW h \in Handlers, Skip(h), UNCHANGED <<signalVars, demandVars, ruleVars>>
  PROVE  Claims'
  <1>1. PICK f : f = handler[h]
    OBVIOUS
  <1>2. PICK w : w = f.work
    OBVIOUS
  <1>3. f.pc = "skip" /\ f \in Handling /\ w \in Governed /\ w \in Works
    BY <1>1, <1>2 DEF Skip, Inv, HandlersInv, HandlerOK, Works, Governed
  <1>4. PICK row : row = [work |-> w, decision |-> "SKIP", mission |-> f.mission]
    OBVIOUS
  <1>5. row \in LedgerRow /\ row.work = w /\ row.decision = "SKIP" /\ row.mission = f.mission
    BY <1>3, <1>4 DEF LedgerRow, Handling
  <1>6. PICK there : there = IF RowsOf(w) = {} THEN row ELSE ledger[Last(RowsOf(w))]
    OBVIOUS
  <1>7. PICK c : c = Obey(f, there)
    OBVIOUS
  <1>8. Moved(h, c)
    BY <1>1, <1>2, <1>4, <1>6, <1>7 DEF Skip, Moved, Inv, HandlersInv
  <1>9. /\ c.work = w
        /\ c.pc = "settle" \/ (RowsOf(w) # {} /\ c.pc \in {"find", "create"})
        /\ RowsOf(w) = {} => c.pc = "settle" /\ c.mission = row.mission
    BY <1>2, <1>3, <1>5, <1>6, <1>7, ObeyMoves
  <1>10. ledger' = IF RowsOf(w) = {} THEN Append(ledger, row) ELSE ledger
    BY <1>1, <1>2, <1>4 DEF Skip
  <1> QED
    BY <1>1, <1>2, <1>3, <1>5, <1>8, <1>9, <1>10, RowClaims DEF Skip

LEMMA BindClaims ==
  ASSUME Inv, Claims, Shrinks, NEW h \in Handlers, Bind(h), UNCHANGED <<signalVars, demandVars, ruleVars>>
  PROVE  Claims'
  <1>1. PICK f : f = handler[h]
    OBVIOUS
  <1>2. PICK w : w = f.work
    OBVIOUS
  <1>3. f.pc = "bind" /\ f \in Handling /\ w \in Governed /\ w \in Works
    BY <1>1, <1>2 DEF Bind, Inv, HandlersInv, HandlerOK, Works, Governed
  <1>4. PICK row : row = [work |-> w, decision |-> "EXECUTE", mission |-> f.mission]
    OBVIOUS
  <1>5. row \in LedgerRow /\ row.work = w /\ row.mission = f.mission
    BY <1>3, <1>4 DEF LedgerRow, Handling
  <1>6. PICK c : Moved(h, c) /\ c.pc = "settle" /\ c.work = w /\ c.mission = f.mission
    BY <1>1, <1>2, GoToMoves DEF Bind, Inv, AllPcs, GatePcs
  <1>7. ledger' = IF RowsOf(w) = {} THEN Append(ledger, row) ELSE ledger
    BY <1>1, <1>2, <1>4 DEF Bind
  <1> QED
    BY <1>1, <1>2, <1>3, <1>5, <1>6, <1>7, RowClaims DEF Bind, GoTo

LEMMA FindOpenMoves ==
  ASSUME Inv, NEW h \in Handlers, FindOpen(h), NEW w, w = handler[h].work
  PROVE  \E c : /\ Moved(h, c) /\ c.work = w
                /\ c.pc \in {"create", "bind"} \/ (w \notin Governed /\ c.pc = "settle")
  <1> DEFINE S == OpenOf(w)
             f == handler[h]
  <1>1. f \in Handling
    BY DEF Inv, HandlersInv
  <1>2. CASE S # {}
    <2>1. missions \in Seq(Mission) /\ S \subseteq DOMAIN missions
      BY DEF OpenOf, Inv, QueueInv
    <2>2. Len(missions) \in Nat /\ DOMAIN missions = 1..Len(missions)
      BY <2>1
    <2>3. Last(S) \in S
      BY <1>2, <2>1, <2>2, LastIsThere
    <2>4. Last(S) \in Nat
      BY <2>1, <2>2, <2>3
    <2> QED
      BY <1>2, <2>4, EnqueuedMoves DEF FindOpen, Inv
  <1>3. CASE S = {}
    <2> DEFINE c == [f EXCEPT !.pc = "create"]
    <2>1. Moved(h, c)
      BY <1>3 DEF FindOpen, Moved, Inv, HandlersInv
    <2>2. c.pc = "create" /\ c.work = w
      BY <1>1 DEF Handling
    <2> QED
      BY <2>1, <2>2
  <1> QED
    BY <1>2, <1>3

LEMMA FindOpenClaims ==
  ASSUME Inv, Claims, Shrinks, NEW h \in Handlers, FindOpen(h),
         UNCHANGED <<signalVars, demandVars, ruleVars>>
  PROVE  Claims'
  <1>1. PICK f : f = handler[h]
    OBVIOUS
  <1>2. PICK w : w = f.work
    OBVIOUS
  <1>3. f.pc = "find" /\ Holder(f)
    BY <1>1 DEF FindOpen, Claims
  <1>4. \A v : SameAt(v)
    BY SameTables DEF FindOpen, signalVars, demandVars, ruleVars
  <1>5. PICK c : /\ Moved(h, c) /\ c.work = w
                 /\ c.pc \in {"create", "bind"} \/ (w \notin Governed /\ c.pc = "settle")
    BY <1>1, <1>2, FindOpenMoves
  <1>6. Holder(c)
    BY <1>2, <1>3, <1>5 DEF Holder, Beginning, GatePcs, Governed
  <1>7. Holder(c)'
    BY <1>4, <1>6, SameIsKept, HolderStays DEF FindOpen, Exempt
  <1> QED
    BY <1>1, <1>2, <1>3, <1>4, <1>5, <1>7, CalmStep DEF FindOpen, Inv, Passive, Ending

LEMMA MissionsCounted ==
  ASSUME Inv, NEW w
  PROVE  IsFiniteSet(MissionsOf(w)) /\ Cardinality(MissionsOf(w)) \in Nat
  <1>1. missions \in Seq(Mission)
    BY DEF Inv, QueueInv
  <1>2. DOMAIN missions = 1..Len(missions) /\ Len(missions) \in Nat
    BY <1>1
  <1>3. IsFiniteSet(DOMAIN missions)
    BY <1>2, FS_Interval
  <1>4. IsFiniteSet(MissionsOf(w))
    BY <1>3, FS_Subset DEF MissionsOf
  <1> QED
    BY <1>4, FS_CardinalityType

\* A mission is created: w has one more, and every other work has those it had.
LEMMA MissionCreated ==
  ASSUME Inv, NEW w \in Works, missions' = Append(missions, [work |-> w, outcome |-> "OPEN"])
  PROVE  /\ \A v : v # w => MissionsOf(v)' = MissionsOf(v)
         /\ Cardinality(MissionsOf(w)) \in Nat
         /\ Cardinality(MissionsOf(w))' = Cardinality(MissionsOf(w)) + 1
         /\ Len(missions') \in Nat
  <1> DEFINE m == [work |-> w, outcome |-> "OPEN"]
             n == Len(missions) + 1
  <1>1. missions \in Seq(Mission) /\ m \in Mission /\ m.work = w
    BY DEF Inv, QueueInv, Mission, Outcomes
  <1>2. /\ missions' = Append(missions, m) /\ Len(missions') = n /\ n \in Nat
        /\ DOMAIN missions' = 1..n /\ DOMAIN missions = 1..Len(missions)
    BY <1>1
  <1>3. missions'[n] = m /\ \A i \in DOMAIN missions : missions'[i] = missions[i]
    BY <1>1, <1>2
  <1>4. DOMAIN missions' = DOMAIN missions \cup {n} /\ n \notin DOMAIN missions
    BY <1>1, <1>2
  <1>5. missions'[n].work = w
    BY <1>1, <1>3
  <1> HIDE DEF m, n
  <1>6. \A v : MissionsOf(v)' = {i \in DOMAIN missions' : missions'[i].work = v}
    BY DEF MissionsOf
  <1>7. \A v : v # w => MissionsOf(v)' = MissionsOf(v)
    BY <1>3, <1>4, <1>5, <1>6 DEF MissionsOf
  <1>8. MissionsOf(w)' = MissionsOf(w) \cup {n} /\ n \notin MissionsOf(w)
    BY <1>3, <1>4, <1>5, <1>6 DEF MissionsOf
  <1>9. IsFiniteSet(MissionsOf(w)) /\ Cardinality(MissionsOf(w)) \in Nat
    BY MissionsCounted
  <1>10. Cardinality(MissionsOf(w) \cup {n}) = Cardinality(MissionsOf(w)) + 1
    BY <1>8, <1>9, FS_AddElement
  <1> QED
    BY <1>2, <1>7, <1>8, <1>9, <1>10

LEMMA CreateClaims ==
  ASSUME Inv, Claims, Shrinks, NEW h \in Handlers, Create(h), UNCHANGED <<signalVars, demandVars, ruleVars>>
  PROVE  Claims'
  <1>1. PICK f : f = handler[h]
    OBVIOUS
  <1>2. PICK w : w = f.work
    OBVIOUS
  <1>3. f.pc = "create" /\ Holder(f) /\ w \in Works /\ Settled(w)
    BY <1>1, <1>2 DEF Create, Inv, HandlersInv, HandlerOK, Claims
  <1>4. missions' = Append(missions, [work |-> w, outcome |-> "OPEN"])
    BY <1>1, <1>2 DEF Create
  <1>5. /\ \A v : v # w => MissionsOf(v)' = MissionsOf(v)
        /\ Cardinality(MissionsOf(w)) \in Nat
        /\ Cardinality(MissionsOf(w))' = Cardinality(MissionsOf(w)) + 1
        /\ Len(missions') \in Nat
    BY <1>3, <1>4, MissionCreated
  <1>6. \A v \in Works \ {w} : SameAt(v)
    BY <1>5 DEF Create, SameAt, RowsOf, signalVars, demandVars, ruleVars
  <1>7. PICK c : /\ Moved(h, c) /\ c.work = w
                 /\ c.pc = IF w \in Governed THEN "bind" ELSE "settle"
    BY <1>1, <1>2, <1>5, EnqueuedMoves DEF Create, Inv
  <1>8. handler'[h] = c
    BY <1>7, MovedTo DEF Inv
  <1>9. Allowed(w)' = Allowed(w) /\ Allowed(w) \in Nat
    BY <1>3 DEF Allowed, Inv, RuleInv, ruleVars
  <1>10. /\ MayBegin(w)' <=> MayBegin(w)
         /\ Exempt(w)' <=> Exempt(w)
         /\ Undecided(w)' <=> Undecided(w)
         /\ RowsOf(w)' = RowsOf(w)
         /\ \A m : DecidedFor(w, m)' <=> DecidedFor(w, m)
         /\ Sentenced(w)' <=> Sentenced(w)
         /\ UNCHANGED <<signal, demand>>
    BY DEF Create, MayBegin, Exempt, Undecided, Sentenced, RowsOf, DecidedFor,
           signalVars, demandVars, ruleVars
  <1>11. ~Exempt(w) => Cardinality(MissionsOf(w))' <= Allowed(w)'
    BY <1>2, <1>3, <1>5, <1>9 DEF Holder, Beginning, Fresh
  <1>12. ~Exempt(w) /\ w \in Signals => ~MayBegin(w)
    BY <1>2, <1>3 DEF Holder, GatePcs, MayBegin, Sentenced
  <1>13. c.pc \in Ending
    BY <1>7 DEF Ending
  <1>14. Settled(w)'
    BY <1>3, <1>7, <1>8, <1>10, <1>11, <1>12, <1>13 DEF Settled
  <1>15. Holder(c)'
    BY <1>2, <1>3, <1>7, <1>10, Kinds DEF Holder, Beginning, GatePcs, Governed
  <1> QED
    BY <1>1, <1>2, <1>3, <1>6, <1>7, <1>14, <1>15, BusyStep DEF Create, Inv, Passive

-----------------------------------------------------------------------------
(* Demands *)

\* Nobody else is about to settle the demand or the rule of a busy handler that is not,
\* so that no mission was created for it.
LEMMA NotEndingIsFresh ==
  ASSUME Claims, NEW h \in Handlers, NEW w \in Works, handler[h].work = w,
         handler[h].pc \notin Passive \cup Ending, ~Exempt(w), MayBegin(w)
  PROVE  Fresh(w)
  <1>1. Busy(h, w)
    BY DEF Busy
  <1>2. \A q \in Handlers : handler[q].work = w /\ handler[q].pc \in Ending => Busy(q, w)
    BY DEF Busy, Passive, Ending
  <1> QED
    BY <1>1, <1>2 DEF Claims, Private, Settled, Exempt

\* The same, when it is about to begin.
LEMMA BeginningIsFresh ==
  ASSUME Claims, NEW h \in Handlers, NEW c, Begin(h, c), NEW w \in Works, c.work = w,
         handler[h].pc \in Passive, UNCHANGED dropped, ~Exempt(w)', MayBegin(w)
  PROVE  Fresh(w)
  <1>1. ~Exempt(w) /\ \A q \in Handlers \ {h} : ~Busy(q, w)
    BY DEF Begin, Exempt
  <1>2. \A q \in Handlers : handler[q].pc \in Ending => q # h /\ handler[q].pc \notin Passive
    BY DEF Passive, Ending
  <1> QED
    BY <1>1, <1>2 DEF Claims, Settled, Busy

LEMMA InterpretClaims ==
  ASSUME Inv, Claims, Shrinks, NEW h \in Handlers, NEW d \in Demands, Interpret(h, d),
         UNCHANGED <<signalVars, ruleVars>>
  PROVE  Claims'
  <1>1. PICK c : c = At("plan", d)
    OBVIOUS
  <1>2. c.pc = "plan" /\ c.work = d /\ d \in Works /\ d \in Governed
    BY <1>1, AtIsThere, Kinds DEF AllPcs, DemandPcs, Governed
  <1>3. /\ demand'[d].status = "INTERPRETING" /\ \A v \in Works \ {d} : SameAt(v)
    <2>1. PICK r : r = [demand[d] EXCEPT !.status = "INTERPRETING"]
      OBVIOUS
    <2>2. demand' = [demand EXCEPT ![d] = r] /\ r.status = "INTERPRETING"
      BY <2>1 DEF Interpret, Inv, DemandInv, Demand
    <2> QED
      BY <2>2, DemandWritten DEF Interpret, signalVars, ruleVars
  <1>4. /\ approval[d] = "NONE" /\ demand[d].status = "NONE"
        /\ \A q \in Handlers : handler[q].work # d
    BY <1>2, Kinds DEF Interpret, Claims, Unarrived, Governed
  <1>5. UNCHANGED <<missions, ledger, rounds, approval, dropped>>
    BY DEF Interpret, ruleVars
  <1>6. Holder(c)'
    BY <1>2, <1>4, <1>5, Kinds DEF Holder, Beginning, GatePcs
  <1>7. Exempt(d) => Exempt(d)'
    BY <1>5 DEF Interpret, Begin, Exempt
  <1>8. ~Exempt(d) => Fresh(d) /\ Cardinality(MissionsOf(d)) <= Allowed(d)
    BY <1>2, <1>4, Kinds DEF Claims, Settled, MayBegin
  <1>9. Settled(d)'
    BY <1>2, <1>3, <1>5, <1>7, <1>8, Uncounted, Kinds DEF Settled
  <1> QED
    BY <1>1, <1>2, <1>3, <1>5, <1>6, <1>9, BeginStep DEF Interpret, Free, Inv, Passive

LEMMA PlanClaims ==
  ASSUME Inv, Claims, Shrinks, NEW h \in Handlers, Plan(h), UNCHANGED <<signalVars, ruleVars>>
  PROVE  Claims'
  <1>1. PICK f : f = handler[h]
    OBVIOUS
  <1>2. PICK d : d = f.work
    OBVIOUS
  <1>3. f.pc = "plan" /\ Holder(f) /\ d \in Demands /\ d \in Works /\ Settled(d)
    BY <1>1, <1>2, Kinds DEF Plan, Inv, HandlersInv, HandlerOK, DemandPcs, Claims
  <1>4. /\ demand'[d].status \in {"AWAITING_APPROVAL", "PLANNED"}
        /\ \A v \in Works \ {d} : SameAt(v)
    <2>1. PICK r : r = [demand[d] EXCEPT
                         !.status = IF d \in Critical THEN "AWAITING_APPROVAL" ELSE "PLANNED"]
      OBVIOUS
    <2>2. demand' = [demand EXCEPT ![d] = r] /\ r.status \in {"AWAITING_APPROVAL", "PLANNED"}
      BY <1>1, <1>2, <1>3, <2>1 DEF Plan, Inv, DemandInv, Demand
    <2> QED
      BY <1>3, <2>2, DemandWritten DEF Plan, signalVars, ruleVars
  <1>5. UNCHANGED <<missions, ledger, rounds, approval, inputs, crossed, dropped>>
    BY DEF Plan, GoTo, Return, ruleVars
  <1>6. PICK c : Moved(h, c) /\ \/ c.pc \in Passive /\ c.work = NoWork
                                \/ c.pc = "ask" /\ c.work = d
    <2>1. CASE Return(h)
      BY <2>1, ReturnMoves, IdleIsPassive
    <2>2. CASE GoTo(h, "ask")
      BY <1>1, <1>2, <2>2, GoToMoves DEF Inv, AllPcs, DemandPcs
    <2> QED
      BY <2>1, <2>2 DEF Plan
  <1>7. ~Exempt(d) => approval[d] = "NONE" /\ MayBegin(d)
    BY <1>2, <1>3, Kinds DEF Holder, Settled, Undecided, MayBegin
  <1>8. ~Exempt(d) => Fresh(d)
    BY <1>1, <1>2, <1>3, <1>7, NotEndingIsFresh DEF Passive, Ending
  <1>9. Settled(d)'
    BY <1>3, <1>4, <1>5, <1>8, Uncounted, Kinds DEF Settled, Exempt
  <1>10. Holder(c)'
    <2>1. CASE c.pc \in Passive
      BY <2>1, PassiveHolds
    <2>2. CASE c.pc = "ask" /\ c.work = d
      BY <1>3, <1>5, <1>7, <2>2, Kinds DEF Holder, Beginning, GatePcs, Exempt
    <2> QED
      BY <1>6, <2>1, <2>2
  <1> QED
    BY <1>1, <1>2, <1>3, <1>4, <1>5, <1>6, <1>9, <1>10, BusyStep DEF Inv, Passive

LEMMA AskClaims ==
  ASSUME Inv, Claims, Shrinks, NEW h \in Handlers, Ask(h), UNCHANGED <<signalVars, ruleVars>>
  PROVE  Claims'
  <1>1. PICK f : f = handler[h]
    OBVIOUS
  <1>2. PICK d : d = f.work
    OBVIOUS
  <1>3. f.pc = "ask" /\ Holder(f) /\ d \in Demands /\ d \in Works /\ Settled(d)
    BY <1>1, <1>2, Kinds DEF Ask, Inv, HandlersInv, HandlerOK, DemandPcs, Claims
  <1>4. approval'[d] = "PENDING" /\ \A v \in Works \ {d} : SameAt(v)
    BY <1>1, <1>2, <1>3, ApprovalWritten DEF Ask, signalVars, ruleVars
  <1>5. UNCHANGED <<missions, ledger, rounds, demand, inputs, crossed, dropped>>
    BY DEF Ask, Return, ruleVars
  <1>6. Moved(h, Idle) /\ Holder(Idle)'
    BY ReturnMoves, IdleIsPassive, PassiveHolds DEF Ask
  <1>7. ~Exempt(d) => approval[d] = "NONE" /\ MayBegin(d)
    BY <1>2, <1>3, Kinds DEF Holder, Settled, Undecided, MayBegin
  <1>8. ~Exempt(d) => Fresh(d)
    BY <1>1, <1>2, <1>3, <1>7, NotEndingIsFresh DEF Passive, Ending
  <1>9. Settled(d)'
    BY <1>3, <1>4, <1>5, <1>7, <1>8, Uncounted, Kinds DEF Settled, Undecided, Exempt
  <1> QED
    BY <1>1, <1>2, <1>3, <1>4, <1>5, <1>6, <1>9, IdleIsPassive, BusyStep DEF Inv, Passive

LEMMA ResolveClaims ==
  ASSUME Inv, Claims, Shrinks, NEW h \in Handlers, NEW d \in Demands, NEW v \in DOMAIN DemandStatusOf,
         Resolve(h, d, v), UNCHANGED <<signalVars, ruleVars>>
  PROVE  Claims'
  <1>1. PICK c : c = [At("decide", d) EXCEPT !.verdict = v]
    OBVIOUS
  <1>2. c.pc = "decide" /\ c.work = d /\ d \in Works /\ d \in Governed
    BY <1>1, AtIsThere, Kinds DEF AllPcs, DemandPcs, Handling, Governed
  <1>3. \A w : SameAt(w)
    BY SameTables DEF Resolve, signalVars, ruleVars
  <1>4. approval[d] = "PENDING" /\ approval'[d] = approval[d]
    BY DEF Resolve
  <1>5. d \notin inputs
    BY <1>4, Kinds DEF Claims, Unarrived, Governed
  <1>6. Holder(c)'
    BY <1>2, <1>4, Kinds DEF Holder, Beginning, GatePcs
  <1> QED
    BY <1>1, <1>2, <1>3, <1>5, <1>6, SameIsKept, BeginCalmly DEF Resolve, Free, Inv, Passive

LEMMA DecideClaims ==
  ASSUME Inv, Claims, Shrinks, NEW h \in Handlers, Decide(h), UNCHANGED <<signalVars, ruleVars>>
  PROVE  Claims'
  <1>1. PICK f : f = handler[h]
    OBVIOUS
  <1>2. PICK d : d = f.work
    OBVIOUS
  <1>3. /\ f.pc = "decide" /\ Holder(f) /\ d \in Demands /\ d \in Works /\ Settled(d)
        /\ f.verdict \in Resolutions
    BY <1>1, <1>2, Kinds DEF Decide, Inv, HandlersInv, HandlerOK, DemandPcs, Claims
  <1>4. approval'[d] = f.verdict /\ \A v \in Works \ {d} : SameAt(v)
    BY <1>1, <1>2, <1>3, ApprovalWritten DEF Decide, signalVars, ruleVars
  <1>5. UNCHANGED <<missions, ledger, rounds, demand, inputs, crossed, dropped>>
    BY DEF Decide, GoTo, ruleVars
  <1>6. PICK c : Moved(h, c) /\ c.pc = "apply" /\ c.work = d
    BY <1>1, <1>2, GoToMoves DEF Decide, Inv, AllPcs, DemandPcs
  <1>7. ~Exempt(d) => MayBegin(d)
    BY <1>2, <1>3, Kinds DEF Holder, Settled, Undecided, MayBegin
  <1>8. ~Exempt(d) => Fresh(d)
    BY <1>1, <1>2, <1>3, <1>7, NotEndingIsFresh DEF Passive, Ending
  <1>9. ~Undecided(d)'
    BY <1>3, <1>4 DEF Undecided, Resolutions
  <1>10. Settled(d)'
    BY <1>3, <1>5, <1>8, <1>9, Uncounted, Kinds DEF Settled, Exempt
  <1>11. Holder(c)'
    BY <1>3, <1>5, <1>6, <1>8, <1>9, Uncounted, Kinds DEF Holder, Beginning, GatePcs, Exempt
  <1> QED
    BY <1>1, <1>2, <1>3, <1>4, <1>5, <1>6, <1>10, <1>11, BusyStep DEF Inv, Passive

LEMMA ApplyClaims ==
  ASSUME Inv, Claims, Shrinks, NEW h \in Handlers, Apply(h), UNCHANGED <<signalVars, ruleVars>>
  PROVE  Claims'
  <1>1. PICK f : f = handler[h]
    OBVIOUS
  <1>2. PICK d : d = f.work
    OBVIOUS
  <1>3. f.pc = "apply" /\ Holder(f) /\ d \in Demands /\ d \in Works /\ Settled(d)
    BY <1>1, <1>2, Kinds DEF Apply, Inv, HandlersInv, HandlerOK, DemandPcs, Claims
  <1>4. \A v \in Works \ {d} : SameAt(v)
    <2>1. PICK r : r = [demand[d] EXCEPT !.status = DemandStatusOf[f.verdict]]
      OBVIOUS
    <2>2. demand' = [demand EXCEPT ![d] = r]
      BY <1>1, <1>2, <1>3, <2>1 DEF Apply, Inv, DemandInv
    <2> QED
      BY <1>3, <2>2, DemandWritten DEF Apply, signalVars, ruleVars
  <1>5. UNCHANGED <<missions, ledger, rounds, approval, inputs, crossed, dropped>>
    BY DEF Apply, Return, ruleVars
  <1>6. Moved(h, Idle) /\ Holder(Idle)'
    BY ReturnMoves, IdleIsPassive, PassiveHolds DEF Apply
  <1>7. ~Exempt(d) => Fresh(d) /\ ~Undecided(d)
    BY <1>2, <1>3, Kinds DEF Holder
  <1>8. Settled(d)'
    BY <1>3, <1>5, <1>7, Uncounted, Kinds DEF Settled, Undecided, Exempt
  <1> QED
    BY <1>1, <1>2, <1>3, <1>4, <1>5, <1>6, <1>8, IdleIsPassive, BusyStep DEF Inv, Passive

LEMMA ExecuteClaims ==
  ASSUME Inv, Claims, Shrinks, NEW h \in Handlers, NEW d \in Demands, Execute(h, d),
         UNCHANGED <<signalVars, ruleVars>>
  PROVE  Claims'
  <1>1. PICK c : c = At("admit", d)
    OBVIOUS
  <1>2. c.pc = "admit" /\ c.work = d /\ d \in Works /\ d \in Governed
    BY <1>1, AtIsThere, Kinds DEF AllPcs, GatePcs, Governed
  <1>3. \A w : SameAt(w)
    BY SameTables DEF Execute, signalVars, ruleVars
  <1>4. d \notin inputs
    BY Kinds DEF Execute, CanExecute, Claims, Unarrived, Governed
  <1>5. UNCHANGED <<missions, ledger, rounds, approval, dropped>> /\ Begin(h, c)
    BY <1>1 DEF Execute, ruleVars
  <1>6. Exempt(d) => Exempt(d)'
    BY <1>5 DEF Begin, Exempt
  <1>7. ~Exempt(d)' => ~Undecided(d)
    BY <1>2, <1>6, Kinds DEF Execute, CanExecute, Claims, Settled, Undecided
  <1>8. MayBegin(d)
    BY Kinds DEF Execute, CanExecute, MayBegin
  <1>9. ~Exempt(d)' => Fresh(d)
    BY <1>2, <1>5, <1>8, BeginningIsFresh DEF Execute, Free, Passive
  <1>10. Holder(c)'
    BY <1>2, <1>5, <1>7, <1>9, Uncounted, Kinds DEF Holder, Beginning, GatePcs, Undecided
  <1> QED
    BY <1>1, <1>2, <1>3, <1>4, <1>10, SameIsKept, BeginCalmly DEF Execute, Free, Inv, Passive

LEMMA LinkClaims ==
  ASSUME Inv, Claims, Shrinks, NEW h \in Handlers, Link(h), UNCHANGED <<signalVars, ruleVars>>
  PROVE  Claims'
  <1>1. PICK f : f = handler[h]
    OBVIOUS
  <1>2. PICK d : d = f.work
    OBVIOUS
  <1>3. f.pc = "settle" /\ Holder(f) /\ d \in Demands /\ d \in Works /\ Settled(d)
    BY <1>1, <1>2, Kinds DEF Link, Claims
  <1>4. demand'[d].status = "EXECUTING" /\ \A v \in Works \ {d} : SameAt(v)
    <2>1. PICK r : r = [status |-> "EXECUTING", mission |-> f.mission]
      OBVIOUS
    <2>2. demand' = [demand EXCEPT ![d] = r] /\ r.status = "EXECUTING"
      BY <1>1, <1>2, <2>1 DEF Link
    <2> QED
      BY <1>3, <2>2, DemandWritten DEF Link, signalVars, ruleVars
  <1>5. UNCHANGED <<missions, ledger, rounds, approval, inputs, crossed, dropped>>
    BY DEF Link, Return, ruleVars
  <1>6. Moved(h, Idle) /\ Holder(Idle)'
    BY ReturnMoves, IdleIsPassive, PassiveHolds DEF Link
  <1>7. ~Exempt(d) => ~Undecided(d)
    BY <1>2, <1>3, Kinds DEF Holder, GatePcs
  <1>8. ~MayBegin(d)'
    BY <1>3, <1>4 DEF MayBegin
  <1>9. Settled(d)'
    BY <1>3, <1>5, <1>7, <1>8, Uncounted, Kinds DEF Settled, Undecided, Exempt
  <1> QED
    BY <1>1, <1>2, <1>3, <1>4, <1>5, <1>6, <1>9, IdleIsPassive, BusyStep DEF Inv, Passive

LEMMA ReconcileClaims ==
  ASSUME Inv, Claims, Shrinks, NEW h \in Handlers, NEW d \in Demands, Reconcile(h, d),
         UNCHANGED <<signalVars, ruleVars>>
  PROVE  Claims'
  <1>1. PICK c : c = [At("close", d) EXCEPT !.mission = demand[d].mission]
    OBVIOUS
  <1>2. c.pc = "close" /\ c.work = d /\ d \in Works
    BY <1>1, AtIsThere, Kinds DEF AllPcs, DemandPcs, Handling
  <1>3. \A w : SameAt(w)
    BY SameTables DEF Reconcile, signalVars, ruleVars
  <1>4. \A v \in inputs \cap (Governed \ Scans) : v # d
    BY DEF Reconcile, Claims, Unarrived
  <1>5. Moved(h, c)
    BY <1>1 DEF Reconcile, Moved
  <1> QED
    BY <1>2, <1>3, <1>4, <1>5, SameIsKept, PassiveStep DEF Reconcile, Free, Inv, Passive

LEMMA CloseClaims ==
  ASSUME Inv, Claims, Shrinks, NEW h \in Handlers, Close(h), UNCHANGED <<signalVars, ruleVars>>
  PROVE  Claims'
  <1>1. PICK f : f = handler[h]
    OBVIOUS
  <1>2. PICK d : d = f.work
    OBVIOUS
  <1>3. f.pc = "close" /\ d \in Demands /\ d \in Works
    BY <1>1, <1>2, Kinds DEF Close, Inv, HandlersInv, HandlerOK, DemandPcs
  <1>4. KeptAt(d) /\ \A v \in Works \ {d} : SameAt(v)
    <2>1. CASE Closable(h)
      <3>1. PICK r : r = [demand[d] EXCEPT !.status = Closing(missions[f.mission].outcome)]
        OBVIOUS
      <3>2. demand' = [demand EXCEPT ![d] = r] /\ r.status \in {"COMPLETED", "FAILED"}
        BY <1>1, <1>2, <1>3, <2>1, <3>1 DEF Close, Closing, Inv, DemandInv, Demand
      <3>3. demand'[d] = r /\ \A v \in Works \ {d} : SameAt(v)
        BY <1>3, <3>2, DemandWritten DEF Close, signalVars, ruleVars
      <3>4. demand[d].status = "EXECUTING"
        BY <1>1, <1>2, <2>1 DEF Closable
      <3>5. KeptAt(d)
        BY <1>3, <3>2, <3>3, <3>4, Kinds
        DEF KeptAt, MissionsOf, RowsOf, Close, signalVars, ruleVars
      <3> QED
        BY <3>3, <3>5
    <2>2. CASE ~Closable(h)
      BY <2>2, SameTables, SameIsKept DEF Close, signalVars, ruleVars
    <2> QED
      BY <2>1, <2>2
  <1>5. \A v \in inputs \cap (Governed \ Scans) : v # d
    BY <1>1, <1>2 DEF Claims, Unarrived
  <1>6. Moved(h, Idle) /\ \A v \in inputs \cap (Governed \ Scans) : Idle.work # v
    BY ReturnMoves, IdleIsPassive, Kinds DEF Close, Works, Governed
  <1>7. \A v \in inputs \cap (Governed \ Scans) : v \in Works
    BY Kinds DEF Works, Governed
  <1> QED
    BY <1>1, <1>3, <1>4, <1>5, <1>6, <1>7, IdleIsPassive, SameIsKept, PassiveStep
    DEF Close, Return, Inv, Passive

-----------------------------------------------------------------------------
(* Rules *)

LEMMA ElapseClaims ==
  ASSUME Inv, Claims, Shrinks, NEW r \in Rules, Elapse(r), UNCHANGED <<signalVars, demandVars>>
  PROVE  Claims'
  <1>1. \A v \in Works \ {r} : SameAt(v)
    BY DEF Elapse, Inv, RuleInv, SameAt, MissionsOf, RowsOf, signalVars, demandVars
  <1>2. rounds[r] \in Nat /\ rounds'[r] = rounds[r] + 1
    BY DEF Elapse, Inv, RuleInv
  <1>3. Cardinality(MissionsOf(r)) \in Nat
    BY MissionsCounted
  <1>4. MissionsOf(r)' = MissionsOf(r)
    BY DEF Elapse, MissionsOf
  <1>5. r \in Works /\ r \notin Signals /\ r \notin Demands
    BY Kinds
  <1>6. ~Exempt(r) => Cardinality(MissionsOf(r)) <= rounds[r]
    BY <1>5 DEF Claims, Settled, Allowed
  <1>7. (Exempt(r) \/ Fresh(r))'
    <2>1. CASE Exempt(r)
      BY <2>1 DEF Elapse, Exempt
    <2>2. CASE ~Exempt(r)
      BY <1>2, <1>3, <1>4, <1>6, <2>2 DEF Fresh, Allowed
    <2> QED
      BY <2>1, <2>2
  <1>8. Exempt(r)' <=> Exempt(r)
    BY DEF Elapse, Exempt
  <1>9. Settled(r)'
    BY <1>2, <1>3, <1>4, <1>5, <1>6, <1>7, <1>8 DEF Settled, Allowed
  <1> QED
    BY <1>1, <1>7, <1>9, StillStep DEF Elapse, Inv

\* Nobody who is at a rule that is due is about to settle it, unless it is crossed, or
\* listed already.
LEMMA ListClaims ==
  ASSUME Inv, AheadInv, Claims, NEW h \in Handlers, List(h), UNCHANGED <<signalVars, demandVars>>
  PROVE  Claims'
  <1>1. \A v : SameAt(v)
    BY SameTables DEF List, signalVars, demandVars
  <1>2. \A v : Exempt(v) => Exempt(v)'
    BY DEF List, Exempt
  <1>3. /\ \A q \in Handlers \ {h} : ahead'[q] = ahead[q]
        /\ ahead'[h] = {r \in Rules : due[r]}
        /\ handler[h].pc = "idle" /\ UNCHANGED handler
    BY DEF List, AheadInv
  <1>4. \A r \in ahead'[h] : \A q \in Handlers \ {h} : Busy(q, r) => r \in crossed'
    BY <1>3 DEF List
  <1>5. \A q \in Handlers \ {h}, v \in Works : Busy(q, v)' <=> Busy(q, v)
    BY <1>3 DEF Busy
  <1>6. \A v \in Works : Busy(h, v)' => v \in ahead'[h]
    BY <1>3 DEF Busy, Passive
  <1>7. crossed \subseteq crossed'
    BY DEF List
  <1>8. Private'
    <2> SUFFICES ASSUME NEW v \in Works \ crossed', NEW p \in Handlers, NEW q \in Handlers,
                        Busy(p, v)', Busy(q, v)', p # q
                 PROVE  FALSE
      BY DEF Private
    <2>1. CASE p = h \/ q = h
      BY <1>4, <1>5, <1>6, <2>1
    <2>2. CASE p # h /\ q # h
      BY <1>5, <1>7, <2>2 DEF Claims, Private
    <2> QED
      BY <2>1, <2>2
  <1>9. Unarrived'
    BY DEF List, Claims, Unarrived, signalVars, demandVars
  <1>10. ASSUME NEW q \in Handlers
         PROVE  Holder(handler[q])'
    <2>1. PICK d : d = handler[q]
      OBVIOUS
    <2>2. Holder(d)'
      BY <1>1, <1>2, <2>1, SameIsKept, HolderStays DEF Claims
    <2> QED
      BY <1>3, <2>1, <2>2 DEF Holder
  <1>11. ASSUME NEW v \in Works
         PROVE  Settled(v)'
    BY <1>1, <1>2, <1>3, SameIsKept, SettledStays DEF Claims
  <1>12. Listed'
    <2> SUFFICES ASSUME NEW q \in Handlers, NEW r \in ahead'[q] \cap Rules
                 PROVE  /\ handler'[q].work = r => handler'[q].pc \in Passive
                        /\ ~Exempt(r)' => Fresh(r)'
      BY DEF Listed
    <2>1. r \in Works /\ r \notin Signals /\ r \notin Demands
      BY Kinds
    <2>2. CASE q # h
      BY <1>1, <1>2, <1>3, <2>2, FreshStays, SameIsKept DEF Claims, Listed
    <2>3. CASE q = h
      <3>1. MayBegin(r) /\ Settled(r)
        BY <1>3, <2>1, <2>3 DEF MayBegin, Claims
      <3>2. ~Exempt(r)' => \A g \in Handlers : ~(handler[g].work = r /\ handler[g].pc \in Ending)
        BY <1>3, <1>4, <2>3 DEF Busy, Exempt, Passive, Ending
      <3>3. ~Exempt(r)' => Fresh(r)
        BY <1>2, <2>1, <3>1, <3>2 DEF Settled
      <3> QED
        BY <1>1, <1>3, <2>3, <3>3, FreshStays, SameIsKept DEF Passive
    <2> QED
      BY <2>2, <2>3
  <1> QED
    BY <1>8, <1>9, <1>10, <1>11, <1>12 DEF Claims

LEMMA TickClaims ==
  ASSUME Inv, AheadInv, Claims, Shrinks, NEW h \in Handlers, NEW r \in Rules, Tick(h, r),
         UNCHANGED <<signalVars, demandVars>>
  PROVE  Claims'
  <1>1. PICK c : c = At("find", r)
    OBVIOUS
  <1>2. c.pc = "find" /\ c.work = r /\ r \in Works /\ r \notin Governed
    BY <1>1, AtIsThere, Kinds DEF AllPcs, GatePcs, Governed
  <1>3. \A w : SameAt(w)
    BY SameTables DEF Tick, signalVars, demandVars
  <1>4. UNCHANGED <<missions, ledger, rounds, crossed, dropped, inputs>> /\ Moved(h, c)
    BY <1>1 DEF Tick, Moved
  <1>5. /\ r \in ahead[h] /\ r \notin ahead'[h] /\ handler[h].pc = "idle"
    BY DEF Tick, AheadInv
  <1>6. r \in crossed \/ \A q \in Handlers \ {h} : ~Busy(q, r)
    BY <1>2, <1>5 DEF Claims, Private, Busy
  <1>7. (~Exempt(r) => Fresh(r)) /\ (Exempt(r) => Exempt(r)')
    BY <1>4, <1>5 DEF Claims, Listed, Exempt
  <1>8. Holder(c)'
    BY <1>2, <1>4, <1>7, Uncounted, Kinds DEF Holder, Governed, Exempt
  <1>9. handler'[h] = c /\ \A q \in Handlers \ {h} : handler'[q] = handler[q]
    BY <1>4, MovedTo DEF Inv
  <1>10. Settled(r)'
    BY <1>2, <1>3, <1>5, <1>7, <1>9, SameIsKept, SettledStays DEF Claims, Ending
  <1> QED
    BY <1>2, <1>3, <1>4, <1>5, <1>6, <1>8, <1>10, StepKeeps DEF Inv, Passive

LEMMA MarkEnqueuedClaims ==
  ASSUME Inv, Claims, Shrinks, NEW h \in Handlers, MarkEnqueued(h), UNCHANGED <<signalVars, demandVars>>
  PROVE  Claims'
  <1>1. PICK f : f = handler[h]
    OBVIOUS
  <1>2. PICK r : r = f.work
    OBVIOUS
  <1>3. f.pc = "settle" /\ r \in Rules /\ r \in Works /\ Settled(r)
    BY <1>1, <1>2, Kinds DEF MarkEnqueued, Claims
  <1>4. due' = [due EXCEPT ![r] = FALSE]
    BY <1>1, <1>2 DEF MarkEnqueued
  <1>5. due'[r] = FALSE /\ \A v \in Works \ {r} : SameAt(v)
    BY <1>3, <1>4 DEF MarkEnqueued, Inv, RuleInv, SameAt, MissionsOf, RowsOf, signalVars, demandVars
  <1>6. UNCHANGED <<missions, ledger, rounds, inputs, crossed, dropped>>
    BY DEF MarkEnqueued, Return
  <1>7. Moved(h, Idle) /\ Holder(Idle)'
    BY ReturnMoves, IdleIsPassive, PassiveHolds DEF MarkEnqueued
  <1>8. ~MayBegin(r)'
    BY <1>3, <1>5 DEF MayBegin
  <1>9. Settled(r)'
    BY <1>3, <1>6, <1>8, Uncounted, Kinds DEF Settled, Exempt
  <1> QED
    BY <1>1, <1>2, <1>3, <1>5, <1>6, <1>7, <1>9, IdleIsPassive, BusyStep DEF Inv, Passive

-----------------------------------------------------------------------------
(* The world *)

LEMMA FinishClaims ==
  ASSUME Inv, Claims, Shrinks, NEW i \in DOMAIN missions, NEW o \in Outcomes, Finish(i, o),
         UNCHANGED <<signalVars, demandVars, ruleVars>>
  PROVE  Claims'
  <1>1. missions \in Seq(Mission)
    BY DEF Inv, QueueInv
  <1>2. \A j \in DOMAIN missions : missions[j] \in Mission
    BY <1>1
  <1>3. DOMAIN missions' = DOMAIN missions
        /\ \A j \in DOMAIN missions : missions'[j].work = missions[j].work
    BY <1>1, <1>2 DEF Finish, Mission
  <1>4. \A v : MissionsOf(v)' = MissionsOf(v)
    BY <1>3 DEF MissionsOf
  <1>5. \A v : SameAt(v)
    BY <1>4 DEF Finish, SameAt, RowsOf, signalVars, demandVars, ruleVars
  <1> QED
    BY <1>5, StillStep DEF Finish, Inv

LEMMA PushClaims ==
  ASSUME Inv, Claims, Shrinks, NEW s \in Scans, Push(s), UNCHANGED <<demandVars, ruleVars>>
  PROVE  Claims'
  <1>1. \A v : SameAt(v)
    BY SameTables DEF Push, demandVars, ruleVars
  <1> QED
    BY <1>1, StillStep DEF Push, Inv

\* A handler leaves its work, which counts as dropped, unless it is a signal.
LEMMA LeftClaims ==
  ASSUME Inv, Claims, Shrinks, NEW h \in Handlers, Return(h), UNCHANGED inputs,
         dropped \subseteq dropped',
         handler[h].pc \notin Passive => handler[h].work \in Signals \cup dropped',
         \A v : SameAt(v)
  PROVE  Claims'
  <1>1. PICK f : f = handler[h]
    OBVIOUS
  <1>2. PICK w : w = f.work
    OBVIOUS
  <1>3. Moved(h, Idle) /\ UNCHANGED crossed
    BY ReturnMoves DEF Return
  <1>4. CASE f.pc \in Passive
    <2>1. \A v \in inputs \cap (Governed \ Scans) : Idle.work # v
      BY IdleIsPassive, Kinds DEF Works, Governed
    <2> QED
      BY <1>1, <1>3, <1>4, <2>1, IdleIsPassive, SameIsKept, PassiveStep DEF Inv
  <1>5. CASE f.pc \notin Passive
    <2>1. handler'[h] = Idle /\ \A q \in Handlers \ {h} : handler'[q] = handler[q]
      BY <1>3, MovedTo DEF Inv
    <2>2. w \in Works
      BY <1>1, <1>2, <1>5, AloneAt DEF Inv
    <2>3. w \in Signals \/ Exempt(w)'
      BY <1>1, <1>2, <1>5 DEF Exempt
    <2>4. Exempt(w) => Exempt(w)'
      BY <1>3 DEF Exempt
    <2>5. Settled(w)'
      BY <1>1, <1>2, <2>1, <2>2, <2>3, <2>4, SameIsKept, SettledStays DEF Claims
    <2>6. Holder(Idle)'
      BY IdleIsPassive, PassiveHolds
    <2> QED
      BY <1>1, <1>2, <1>3, <1>5, <2>5, <2>6, IdleIsPassive, BusyStep DEF Inv
  <1> QED
    BY <1>4, <1>5

LEMMA DieClaims ==
  ASSUME Inv, Claims, Shrinks, NEW h \in Handlers, Die(h),
         UNCHANGED <<signalVars, demandVars, ruleVars>>
  PROVE  Claims'
  <1>1. \A v : SameAt(v)
    BY SameTables DEF Die, signalVars, demandVars, ruleVars
  <1>2. handler[h].pc \notin Passive => handler[h].work \in dropped'
    BY AloneAt DEF Die, Left, Passive, Inv
  <1> QED
    BY <1>1, <1>2, LeftClaims DEF Die, Leave

\* A rule whose error is caught is none that the cycle has yet to come to.
LEMMA CatchClaims ==
  ASSUME Inv, Claims, Shrinks, NEW h \in Handlers, Catch(h),
         UNCHANGED <<signalVars, demandVars, ruleVars>>
  PROVE  Claims'
  <1>1. \A v : SameAt(v)
    BY SameTables DEF Catch, signalVars, demandVars, ruleVars
  <1>2. handler[h].pc \notin Passive => handler[h].work \in dropped'
    BY AloneAt DEF Catch, Left, Passive, Inv
  <1> QED
    BY <1>1, <1>2, LeftClaims DEF Catch

-----------------------------------------------------------------------------
(* The invariant *)

LEMMA InitClaims ==
  ASSUME Init
  PROVE  Claims
  <1> USE DEF Init, GovernanceInit, SignalInit, DemandInit, RuleInit
  <1>1. Private
    BY IdleIsPassive DEF Private, Busy
  <1>2. Unarrived /\ Listed
    BY IdleIsPassive, Kinds, GovernanceAssumption DEF Unarrived, Listed, NoSignal, Works, Governed
  <1>3. \A h \in Handlers : Holder(handler[h])
    BY IdleIsPassive, PassiveHolds
  <1>4. ASSUME NEW w \in Works
        PROVE  Settled(w)
    <2>1. MissionsOf(w) = {} /\ RowsOf(w) = {}
      BY DEF MissionsOf, RowsOf
    <2>2. Cardinality(MissionsOf(w)) = 0
      BY <2>1, FS_EmptySet
    <2>3. w \in Signals => signal[w].status = "NONE"
      BY DEF NoSignal
    <2>4. w \in Demands => demand[w].status = "NONE"
      OBVIOUS
    <2>5. Allowed(w) \in Nat
      BY DEF Allowed
    <2>6. w \in Rules /\ due[w] => Allowed(w) = 1
      BY DEF Allowed
    <2>7. MayBegin(w) => Fresh(w)
      <3>1. w \notin Rules => Allowed(w) = 1
        BY DEF Allowed
      <3> QED
        BY <2>2, <2>6, <3>1 DEF MayBegin, Fresh
    <2> QED
      BY <2>1, <2>2, <2>3, <2>4, <2>5, <2>7, Kinds DEF Settled
  <1> QED
    BY <1>1, <1>2, <1>3, <1>4 DEF Claims

LEMMA ProceedClaims ==
  ASSUME Inv, AheadInv, Claims, Shrinks, NEW h \in Handlers, Proceed(h)
  PROVE  Claims'
  <1>1. CASE GateStep(h) /\ UNCHANGED <<signalVars, demandVars, ruleVars>>
    BY <1>1, AdmitClaims, SkipClaims, FindOpenClaims, CreateClaims, BindClaims DEF GateStep
  <1>2. CASE SignalStep(h) /\ UNCHANGED <<demandVars, ruleVars>>
    BY <1>2, FetchClaims, StoreClaims, IngestClaims, LoadClaims, JudgeClaims, EvaluateClaims,
       MayConvertClaims, MarkConvertedClaims DEF SignalStep
  <1>3. CASE DemandStep(h) /\ UNCHANGED <<signalVars, ruleVars>>
    BY <1>3, PlanClaims, AskClaims, DecideClaims, ApplyClaims, LinkClaims, CloseClaims
    DEF DemandStep
  <1>4. CASE RuleStep(h) /\ UNCHANGED <<signalVars, demandVars>>
    BY <1>4, ListClaims, TickClaims, MarkEnqueuedClaims DEF RuleStep
  <1> QED
    BY <1>1, <1>2, <1>3, <1>4 DEF Proceed

LEMMA RequestClaims ==
  ASSUME Inv, Claims, Shrinks, NEW h \in Handlers, Request(h)
  PROVE  Claims'
  <1>1. CASE \E s \in Signals : Deliver(h, s) /\ UNCHANGED <<demandVars, ruleVars>>
    BY <1>1, DeliverClaims
  <1>2. CASE /\ \E d \in Demands : Interpret(h, d) \/ Execute(h, d) \/ Reconcile(h, d)
             /\ UNCHANGED <<signalVars, ruleVars>>
    BY <1>2, InterpretClaims, ExecuteClaims, ReconcileClaims
  <1>3. CASE /\ \E d \in Demands, v \in DOMAIN DemandStatusOf : Resolve(h, d, v)
             /\ UNCHANGED <<signalVars, ruleVars>>
    BY <1>3, ResolveClaims
  <1> QED
    BY <1>1, <1>2, <1>3 DEF Request

LEMMA WorldClaims ==
  ASSUME Inv, Claims, Shrinks, World
  PROVE  Claims'
  <1>1. CASE /\ \E i \in DOMAIN missions, o \in Outcomes : Finish(i, o)
             /\ UNCHANGED <<signalVars, demandVars, ruleVars>>
    BY <1>1, FinishClaims
  <1>2. CASE /\ \E h \in Handlers : Die(h) \/ Catch(h)
             /\ UNCHANGED <<signalVars, demandVars, ruleVars>>
    BY <1>2, DieClaims, CatchClaims
  <1>3. CASE \E s \in Scans : Push(s) /\ UNCHANGED <<demandVars, ruleVars>>
    BY <1>3, PushClaims
  <1>4. CASE \E r \in Rules : Elapse(r) /\ UNCHANGED <<signalVars, demandVars>>
    BY <1>4, ElapseClaims
  <1> QED
    BY <1>1, <1>2, <1>3, <1>4 DEF World

LEMMA LookClaims ==
  ASSUME Inv, Claims, Shrinks, NEW h \in Handlers, Look(h)
  PROVE  Claims'
  <1>1. \A v : SameAt(v)
    BY SameTables DEF Look, StartCycle, signalVars, demandVars, ruleVars
  <1> QED
    BY <1>1, StillStep DEF Look, StartCycle, Inv

\* Repositories and signals are no rules, so that only List adds to them.
LEMMA Shrinking ==
  ASSUME Inv, AheadInv, [Next]_vars
  PROVE  Shrinks \/ \E h \in Handlers : List(h) /\ UNCHANGED <<signalVars, demandVars>>
  <1>1. CASE UNCHANGED cycleVars
    BY <1>1 DEF Shrinks, cycleVars
  <1>2. ASSUME NEW h \in Handlers, CycleStep(h)
        PROVE  Shrinks
    <2>1. CASE Leave(h)
      BY <2>1 DEF Leave, Shrinks, AheadInv
    <2>2. CASE StartCycle(h)
      BY <2>2, Kinds, GovernanceAssumption DEF StartCycle, Changing, Shrinks, AheadInv
    <2>3. CASE Ingest(h)
      <3>1. handler[h].work \notin Rules
        BY <2>3, Kinds DEF Ingest, Inv, HandlersInv, HandlerOK, ScanPcs
      <3> QED
        BY <2>3, <3>1 DEF Ingest, Shrinks, AheadInv
    <2>4. CASE \/ \E r \in Repos : Fetch(h, r)
               \/ \E s \in Signals : Load(h, s)
               \/ \E r \in Rules : Tick(h, r)
      BY <2>4 DEF Fetch, Load, Tick, Shrinks, AheadInv
    <2> QED
      BY <1>2, <2>1, <2>2, <2>3, <2>4 DEF CycleStep
  <1> QED
    BY <1>1, <1>2, CycleSteps

LEMMA NextClaims ==
  ASSUME Inv, AheadInv, Claims, [Next]_vars
  PROVE  Claims'
  <1>1. CASE \E h \in Handlers : List(h) /\ UNCHANGED <<signalVars, demandVars>>
    BY <1>1, ListClaims
  <1>2. CASE Shrinks
    <2>1. CASE World
      BY <1>2, <2>1, WorldClaims
    <2>2. ASSUME NEW h \in Handlers, Proceed(h) \/ Look(h) \/ Request(h)
          PROVE  Claims'
      BY <1>2, <2>2, ProceedClaims, LookClaims, RequestClaims
    <2>3. CASE UNCHANGED vars
      <3> USE DEF vars, gateVars, signalVars, demandVars, ruleVars
      <3>1. \A v : SameAt(v)
        BY <2>3, SameTables
      <3> QED
        BY <1>2, <2>3, <3>1, StillStep DEF Inv
    <2> QED
      BY <2>1, <2>2, <2>3 DEF Next
  <1> QED
    BY <1>1, <1>2, Shrinking

\* What is claimed about works and handlers is true of every reachable state.
THEOREM ClaimsHold == Spec => []Claims
  <1>1. Init => Claims
    BY InitClaims
  <1>2. Inv /\ AheadInv /\ Claims /\ [Next]_vars => Claims'
    BY NextClaims
  <1> QED
    BY <1>1, <1>2, Invariance, AheadInvariance, PTL DEF Spec

\* A signal or a demand has one mission, and a rule one per interval, unless two handlers
\* were at it at once, or a handler died at a demand or a rule (already-done-gate.ts,
\* domain-signal-service.ts, demand.service.ts, mission-scheduler.ts).
THEOREM OneMissionEach == Spec => []OneMissionPerWork
  <1>1. Claims => OneMissionPerWork
    BY DEF Claims, Settled, Exempt, OneMissionPerWork
  <1> QED
    BY <1>1, ClaimsHold, PTL

\* A signal is converted to the mission of its decision (domain-signal-service.ts).
THEOREM ConvertedToItsDecision == Spec => []ConvertedAsDecided
  <1>1. Claims => ConvertedAsDecided
    BY Kinds DEF Claims, Settled, Exempt, DecidedFor, ConvertedAsDecided
  <1> QED
    BY <1>1, ClaimsHold, PTL

-----------------------------------------------------------------------------
(* Cycles that end with an error *)

\* h goes on with its work and leaves its cycle alone, or takes up a work that is no
\* webhook's, or is idle, or is in no cycle.
Proceeds(h) ==
  \/ /\ handler[h].pc # "idle" /\ handler'[h].work = handler[h].work
     /\ ahead'[h] = ahead[h]
  \/ handler'[h].work \notin Signals \ Scans
  \/ handler'[h].pc = "idle"
  \/ ahead'[h] = {}

\* A handler that moves leaves the others alone.
LEMMA MoverProceeds ==
  ASSUME NEW h \in Handlers, NEW c, Inv, Moved(h, c),
         \A q \in Handlers \ {h} : UNCHANGED ahead[q],
         \/ handler[h].pc # "idle" /\ c.work = handler[h].work /\ UNCHANGED ahead[h]
         \/ c.work \notin Signals \ Scans \/ c.pc = "idle" \/ ahead'[h] = {}
  PROVE  \A q \in Handlers : Proceeds(q) \/ UNCHANGED <<handler[q], ahead[q]>>
  BY MovedTo DEF Inv, Proceeds

\* So does one that is done with its work, or with its cycle ...
LEMMA IdleProceeds ==
  ASSUME NEW h \in Handlers, Inv, AheadInv,
         \/ Return(h) /\ UNCHANGED cycleVars
         \/ Return(h) /\ Ingest(h)
         \/ Leave(h)
  PROVE  \A q \in Handlers : Proceeds(q) \/ UNCHANGED <<handler[q], ahead[q]>>
  <1>1. Moved(h, Idle) /\ Idle.pc = "idle"
    BY ReturnMoves DEF Leave, Idle
  <1>2. \A q \in Handlers \ {h} : UNCHANGED ahead[q]
    BY DEF Leave, Ingest, cycleVars, AheadInv
  <1> QED
    BY <1>1, <1>2, MoverProceeds

\* ... and one that goes on to its next statement.
LEMMA GoesOnProceeds ==
  ASSUME NEW h \in Handlers, NEW pc \in AllPcs, Inv, GoTo(h, pc), handler[h].pc # "idle",
         UNCHANGED cycleVars
  PROVE  \A q \in Handlers : Proceeds(q) \/ UNCHANGED <<handler[q], ahead[q]>>
  <1>1. PICK c \in Handling : Moved(h, c) /\ c.work = handler[h].work
    BY GoToMoves DEF Inv
  <1> QED
    BY <1>1, MoverProceeds DEF cycleVars

\* One lemma for each group of actions.
LEMMA GateProceeds ==
  ASSUME NEW h \in Handlers, Inv, GateStep(h)
  PROVE  \A q \in Handlers : Proceeds(q) \/ UNCHANGED <<handler[q], ahead[q]>>
  <1>0. handler \in [Handlers -> Handling] /\ UNCHANGED cycleVars /\ handler[h].pc # "idle"
    BY DEF Inv, HandlersInv, GateStep, Admit, Skip, FindOpen, Create, Bind
  <1>1. ASSUME NEW pc, NEW m, handler' = [handler EXCEPT ![h].mission = m, ![h].pc = pc]
        PROVE  handler'[h].work = handler[h].work
               /\ \A q \in Handlers \ {h} : UNCHANGED handler[q]
    BY <1>0, <1>1 DEF Handling
  <1>2. handler'[h].work = handler[h].work /\ \A q \in Handlers \ {h} : UNCHANGED handler[q]
    <2>1. CASE Admit(h)
      BY <1>0, <2>1 DEF Admit, Obey, Handling
    <2>2. CASE Skip(h)
      BY <1>0, <2>2 DEF Skip, Obey, Handling
    <2>3. CASE FindOpen(h)
      BY <1>0, <1>1, <2>3 DEF FindOpen, Enqueued, Handling
    <2>4. CASE Create(h)
      BY <1>0, <1>1, <2>4 DEF Create, Enqueued
    <2>5. CASE Bind(h)
      BY <1>0, <2>5 DEF Bind, GoTo, Handling
    <2> QED
      BY <2>1, <2>2, <2>3, <2>4, <2>5 DEF GateStep
  <1> QED
    BY <1>0, <1>2 DEF Proceeds, cycleVars

LEMMA SignalProceeds ==
  ASSUME NEW h \in Handlers, Inv, AheadInv, SignalStep(h)
  PROVE  \A q \in Handlers : Proceeds(q) \/ UNCHANGED <<handler[q], ahead[q]>>
  <1>0. handler \in [Handlers -> Handling] /\ ahead \in [Handlers -> SUBSET (Repos \cup Scans \cup Rules)]
    BY DEF Inv, HandlersInv, AheadInv
  <1>1. ASSUME NEW r \in Repos, Fetch(h, r)
        PROVE  \A q \in Handlers : Proceeds(q) \/ UNCHANGED <<handler[q], ahead[q]>>
    <2>1. head[r] \in Scans \cup {NoWork}
      BY DEF Inv, SignalInv
    <2>2. PICK c : Moved(h, c) /\ (c = Idle \/ \E pc \in AllPcs : c = At(pc, head[r]) /\ head[r] \in Scans)
      BY <1>1, <2>1 DEF Fetch, Moved, AllPcs, ScanPcs
    <2>3. c.pc = "idle" \/ c.work \notin Signals \ Scans
      BY <2>2, AtIsThere, Kinds DEF Idle
    <2> QED
      BY <1>0, <1>1, <2>2, <2>3, MoverProceeds DEF Fetch
  <1>2. ASSUME NEW s \in Signals, Load(h, s)
        PROVE  \A q \in Handlers : Proceeds(q) \/ UNCHANGED <<handler[q], ahead[q]>>
    <2>1. s \in Scans
      BY <1>0, <1>2, Kinds, GovernanceAssumption DEF Load
    <2>2. CASE UNCHANGED handler
      BY <1>0, <1>2, <2>2 DEF Load, Proceeds
    <2>3. CASE Begin(h, At("judge", s))
      BY <1>0, <1>2, <2>1, <2>3, AtIsThere, BeginMoves, Kinds, MoverProceeds
      DEF Load, AllPcs, SignalPcs
    <2> QED
      BY <1>2, <2>2, <2>3 DEF Load
  <1>3. CASE Ingest(h)
    BY <1>3, IdleProceeds DEF Ingest
  <1>4. CASE Store(h) \/ Evaluate(h) \/ MarkConverted(h)
    BY <1>4, IdleProceeds, GoesOnProceeds
    DEF Store, Evaluate, MarkConverted, AllPcs, GatePcs, ScanPcs
  <1>5. CASE Judge(h)
    <2>1. CASE Throw(h)
      BY <2>1, IdleProceeds DEF Throw
    <2>2. CASE ~Throw(h)
      <3> DEFINE c == [handler[h] EXCEPT !.pc = "evaluate", !.verdict = Decision(handler[h].work)]
      <3>1. Moved(h, c) /\ c.work = handler[h].work
        BY <1>0, <1>5, <2>2 DEF Judge, Moved, Handling
      <3> QED
        BY <1>5, <2>2, <3>1, MoverProceeds DEF Judge, cycleVars
    <2> QED
      BY <2>1, <2>2
  <1>6. CASE MayConvert(h)
    BY <1>6, IdleProceeds, GoesOnProceeds DEF MayConvert, Throw, AllPcs, SignalPcs
  <1> QED
    BY <1>1, <1>2, <1>3, <1>4, <1>5, <1>6 DEF SignalStep

LEMMA DemandProceeds ==
  ASSUME NEW h \in Handlers, Inv, AheadInv, DemandStep(h)
  PROVE  \A q \in Handlers : Proceeds(q) \/ UNCHANGED <<handler[q], ahead[q]>>
  <1>1. CASE Plan(h) \/ Ask(h) \/ Decide(h)
    BY <1>1, IdleProceeds, GoesOnProceeds DEF Plan, Ask, Decide, AllPcs, DemandPcs
  <1>2. CASE Apply(h) \/ Link(h) \/ Close(h)
    BY <1>2, IdleProceeds DEF Apply, Link, Close
  <1> QED
    BY <1>1, <1>2 DEF DemandStep

LEMMA RuleProceeds ==
  ASSUME NEW h \in Handlers, Inv, AheadInv, RuleStep(h)
  PROVE  \A q \in Handlers : Proceeds(q) \/ UNCHANGED <<handler[q], ahead[q]>>
  <1>1. CASE List(h)
    BY <1>1 DEF List, Proceeds, AheadInv
  <1>2. ASSUME NEW r \in Rules, Tick(h, r)
        PROVE  \A q \in Handlers : Proceeds(q) \/ UNCHANGED <<handler[q], ahead[q]>>
    <2>1. Moved(h, At("find", r)) /\ At("find", r).work \notin Signals
      BY <1>2, AtIsThere, Kinds DEF Tick, Moved, AllPcs, GatePcs
    <2> QED
      BY <1>2, <2>1, MoverProceeds DEF Tick, AheadInv
  <1>3. CASE MarkEnqueued(h)
    BY <1>3, IdleProceeds DEF MarkEnqueued
  <1> QED
    BY <1>1, <1>2, <1>3 DEF RuleStep

LEMMA RequestProceeds ==
  ASSUME NEW h \in Handlers, Inv, AheadInv, Look(h) \/ Request(h)
  PROVE  \A q \in Handlers : Proceeds(q) \/ UNCHANGED <<handler[q], ahead[q]>>
  <1>1. CASE Look(h)
    BY <1>1 DEF Look, StartCycle, Free, Proceeds, AheadInv
  <1>2. ASSUME NEW s \in Signals, Deliver(h, s)
        PROVE  \A q \in Handlers : Proceeds(q) \/ UNCHANGED <<handler[q], ahead[q]>>
    BY <1>2, BeginMoves, MoverProceeds DEF Deliver, Free, cycleVars
  <1>3. ASSUME NEW d \in Demands,
               \/ Interpret(h, d) \/ Execute(h, d) \/ Reconcile(h, d)
               \/ \E v \in DOMAIN DemandStatusOf : Resolve(h, d, v)
        PROVE  \A q \in Handlers : Proceeds(q) \/ UNCHANGED <<handler[q], ahead[q]>>
    <2>1. UNCHANGED cycleVars /\ Free(h)
      BY <1>3 DEF Interpret, Execute, Reconcile, Resolve
    <2>2. \E c : Moved(h, c)
      BY <1>3, BeginMoves DEF Interpret, Execute, Reconcile, Resolve, Moved
    <2> QED
      BY <2>1, <2>2, MoverProceeds DEF Free, cycleVars
  <1> QED
    BY <1>1, <1>2, <1>3 DEF Request

LEMMA WorldProceeds ==
  ASSUME Inv, AheadInv, World
  PROVE  \A q \in Handlers : Proceeds(q) \/ UNCHANGED <<handler[q], ahead[q]>>
  <1>1. ASSUME NEW h \in Handlers, Die(h) \/ Catch(h)
        PROVE  \A q \in Handlers : Proceeds(q) \/ UNCHANGED <<handler[q], ahead[q]>>
    BY <1>1, IdleProceeds DEF Die, Catch
  <1>2. CASE ~\E h \in Handlers : Die(h) \/ Catch(h)
    BY <1>2 DEF World, Finish, Push, Elapse, cycleVars
  <1> QED
    BY <1>1, <1>2

\* Every step of the specification moves one handler at most.
LEMMA EverybodyProceeds ==
  ASSUME Inv, AheadInv, [Next]_vars
  PROVE  \A q \in Handlers : Proceeds(q) \/ UNCHANGED <<handler[q], ahead[q]>>
  <1>1. ASSUME NEW h \in Handlers, Proceed(h)
        PROVE  \A q \in Handlers : Proceeds(q) \/ UNCHANGED <<handler[q], ahead[q]>>
    BY <1>1, GateProceeds, SignalProceeds, DemandProceeds, RuleProceeds DEF Proceed
  <1>2. CASE UNCHANGED vars
    BY <1>2 DEF vars, gateVars, cycleVars
  <1> QED
    BY <1>1, <1>2, RequestProceeds, WorldProceeds DEF Next

\* Whoever is at a webhook's signal is in no cycle, and strands nothing.
Alone ==
  \A h \in Handlers :
    handler[h].pc # "idle" /\ handler[h].work \in Signals \ Scans => ahead[h] = {}

\* A webhook is handled by a request, a scan's signal by a cycle (github-webhook-pipeline.ts,
\* signal-decision-engine.ts).
THEOREM WebhooksAreAlone == Spec => []Alone
  <1>1. Init => Alone
    BY DEF Init, GovernanceInit, Alone
  <1>2. Inv /\ AheadInv /\ Alone /\ [Next]_vars => Alone'
    BY EverybodyProceeds DEF Alone, Proceeds
  <1> QED
    BY <1>1, <1>2, Invariance, AheadInvariance, PTL DEF Spec

\* Only a transition that is refused strands signals.
LEMMA OnlyThrowStrands ==
  ASSUME [Next]_vars
  PROVE  \/ UNCHANGED stranded
         \/ \E h \in Handlers : (Judge(h) \/ MayConvert(h)) /\ Throw(h)
  <1>1. CASE World
    BY <1>1 DEF World, Push, signalVars
  <1>2. ASSUME NEW h \in Handlers, Proceed(h)
        PROVE  UNCHANGED stranded \/ ((Judge(h) \/ MayConvert(h)) /\ Throw(h))
    <2>1. CASE SignalStep(h)
      BY <2>1 DEF SignalStep, Fetch, Load, Ingest, Store, Judge, Evaluate, MayConvert, MarkConverted, signalVars
    <2> QED
      BY <1>2, <2>1 DEF Proceed, signalVars
  <1>3. ASSUME NEW h \in Handlers, Look(h) \/ Request(h)
        PROVE  UNCHANGED stranded
    BY <1>3 DEF Look, Request, StartCycle, Deliver, signalVars
  <1>4. CASE UNCHANGED vars
    BY <1>4 DEF vars, signalVars
  <1> QED
    BY <1>1, <1>2, <1>3, <1>4 DEF Next

\* The history of races only grows.
LEMMA CrossedGrows ==
  ASSUME [Next]_vars
  PROVE  crossed \subseteq crossed'
  <1>1. CASE World
    BY <1>1 DEF World, Finish, Die, Catch, Push, Elapse, Leave, Return
  <1>2. ASSUME NEW h \in Handlers, Proceed(h)
        PROVE  crossed \subseteq crossed'
    <2>1. CASE GateStep(h)
      BY <2>1 DEF GateStep, Admit, Skip, FindOpen, Create, Bind, GoTo
    <2>2. CASE SignalStep(h)
      BY <2>2 DEF SignalStep, Fetch, Load, Ingest, Store, Judge, Evaluate, MayConvert, MarkConverted,
                  Begin, GoTo, Return, Throw, Leave
    <2>3. CASE DemandStep(h)
      BY <2>3 DEF DemandStep, Plan, Ask, Decide, Apply, Link, Close, GoTo, Return
    <2>4. CASE RuleStep(h)
      BY <2>4 DEF RuleStep, List, Tick, MarkEnqueued, Return
    <2> QED
      BY <1>2, <2>1, <2>2, <2>3, <2>4 DEF Proceed
  <1>3. ASSUME NEW h \in Handlers, Look(h) \/ Request(h)
        PROVE  crossed \subseteq crossed'
    BY <1>3 DEF Look, Request, StartCycle, Deliver, Interpret, Execute, Reconcile, Resolve, Begin
  <1>4. CASE UNCHANGED vars
    BY <1>4 DEF vars, gateVars
  <1> QED
    BY <1>1, <1>2, <1>3, <1>4 DEF Next

\* The error of a signal leaves others DETECTED for good only if two supervisors were at
\* that signal at once: a scan finds its signals by itself, so one supervisor meets
\* each in a status that its transitions allow (signal-decision-engine.ts,
\* supervisor-loop.ts).
THEOREM StrandedByRaces == Spec => []OnlyRacesStrand
  <1>1. Init => OnlyRacesStrand
    BY DEF Init, SignalInit, OnlyRacesStrand
  <1>2. Inv /\ Claims /\ Alone /\ OnlyRacesStrand /\ [Next]_vars => OnlyRacesStrand'
    <2> SUFFICES ASSUME Inv, Claims, Alone, OnlyRacesStrand, [Next]_vars, stranded' # stranded
                 PROVE  crossed' \cap Scans # {}
      BY CrossedGrows DEF OnlyRacesStrand
    <2>1. PICK h \in Handlers : (Judge(h) \/ MayConvert(h)) /\ Throw(h)
      BY OnlyThrowStrands
    <2>2. PICK s : s = handler[h].work
      OBVIOUS
    <2>3. s \in Signals /\ handler[h].pc \in {"judge", "settle"} /\ Holder(handler[h])
      BY <2>1, <2>2 DEF Judge, MayConvert, Inv, HandlersInv, HandlerOK, SignalPcs, Claims
    <2>4. s \in Scans
      BY <2>1, <2>2, <2>3 DEF Throw, Alone
    <2>5. s \in crossed
      <3>1. CASE Judge(h)
        <4>1. signal[s].status # "DETECTED" /\ handler[h].pc = "judge"
          BY <2>1, <2>2, <3>1 DEF Judge
        <4> QED
          BY <2>2, <2>3, <4>1 DEF Holder, Exempt
      <3>2. CASE MayConvert(h)
        <4>1. ~Sentenced(s) /\ handler[h].pc = "settle"
          BY <2>1, <2>2, <3>2 DEF MayConvert, Sentenced
        <4> QED
          BY <2>2, <2>3, <4>1 DEF Holder, Exempt, GatePcs
      <3> QED
        BY <2>1, <3>1, <3>2
    <2> QED
      BY <2>4, <2>5, CrossedGrows
  <1> QED
    BY <1>1, <1>2, Invariance, ClaimsHold, WebhooksAreAlone, PTL DEF Spec

=============================================================================
