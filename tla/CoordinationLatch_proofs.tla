---------------------- MODULE CoordinationLatch_proofs ----------------------
(***************************************************************************)
(* Theorems about CoordinationLatch, for any number of supervisors, any    *)
(* contexts, and any number of crashes and failures.                       *)
(***************************************************************************)
EXTENDS CoordinationLatch, TLAPS

-----------------------------------------------------------------------------
(* The constants *)

LEMMA ContextsOK ==
  /\ Exhausted \subseteq Keys /\ Start \subseteq Keys /\ NoKey \notin Keys
  /\ \A S \in Scopes : S \subseteq Keys
  /\ EventBound \in Nat
  BY LatchAssumption DEF LatchAssumption

LEMMA ObjectivesOK ==
  ASSUME NEW k \in Keys, NEW o \in Objectives[k]
  PROVE  o \in Nat
  <1>1. Objectives[k] \in SUBSET Nat
    BY LatchAssumption DEF LatchAssumption
  <1> QED
    BY <1>1

-----------------------------------------------------------------------------
(* What a step may do to the two halves of the state. *)

\* The entry of a cycle that satisfies what CyclesOK asks.
Sound(c) ==
  /\ c \in Cycle
  /\ c.pc \in {"reclaim"} \cup HolderPcs => c.key \in c.requests
  /\ c.gone # {} => c.pc = "drop"

\* Only d's entry changes; no list of ids grows but perhaps d's.
LEMMA EntryStep ==
  ASSUME TypeOK, NEW d \in Dispatchers, NEW c, Sound(c),
         cycle' = [cycle EXCEPT ![d] = c]
  PROVE  /\ CyclesOK'
         /\ cycle'[d] = c
         /\ \A q \in Dispatchers \ {d} : cycle'[q] = cycle[q]
  BY DEF TypeOK, CyclesOK, Sound

LEMMA CycleSound == ASSUME TypeOK, NEW d \in Dispatchers PROVE Sound(cycle[d])
  BY DEF TypeOK, CyclesOK, Sound

LEMMA RestSound == Sound(Rest) /\ Rest.gone = {} /\ Rest.pc = "idle"
  BY DEF Rest, Sound, Cycle, Pcs, HolderPcs

LEMMA GoOnSound ==
  ASSUME TypeOK, NEW d \in Dispatchers
  PROVE  Sound(GoOn(d)) /\ GoOn(d).gone = {} /\ GoOn(d).pc \in {"idle", "next"}
  <1>1. Sound(cycle[d])
    BY CycleSound
  <1>2. CASE cycle[d].requests = {}
    BY <1>2, RestSound DEF GoOn
  <1>3. CASE cycle[d].requests # {}
    BY <1>1, <1>3 DEF GoOn, Sound, Cycle, Pcs, HolderPcs
  <1> QED
    BY <1>2, <1>3

\* What Skip leaves to d.
SkipTo(d, k) ==
  LET left == cycle[d].requests \ {k} IN
  IF left = {} THEN Rest ELSE [Rest EXCEPT !.pc = "next", !.requests = left]

LEMMA SkipSound ==
  ASSUME TypeOK, NEW d \in Dispatchers, NEW k \in Keys
  PROVE  /\ Skip(d, k) = [cycle EXCEPT ![d] = SkipTo(d, k)]
         /\ Sound(SkipTo(d, k)) /\ SkipTo(d, k).gone = {} /\ SkipTo(d, k).pc \in {"idle", "next"}
  <1>1. Skip(d, k) = [cycle EXCEPT ![d] = SkipTo(d, k)]
    BY DEF Skip, SkipTo
  <1>2. cycle[d].requests \ {k} \subseteq Keys
    BY CycleSound DEF Sound, Cycle
  <1>3. CASE cycle[d].requests \ {k} = {}
    BY <1>1, <1>3, RestSound DEF SkipTo
  <1>4. CASE cycle[d].requests \ {k} # {}
    BY <1>1, <1>2, <1>4 DEF SkipTo, Rest, Sound, Cycle, Pcs, HolderPcs
  <1> QED
    BY <1>3, <1>4

\* d's entry with another pc, for a supervisor that has a request at hand or not.
LEMMA GotoSound ==
  ASSUME TypeOK, NEW d \in Dispatchers, NEW p \in Pcs \ {"drop"}, cycle[d].gone = {},
         p \in {"reclaim"} \cup HolderPcs => cycle[d].key \in cycle[d].requests
  PROVE  /\ Sound([cycle[d] EXCEPT !.pc = p])
         /\ [cycle[d] EXCEPT !.pc = p].gone = {}
         /\ [cycle EXCEPT ![d].pc = p] = [cycle EXCEPT ![d] = [cycle[d] EXCEPT !.pc = p]]
  BY CycleSound DEF Sound, Cycle, TypeOK, CyclesOK

LEMMA RequestSound ==
  ASSUME TypeOK, NEW d \in Dispatchers, NEW k \in cycle[d].requests,
         NEW p \in {"reclaim"} \cup HolderPcs, cycle[d].gone = {}
  PROVE  /\ k \in Keys
         /\ Sound([cycle[d] EXCEPT !.pc = p, !.key = k])
         /\ [cycle[d] EXCEPT !.pc = p, !.key = k].gone = {}
         /\ [cycle EXCEPT ![d].pc = p, ![d].key = k] =
              [cycle EXCEPT ![d] = [cycle[d] EXCEPT !.pc = p, !.key = k]]
  BY CycleSound DEF Sound, Cycle, TypeOK, CyclesOK, Pcs, HolderPcs

\* The entries of a supervisor that acquires a latch, and of one that reclaims it.
Acquired(d, k, o) == [cycle[d] EXCEPT !.pc = "lookup", !.key = k, !.asked = o]
Reclaimed(d, n, o) == [cycle[d] EXCEPT !.pc = "search", !.since = n, !.asked = o]

LEMMA AcquiredSound ==
  ASSUME TypeOK, NEW d \in Dispatchers, NEW k \in cycle[d].requests, NEW o \in Nat,
         cycle[d].gone = {}
  PROVE  /\ k \in Keys
         /\ Sound(Acquired(d, k, o)) /\ Acquired(d, k, o).gone = {}
         /\ Acquired(d, k, o).pc = "lookup" /\ Acquired(d, k, o).key = k
         /\ Acquired(d, k, o).asked = o
  BY CycleSound DEF Acquired, Sound, Cycle, TypeOK, CyclesOK, Pcs, HolderPcs

LEMMA ReclaimedSound ==
  ASSUME TypeOK, NEW d \in Dispatchers, NEW n \in Nat, NEW o \in Nat, cycle[d].pc = "reclaim"
  PROVE  /\ Sound(Reclaimed(d, n, o)) /\ Reclaimed(d, n, o).gone = {}
         /\ Reclaimed(d, n, o).pc = "search" /\ Reclaimed(d, n, o).key = cycle[d].key
         /\ Reclaimed(d, n, o).since = n /\ Reclaimed(d, n, o).asked = o
  BY CycleSound DEF Reclaimed, Sound, Cycle, TypeOK, CyclesOK, Pcs, HolderPcs

\* A step of d that deletes no row and leaves d without a list of ids.
LEMMA TypeByParts ==
  ASSUME TypeOK, NEW d \in Dispatchers, NEW c, Sound(c), c.gone = {},
         cycle' = [cycle EXCEPT ![d] = c],
         TablesOK',
         \A k \in Keys : latch[k].status # "NONE" => latch'[k].status # "NONE",
         UNCHANGED <<visible, events, scope>>, contended' \subseteq Keys
  PROVE  TypeOK'
  <1>1. CyclesOK' /\ cycle'[d] = c /\ \A q \in Dispatchers \ {d} : cycle'[q] = cycle[q]
    BY EntryStep
  <1>2. ASSUME NEW q \in Dispatchers, NEW k \in cycle'[q].gone
        PROVE  latch'[k].status # "NONE"
    <2>1. q # d /\ k \in cycle[q].gone /\ k \in Keys
      BY <1>1, <1>2, CycleSound DEF Sound, Cycle
    <2> QED
      BY <2>1 DEF TypeOK
  <1> QED
    BY <1>1, <1>2 DEF TypeOK

\* One row changes, but not the missions.
LEMMA RowChange ==
  ASSUME TypeOK, NEW k \in Keys, NEW row \in Row, row.since = latch[k].since,
         latch' = [latch EXCEPT ![k] = row], UNCHANGED missions
  PROVE  TablesOK'
  <1>1. latch' \in [Keys -> Row] /\ missions' \in [Keys -> Seq(Mission)]
    BY DEF TypeOK, TablesOK
  <1>2. ASSUME NEW x \in Keys
        PROVE  latch'[x].since = latch[x].since
    BY DEF TypeOK, TablesOK
  <1> QED
    BY <1>1, <1>2 DEF TypeOK, TablesOK

\* The missions of one context change, but not the rows.
LEMMA MissionsChange ==
  ASSUME TypeOK, NEW k \in Keys, NEW ms \in Seq(Mission), Len(ms) >= Len(missions[k]),
         missions' = [missions EXCEPT ![k] = ms], UNCHANGED latch
  PROVE  TablesOK'
  <1>1. latch' \in [Keys -> Row] /\ missions' \in [Keys -> Seq(Mission)]
    BY DEF TypeOK, TablesOK
  <1>2. ASSUME NEW x \in Keys
        PROVE  latch'[x].since <= Len(missions'[x])
    <2>1. latch[x] \in Row /\ latch[x].since <= Len(missions[x]) /\ missions[x] \in Seq(Mission)
      BY DEF TypeOK, TablesOK
    <2>2. latch[x].since \in Nat /\ Len(missions[x]) \in Nat /\ Len(ms) \in Nat
      BY <2>1 DEF Row
    <2>3. missions'[x] = IF x = k THEN ms ELSE missions[x]
      BY DEF TypeOK, TablesOK
    <2> QED
      BY <2>1, <2>2, <2>3
  <1> QED
    BY <1>1, <1>2 DEF TablesOK

-----------------------------------------------------------------------------
(* Types *)

LEMMA TypeInit == Init => TypeOK
  <1> SUFFICES ASSUME Init PROVE TypeOK
    OBVIOUS
  <1> USE ContextsOK DEF Init
  <1>1. TablesOK
    <2>1. <<>> \in Seq(Mission) /\ Len(<<>>) = 0
      OBVIOUS
    <2>2. NoRow \in Row
      BY DEF NoRow, Row
    <2> QED
      BY <2>1, <2>2 DEF TablesOK, NoRow
  <1>2. CyclesOK
    BY RestSound DEF CyclesOK, Sound
  <1> QED
    BY <1>1, <1>2, RestSound DEF TypeOK

\* The deletion of rows by d.
LEMMA DeleteType ==
  ASSUME TypeOK, NEW d \in Dispatchers, NEW S \in SUBSET Keys, NEW after,
         Sound(after), after.gone = {}, DeleteRows(d, S, after), UNCHANGED missions
  PROVE  /\ TablesOK' /\ CyclesOK'
         /\ \A q \in Dispatchers : \A k \in cycle'[q].gone : latch'[k].status # "NONE"
         /\ cycle'[d] = after
         /\ \A q \in Dispatchers \ {d} :
              cycle'[q] = [cycle[q] EXCEPT !.gone = cycle[q].gone \ S]
  <1> USE DEF DeleteRows
  <1>1. TablesOK'
    <2>1. NoRow \in Row
      BY DEF NoRow, Row
    <2>2. latch' \in [Keys -> Row]
      BY <2>1 DEF TypeOK, TablesOK
    <2>3. ASSUME NEW k \in Keys
          PROVE  latch'[k].since <= Len(missions'[k])
      BY DEF TypeOK, TablesOK, NoRow
    <2> QED
      BY <2>2, <2>3 DEF TypeOK, TablesOK
  <1>2. cycle'[d] = after
    OBVIOUS
  <1>3. ASSUME NEW q \in Dispatchers, q # d
        PROVE  /\ cycle'[q] = [cycle[q] EXCEPT !.gone = cycle[q].gone \ S]
               /\ Sound(cycle'[q])
               /\ cycle'[q].gone = cycle[q].gone \ S
    <2>1. cycle'[q] = [cycle[q] EXCEPT !.gone = cycle[q].gone \ S]
      BY <1>3
    <2>2. Sound(cycle[q])
      BY CycleSound
    <2> QED
      BY <2>1, <2>2 DEF Sound, Cycle
  <1>4. CyclesOK'
    BY <1>2, <1>3 DEF CyclesOK, Sound
  <1>5. ASSUME NEW q \in Dispatchers, NEW k \in cycle'[q].gone
        PROVE  latch'[k].status # "NONE"
    <2>1. q # d /\ k \in cycle[q].gone /\ k \notin S
      BY <1>2, <1>3, <1>5
    <2>2. k \in Keys
      BY <2>1, CycleSound DEF Sound, Cycle
    <2> QED
      BY <2>1, <2>2 DEF TypeOK
  <1> QED
    BY <1>1, <1>2, <1>3, <1>4, <1>5

LEMMA TypeStep == TypeOK /\ [Next]_vars => TypeOK'
  <1> SUFFICES ASSUME TypeOK, [Next]_vars PROVE TypeOK'
    OBVIOUS
  <1> USE ContextsOK
  <1>1. ASSUME NEW k \in Keys, Appear(k) \/ Vanish(k)
        PROVE  TypeOK'
    BY <1>1 DEF TypeOK, TablesOK, CyclesOK, Appear, Vanish, Event
  <1>2. ASSUME NEW k \in Keys, Lapse(k)
        PROVE  TypeOK'
    <2>1. TablesOK'
      <3> DEFINE row == [latch[k] EXCEPT !.old = TRUE]
      <3>1. latch[k] \in Row /\ UNCHANGED missions
        BY <1>2 DEF TypeOK, TablesOK, Lapse
      <3>2. row \in Row /\ row.since = latch[k].since
        BY <3>1 DEF Row
      <3>3. latch' = [latch EXCEPT ![k] = row]
        BY <1>2 DEF Lapse
      <3> HIDE DEF row
      <3> QED
        BY <3>1, <3>2, <3>3, RowChange
    <2> QED
      BY <1>2, <2>1 DEF TypeOK, TablesOK, Row, CyclesOK, Lapse, Contend
  <1>3. ASSUME NEW k \in Keys, NEW i \in DOMAIN missions[k], Settle(k, i)
        PROVE  TypeOK'
    <2>1. missions[k] \in Seq(Mission) /\ missions[k][i] \in Mission
      BY DEF TypeOK, TablesOK
    <2> DEFINE m == [missions[k][i] EXCEPT !.open = FALSE]
    <2>2. m \in Mission
      BY <2>1 DEF Mission
    <2>3. missions' = [missions EXCEPT ![k] = [missions[k] EXCEPT ![i] = m]]
      BY <1>3 DEF Settle, TypeOK, TablesOK
    <2> HIDE DEF m
    <2>4. /\ [missions[k] EXCEPT ![i] = m] \in Seq(Mission)
          /\ Len([missions[k] EXCEPT ![i] = m]) = Len(missions[k])
      BY <2>1, <2>2
    <2> DEFINE ms == [missions[k] EXCEPT ![i] = m]
    <2> HIDE DEF ms
    <2>5. TablesOK'
      <3>1. ms \in Seq(Mission) /\ Len(ms) = Len(missions[k]) /\ missions' = [missions EXCEPT ![k] = ms]
        BY <2>3, <2>4 DEF ms
      <3>2. Len(ms) >= Len(missions[k]) /\ UNCHANGED latch
        BY <1>3, <2>1, <3>1 DEF Settle
      <3> QED
        BY <3>1, <3>2, MissionsChange
    <2> QED
      BY <1>3, <2>5 DEF TypeOK, CyclesOK, Settle
  <1>4. ASSUME NEW d \in Dispatchers, Scan(d)
        PROVE  TypeOK'
    <2> DEFINE c == [Rest EXCEPT !.pc = "find",
                                 !.requests = {k \in visible : ~(k \in Exhausted /\ Consumed(k))},
                                 !.keep = visible \cap Exhausted]
    <2>1. Sound(c) /\ c.gone = {}
      BY DEF TypeOK, Rest, Sound, Cycle, Pcs, HolderPcs
    <2>2. CyclesOK' /\ cycle'[d] = c /\ \A q \in Dispatchers \ {d} : cycle'[q] = cycle[q]
      <3>1. cycle' = [cycle EXCEPT ![d] = c]
        BY <1>4 DEF Scan
      <3> QED
        BY <2>1, <3>1, EntryStep
    <2> QED
      BY <1>4, <2>1, <2>2 DEF TypeOK, TablesOK, Scan
  <1>5. ASSUME NEW d \in Dispatchers, FindQuietly(d) \/ FindWithOpen(d) \/ FindWithoutOpen(d)
        PROVE  TypeOK'
    <2>1. PICK open : FindAbsent(d, open) /\ events' \in 0..EventBound /\ UNCHANGED scope
      BY <1>5 DEF FindQuietly, FindWithOpen, FindWithoutOpen, Event, TypeOK
    <2> DEFINE S == Releasable(cycle[d].requests \cup cycle[d].keep \cup open)
               c == IF S = {} THEN GoOn(d)
                    ELSE [cycle[d] EXCEPT !.pc = "drop", !.keep = {}, !.gone = S]
    <2>2. S \subseteq Keys /\ \A k \in S : latch[k].status # "NONE"
      BY DEF Releasable
    <2>3. Sound(c) /\ c.gone \subseteq S
      BY <2>2, GoOnSound, CycleSound DEF Sound, Cycle, Pcs, HolderPcs
    <2>4. CyclesOK' /\ cycle'[d] = c /\ \A q \in Dispatchers \ {d} : cycle'[q] = cycle[q]
      <3>1. cycle' = [cycle EXCEPT ![d] = c]
        BY <2>1 DEF FindAbsent
      <3> QED
        BY <2>3, <3>1, EntryStep
    <2>5. UNCHANGED <<visible, latch, missions>> /\ contended' \subseteq Keys
      BY <2>1, <2>2 DEF FindAbsent, TypeOK
    <2>6. TablesOK'
      BY <2>5 DEF TypeOK, TablesOK
    <2>7. ASSUME NEW q \in Dispatchers, NEW k \in cycle'[q].gone
          PROVE  latch'[k].status # "NONE"
      BY <2>2, <2>3, <2>4, <2>5, <2>7 DEF TypeOK
    <2> QED
      BY <2>1, <2>4, <2>5, <2>6, <2>7 DEF TypeOK
  <1>6. ASSUME NEW d \in Dispatchers, DropAbsent(d)
        PROVE  TypeOK'
    <2>1. cycle[d].gone \in SUBSET Keys
      BY CycleSound DEF Sound, Cycle
    <2> QED
      BY <1>6, <2>1, GoOnSound, DeleteType DEF DropAbsent, TypeOK
  <1>7. ASSUME NEW d \in Dispatchers, NEW k \in Keys, Acquire(d, k)
        PROVE  TypeOK'
    <2>1. cycle[d].gone = {} /\ k \in cycle[d].requests
      BY <1>7 DEF Acquire, TypeOK, CyclesOK
    <2>2. UNCHANGED <<visible, missions, events, scope>>
      BY <1>7 DEF Acquire
    <2>3. CASE latch[k].status = "NONE"
      <3>0. PICK o \in Nat : cycle' = [cycle EXCEPT ![d] = Acquired(d, k, o)]
        BY <1>7, <2>3, ObjectivesOK DEF Acquire, Acquired
      <3> DEFINE c == Acquired(d, k, o)
      <3>1. Sound(c) /\ c.gone = {}
        BY <2>1, AcquiredSound
      <3>2. cycle' = [cycle EXCEPT ![d] = c]
        BY <3>0
      <3>3. latch' = [latch EXCEPT ![k] = Fresh(k)] /\ contended' \subseteq Keys
        BY <1>7, <2>3 DEF Acquire, TypeOK
      <3>4. Fresh(k) \in Row /\ Fresh(k).since = Len(missions[k]) /\ Fresh(k).status = "PENDING"
        BY DEF Fresh, Row, TypeOK, TablesOK
      <3>5. /\ TablesOK'
            /\ \A x \in Keys : latch[x].status # "NONE" => latch'[x].status # "NONE"
        BY <2>2, <3>3, <3>4 DEF TypeOK, TablesOK
      <3> HIDE DEF c
      <3> QED
        BY <2>2, <3>1, <3>2, <3>3, <3>5, TypeByParts
    <2>4. CASE latch[k].status # "NONE"
      <3>1. UNCHANGED <<latch, contended>>
        BY <1>7, <2>4 DEF Acquire
      <3>2. PICK c : Sound(c) /\ c.gone = {} /\ cycle' = [cycle EXCEPT ![d] = c]
        <4>1. CASE latch[k].status = "PENDING" /\ latch[k].old
          <5> DEFINE to == [cycle[d] EXCEPT !.pc = "reclaim", !.key = k]
          <5>1. cycle' = [cycle EXCEPT ![d].pc = "reclaim", ![d].key = k]
            BY <1>7, <2>4, <4>1 DEF Acquire
          <5>2. Sound(to) /\ to.gone = {} /\ cycle' = [cycle EXCEPT ![d] = to]
            BY <2>1, <5>1, RequestSound
          <5> QED
            BY <5>2
        <4>2. CASE ~(latch[k].status = "PENDING" /\ latch[k].old)
          <5>1. cycle' = Skip(d, k)
            BY <1>7, <2>4, <4>2 DEF Acquire
          <5>2. /\ Skip(d, k) = [cycle EXCEPT ![d] = SkipTo(d, k)]
                /\ Sound(SkipTo(d, k)) /\ SkipTo(d, k).gone = {}
            BY <2>1, SkipSound
          <5> DEFINE to == SkipTo(d, k)
          <5>3. Sound(to) /\ to.gone = {} /\ cycle' = [cycle EXCEPT ![d] = to]
            BY <5>1, <5>2
          <5> HIDE DEF to
          <5> QED
            BY <5>3
        <4> QED
          BY <4>1, <4>2
      <3>3. TablesOK' /\ contended' \subseteq Keys
        BY <2>2, <3>1 DEF TypeOK, TablesOK
      <3>4. \A x \in Keys : latch[x].status # "NONE" => latch'[x].status # "NONE"
        BY <3>1
      <3> QED
        BY <2>2, <3>2, <3>3, <3>4, TypeByParts
    <2> QED
      BY <2>3, <2>4
  <1>8. ASSUME NEW d \in Dispatchers, Reclaim(d)
        PROVE  TypeOK'
    <2> DEFINE k == cycle[d].key
    <2>0. cycle[d].pc = "reclaim"
      BY <1>8 DEF Reclaim
    <2>1. k \in Keys /\ cycle[d].pc = "reclaim" /\ latch[k] \in Row
      BY <2>0, CycleSound DEF Sound, Cycle, TypeOK, TablesOK
    <2>2a. contended' = contended \/ contended' = contended \cup {k}
      <3>1. CASE latch[k].status = "PENDING"
        <4>1. Contend(k, AimedAt(d, k))
          BY <1>8, <3>1 DEF Reclaim
        <4> QED
          BY <4>1 DEF Contend
      <3>2. CASE latch[k].status # "PENDING"
        BY <1>8, <3>2 DEF Reclaim
      <3> QED
        BY <3>1, <3>2
    <2>2. UNCHANGED <<visible, missions, events, scope>> /\ contended' \subseteq Keys
      BY <1>8, <2>1, <2>2a DEF Reclaim, TypeOK
    <2>3. TablesOK' /\ \A x \in Keys : latch'[x].status = latch[x].status
      <3>1. CASE UNCHANGED latch
        BY <2>2, <3>1 DEF TypeOK, TablesOK
      <3>2. CASE latch' = [latch EXCEPT ![k].old = FALSE]
        <4> DEFINE row == [latch[k] EXCEPT !.old = FALSE]
        <4>1. row \in Row /\ row.status = latch[k].status /\ row.since = latch[k].since
          BY <2>1 DEF Row
        <4>2. latch' = [latch EXCEPT ![k] = row]
          BY <3>2
        <4> HIDE DEF row
        <4> QED
          BY <2>1, <2>2, <4>1, <4>2 DEF TypeOK, TablesOK
      <3> QED
        BY <1>8, <3>1, <3>2 DEF Reclaim
    <2>4. PICK c : Sound(c) /\ c.gone = {} /\ cycle' = [cycle EXCEPT ![d] = c]
      <3>1. CASE latch[k].status = "PENDING"
        <4>1. latch[k].since \in Nat
          BY <2>1 DEF Row
        <4>2. PICK o \in Nat : cycle' = [cycle EXCEPT ![d] = Reclaimed(d, latch[k].since, o)]
          BY <1>8, <2>1, <3>1, ObjectivesOK DEF Reclaim, Reclaimed
        <4> QED
          <5> DEFINE to == Reclaimed(d, latch[k].since, o)
          <5>1. Sound(to) /\ to.gone = {}
            BY <2>1, <4>1, ReclaimedSound
          <5>2. cycle' = [cycle EXCEPT ![d] = to]
            BY <4>2
          <5> HIDE DEF to
          <5> QED
            BY <5>1, <5>2
      <3>2. CASE latch[k].status # "PENDING"
        <4>1. cycle' = Skip(d, k)
          BY <1>8, <3>2 DEF Reclaim
        <4>2. /\ Skip(d, k) = [cycle EXCEPT ![d] = SkipTo(d, k)]
              /\ Sound(SkipTo(d, k)) /\ SkipTo(d, k).gone = {}
          BY <2>1, SkipSound
        <4> DEFINE to == SkipTo(d, k)
        <4>3. Sound(to) /\ to.gone = {} /\ cycle' = [cycle EXCEPT ![d] = to]
          BY <4>1, <4>2
        <4> HIDE DEF to
        <4> QED
          BY <4>3
      <3> QED
        BY <3>1, <3>2
    <2> QED
      BY <2>2, <2>3, <2>4, TypeByParts
  <1>9. ASSUME NEW d \in Dispatchers, Search(d) \/ Lookup(d) \/ Create(d)
        PROVE  TypeOK'
    <2>1. PICK p \in HolderPcs : cycle' = [cycle EXCEPT ![d].pc = p]
      BY <1>9 DEF Search, Lookup, Query, Create, HolderPcs
    <2>2. cycle[d].gone = {} /\ cycle[d].key \in cycle[d].requests /\ p \in Pcs \ {"drop"}
      BY <1>9 DEF TypeOK, CyclesOK, Search, Lookup, Create, HolderPcs, Pcs
    <2> DEFINE c == [cycle[d] EXCEPT !.pc = p]
    <2>3. Sound(c) /\ c.gone = {} /\ cycle' = [cycle EXCEPT ![d] = c]
      BY <2>1, <2>2, GotoSound
    <2>4. UNCHANGED <<visible, latch, contended, events, scope>>
      BY <1>9 DEF Search, Lookup, Create
    <2>5. TablesOK'
      <3>1. CASE UNCHANGED missions
        BY <2>4, <3>1 DEF TypeOK, TablesOK
      <3> DEFINE m == [objective |-> cycle[d].asked, open |-> TRUE]
      <3>2. CASE missions' = [missions EXCEPT ![cycle[d].key] = Append(@, m)]
        <4>0. m \in Mission
          BY CycleSound DEF Mission, Sound, Cycle
        <4> HIDE DEF m
        <4>1. ASSUME NEW k \in Keys
              PROVE  missions'[k] \in Seq(Mission) /\ latch'[k].since <= Len(missions'[k])
          <5>1. missions[k] \in Seq(Mission) /\ latch[k].since <= Len(missions[k])
                /\ latch[k].since \in Nat
            BY DEF TypeOK, TablesOK, Row
          <5>2. /\ Append(missions[k], m) \in Seq(Mission)
                /\ Len(Append(missions[k], m)) = Len(missions[k]) + 1
                /\ Len(missions[k]) \in Nat
            BY <4>0, <5>1
          <5>3. missions'[k] = missions[k] \/ missions'[k] = Append(missions[k], m)
            BY <3>2 DEF TypeOK, TablesOK
          <5>4. latch'[k] = latch[k]
            BY <2>4
          <5>5. CASE missions'[k] = missions[k]
            BY <5>1, <5>4, <5>5
          <5>6. CASE missions'[k] = Append(missions[k], m)
            BY <5>1, <5>2, <5>4, <5>6
          <5> QED
            BY <5>3, <5>5, <5>6
        <4>2. missions' \in [Keys -> Seq(Mission)]
          BY <3>2, <4>1 DEF TypeOK, TablesOK
        <4> QED
          BY <2>4, <4>1, <4>2 DEF TypeOK, TablesOK
      <3> QED
        BY <1>9, <3>1, <3>2 DEF Search, Lookup, Create
    <2> HIDE DEF c
    <2> QED
      BY <2>3, <2>4, <2>5, TypeByParts DEF TypeOK
  <1>9a. ASSUME NEW d \in Dispatchers, cycle[d].pc = "complete", Consume(cycle[d].key),
                UNCHANGED missions
         PROVE  /\ TablesOK'
                /\ \A x \in Keys : latch[x].status # "NONE" => latch'[x].status # "NONE"
    <2>1. cycle[d].key \in Keys
      BY <1>9a, CycleSound DEF Sound, Cycle, HolderPcs
    <2> DEFINE row == [latch[cycle[d].key] EXCEPT !.status = "CONSUMED", !.old = FALSE]
    <2>2. latch[cycle[d].key] \in Row
      BY <2>1 DEF TypeOK, TablesOK
    <2>3. row \in Row /\ row.since = latch[cycle[d].key].since /\ row.status = "CONSUMED"
      BY <2>2 DEF Row
    <2>4. latch' = latch \/ latch' = [latch EXCEPT ![cycle[d].key] = row]
      BY <1>9a DEF Consume
    <2> HIDE DEF row
    <2>5. CASE latch' = latch
      BY <1>9a, <2>5 DEF TypeOK, TablesOK
    <2>6. CASE latch' = [latch EXCEPT ![cycle[d].key] = row]
      <3>1. TablesOK'
        BY <1>9a, <2>1, <2>3, <2>6, RowChange
      <3> QED
        BY <2>1, <2>3, <2>6, <3>1 DEF TypeOK, TablesOK
    <2> QED
      BY <2>4, <2>5, <2>6
  <1>10. ASSUME NEW d \in Dispatchers, Complete(d)
         PROVE  TypeOK'
    <2> DEFINE k == cycle[d].key
    <2>1. k \in Keys
      BY <1>10, CycleSound DEF Complete, Sound, Cycle, HolderPcs
    <2>2. PICK c : Sound(c) /\ c.gone = {} /\ cycle' = [cycle EXCEPT ![d] = c]
      <3>1. cycle' = Skip(d, k)
        BY <1>10 DEF Complete
      <3>2. /\ Skip(d, k) = [cycle EXCEPT ![d] = SkipTo(d, k)]
            /\ Sound(SkipTo(d, k)) /\ SkipTo(d, k).gone = {}
        BY <2>1, SkipSound
      <3> DEFINE to == SkipTo(d, k)
      <3>3. Sound(to) /\ to.gone = {} /\ cycle' = [cycle EXCEPT ![d] = to]
        BY <3>1, <3>2
      <3> HIDE DEF to
      <3> QED
        BY <3>3
    <2>3. /\ TablesOK'
          /\ \A x \in Keys : latch[x].status # "NONE" => latch'[x].status # "NONE"
      BY <1>9a, <1>10 DEF Complete
    <2>4. UNCHANGED <<visible, events, contended, scope>>
      BY <1>10 DEF Complete
    <2> QED
      BY <2>2, <2>3, <2>4, TypeByParts DEF TypeOK
  <1>10a. ASSUME NEW d \in Dispatchers, LoseAnswer(d)
          PROVE  TypeOK'
    <2> DEFINE c == [cycle[d] EXCEPT !.pc = "release"]
    <2>1. cycle[d].gone = {} /\ cycle[d].key \in cycle[d].requests
      BY <1>10a DEF LoseAnswer, TypeOK, CyclesOK, HolderPcs
    <2>2. Sound(c) /\ c.gone = {} /\ cycle' = [cycle EXCEPT ![d] = c]
      BY <1>10a, <2>1, GotoSound DEF LoseAnswer, Pcs, HolderPcs
    <2> HIDE DEF c
    <2>3. /\ TablesOK'
          /\ \A x \in Keys : latch[x].status # "NONE" => latch'[x].status # "NONE"
      BY <1>9a, <1>10a DEF LoseAnswer
    <2>4. CyclesOK' /\ cycle'[d] = c /\ \A q \in Dispatchers \ {d} : cycle'[q] = cycle[q]
      BY <2>2, EntryStep
    <2>5. ASSUME NEW q \in Dispatchers, NEW k \in cycle'[q].gone
          PROVE  latch'[k].status # "NONE"
      <3>1. q # d /\ k \in cycle[q].gone /\ k \in Keys
        BY <2>2, <2>4, <2>5, CycleSound DEF Sound, Cycle
      <3> QED
        BY <2>3, <3>1 DEF TypeOK
    <2>6. UNCHANGED <<visible, contended, scope>> /\ events' \in 0..EventBound
      BY <1>10a DEF LoseAnswer, Event, TypeOK
    <2> QED
      BY <2>3, <2>4, <2>5, <2>6 DEF TypeOK
  <1>10b. ASSUME NEW d \in Dispatchers, Release(d)
          PROVE  TypeOK'
    <2>1. {cycle[d].key} \in SUBSET Keys
      BY <1>10b, CycleSound DEF Release, Sound, Cycle, HolderPcs
    <2> QED
      BY <1>10b, <2>1, RestSound, DeleteType DEF Release, TypeOK
  <1>11. ASSUME NEW d \in Dispatchers, FailRequest(d)
         PROVE  TypeOK'
    <2>1. {cycle[d].key} \in SUBSET Keys
      BY <1>11, CycleSound DEF FailRequest, Sound, Cycle
    <2>2. UNCHANGED <<visible, missions, contended, scope>> /\ events' \in 0..EventBound
      BY <1>11 DEF FailRequest, Event, TypeOK
    <2> QED
      BY <1>11, <2>1, <2>2, RestSound, DeleteType DEF FailRequest, TypeOK
  <1>12. ASSUME NEW d \in Dispatchers, Crash(d)
         PROVE  TypeOK'
    <2>1. CyclesOK' /\ cycle'[d] = Rest /\ \A q \in Dispatchers \ {d} : cycle'[q] = cycle[q]
      BY <1>12, RestSound, EntryStep DEF Crash
    <2> QED
      BY <1>12, <2>1, RestSound DEF TypeOK, TablesOK, Crash, Event
  <1>13. CASE UNCHANGED vars
    BY <1>13 DEF TypeOK, TablesOK, CyclesOK, vars
  <1> QED
    BY <1>1, <1>2, <1>3, <1>4, <1>5, <1>6, <1>7, <1>8, <1>9, <1>10, <1>10a, <1>10b,
     <1>11, <1>12, <1>13
       DEF Next, Step

\* TypeOK holds throughout: what a row, the missions and a supervisor's memory can
\* be, and that a list of ids to delete has ids of rows that are there.
THEOREM TypeCorrect == Spec => []TypeOK
  BY TypeInit, TypeStep, PTL DEF Spec

-----------------------------------------------------------------------------
(***************************************************************************)
(* Exclusion.  HolderIsExclusive is not inductive: a key that is not       *)
(* contended has one holder only because the row under it is PENDING and   *)
(* not old, or CONSUMED if the holder was not told, nobody else is about   *)
(* to reclaim it and no list of ids has it.                                *)
(***************************************************************************)
Private(k) ==
  /\ \A d, q \in Dispatchers : d # q /\ Holds(d, k) => ~Holds(q, k) /\ ~Reclaiming(q, k)
  /\ \A d, q \in Dispatchers : Holds(d, k) => k \notin cycle[q].gone
  /\ \A d \in Dispatchers : Holds(d, k) =>
       IF cycle[d].pc = "release" THEN Consumed(k)
                                  ELSE latch[k].status = "PENDING" /\ ~latch[k].old
  /\ k \in Exhausted => \A d \in Dispatchers : k \in cycle[d].gone => ~Consumed(k)

AllPrivate == \A k \in Keys : k \notin contended => Private(k)

\* d's part of a step in which it turns to no latch.
Quiet(c) == c.pc \notin {"reclaim"} \cup HolderPcs

LEMMA RestQuiet == Quiet(Rest)
  BY DEF Quiet, Rest, HolderPcs

LEMMA SkipQuiet ==
  ASSUME TypeOK, NEW d \in Dispatchers, NEW k \in Keys
  PROVE  Quiet(SkipTo(d, k))
  BY SkipSound DEF Quiet, HolderPcs

NobodyComes(k) ==
  \A q \in Dispatchers :
    /\ Holds(q, k)' => Holds(q, k) /\ (cycle'[q].pc = "release" <=> cycle[q].pc = "release")
    /\ Reclaiming(q, k)' => Reclaiming(q, k)
    /\ k \in cycle'[q].gone => k \in cycle[q].gone

\* Nobody comes to k, and its row stays as it is or is left by all.
LEMMA PrivateFrame ==
  ASSUME NEW k \in Keys, Private(k),
         latch'[k] = latch[k] \/ \A d \in Dispatchers : ~Holds(d, k)' /\ k \notin cycle'[d].gone,
         NobodyComes(k)
  PROVE  Private(k)'
  <1>1. \A d, q \in Dispatchers : d # q /\ Holds(d, k)' => ~Holds(q, k)' /\ ~Reclaiming(q, k)'
    BY DEF Private, NobodyComes
  <1>2. \A d, q \in Dispatchers : Holds(d, k)' => k \notin cycle'[q].gone
    BY DEF Private, NobodyComes
  <1>3. \A d \in Dispatchers : Holds(d, k)' =>
          IF cycle'[d].pc = "release" THEN Consumed(k)'
                                      ELSE latch'[k].status = "PENDING" /\ ~latch'[k].old
    BY DEF Private, NobodyComes, Consumed
  <1>4. k \in Exhausted => \A d \in Dispatchers : k \in cycle'[d].gone => ~Consumed(k)'
    BY DEF Private, Consumed, NobodyComes
  <1> QED
    BY <1>1, <1>2, <1>3, <1>4 DEF Private

\* d's new entry is quiet and lists no new row; the row of k stays or loses d only.
LEMMA PrivateQuiet ==
  ASSUME TypeOK, NEW k \in Keys, Private(k), NEW d \in Dispatchers, NEW c,
         cycle' = [cycle EXCEPT ![d] = c], Quiet(c), c.gone = {},
         latch'[k] = latch[k] \/ Holds(d, k)
  PROVE  Private(k)'
  <1>1. cycle'[d] = c /\ \A q \in Dispatchers \ {d} : cycle'[q] = cycle[q]
    BY DEF TypeOK, CyclesOK
  <1>2. \A q \in Dispatchers :
          /\ Holds(q, k)' => /\ q # d /\ Holds(q, k)
                             /\ cycle'[q].pc = "release" <=> cycle[q].pc = "release"
          /\ Reclaiming(q, k)' => Reclaiming(q, k)
          /\ k \in cycle'[q].gone => k \in cycle[q].gone
    BY <1>1 DEF Holds, Reclaiming, Quiet
  <1>3. CASE latch'[k] = latch[k]
    BY <1>2, <1>3, PrivateFrame DEF NobodyComes
  <1>4. CASE Holds(d, k)
    <2>1. \A q \in Dispatchers : ~Holds(q, k)' /\ k \notin cycle'[q].gone
      BY <1>1, <1>2, <1>4 DEF Private
    <2> QED
      BY <1>2, <2>1, PrivateFrame DEF NobodyComes
  <1> QED
    BY <1>3, <1>4

LEMMA PrivateInit == Init => AllPrivate
  BY RestQuiet DEF Init, AllPrivate, Private, Holds, Quiet, Rest

LEMMA PrivateStep == TypeOK /\ AllPrivate /\ [Next]_vars => AllPrivate'
  <1> SUFFICES ASSUME TypeOK, AllPrivate, [Next]_vars, NEW k \in Keys, k \notin contended'
               PROVE  Private(k)'
    BY DEF AllPrivate
  <1>0. k \notin contended => Private(k)
    BY DEF AllPrivate
  <1>1. CASE UNCHANGED <<latch, cycle, contended>>
    BY <1>0, <1>1, PrivateFrame DEF NobodyComes, Holds, Reclaiming
  <1>2. ASSUME NEW x \in Keys, Lapse(x)
        PROVE  Private(k)'
    <2>1. Private(k)
      BY <1>0, <1>2 DEF Lapse, Contend
    <2>2. UNCHANGED cycle /\ latch' = [latch EXCEPT ![x].old = TRUE]
      BY <1>2 DEF Lapse
    <2>3. CASE x # k
      <3>1. latch'[k] = latch[k]
        BY <2>2, <2>3 DEF TypeOK, TablesOK
      <3> QED
        BY <2>1, <2>2, <3>1, PrivateFrame DEF NobodyComes, Holds, Reclaiming
    <2>4. CASE x = k
      <3>1. \A d \in Dispatchers : ~Holds(d, k)
        BY <1>2, <2>4 DEF Lapse, Contend
      <3>2. latch'[k].status = "PENDING"
        BY <1>2, <2>4 DEF Lapse, TypeOK, TablesOK, Row
      <3> QED
        BY <2>2, <3>1, <3>2 DEF Private, Holds, Consumed
    <2> QED
      BY <2>3, <2>4
  <1>3. ASSUME NEW d \in Dispatchers, Scan(d)
        PROVE  Private(k)'
    <2> DEFINE c == [Rest EXCEPT !.pc = "find",
                                 !.requests = {x \in visible : ~(x \in Exhausted /\ Consumed(x))},
                                 !.keep = visible \cap Exhausted]
    <2>1. Quiet(c) /\ c.gone = {}
      BY DEF Quiet, Rest, HolderPcs
    <2>2. cycle' = [cycle EXCEPT ![d] = c] /\ UNCHANGED <<latch, contended>>
      BY <1>3 DEF Scan
    <2> HIDE DEF c
    <2> QED
      BY <1>0, <2>1, <2>2, PrivateQuiet
  <1>4. ASSUME NEW d \in Dispatchers, FindQuietly(d) \/ FindWithOpen(d) \/ FindWithoutOpen(d)
        PROVE  Private(k)'
    <2>1. PICK open : FindAbsent(d, open)
      BY <1>4 DEF FindQuietly, FindWithOpen, FindWithoutOpen
    <2> DEFINE S == Releasable(cycle[d].requests \cup cycle[d].keep \cup open)
    <2>2. k \notin contended /\ UNCHANGED latch /\ (k \in S => ~HeldByOther(d, k))
      BY <2>1 DEF FindAbsent
    <2>3. CASE S = {}
      <3>1. cycle' = [cycle EXCEPT ![d] = GoOn(d)]
        BY <2>1, <2>3 DEF FindAbsent
      <3>2. Quiet(GoOn(d)) /\ GoOn(d).gone = {}
        BY GoOnSound DEF Quiet, HolderPcs
      <3> QED
        BY <1>0, <2>2, <3>1, <3>2, PrivateQuiet
    <2>4. CASE S # {}
      <3> DEFINE c == [cycle[d] EXCEPT !.pc = "drop", !.keep = {}, !.gone = S]
      <3>1. cycle' = [cycle EXCEPT ![d] = c]
        BY <2>1, <2>4 DEF FindAbsent
      <3>2. c.pc = "drop" /\ c.gone = S
        BY CycleSound DEF Sound, Cycle
      <3> HIDE DEF c
      <3>3. cycle'[d] = c /\ \A q \in Dispatchers \ {d} : cycle'[q] = cycle[q]
        BY <3>1 DEF TypeOK, CyclesOK
      <3>4. CASE k \notin S
        <4>1. NobodyComes(k)
          BY <3>2, <3>3, <3>4 DEF NobodyComes, Holds, Reclaiming, HolderPcs
        <4> QED
          BY <1>0, <2>2, <4>1, PrivateFrame
      <3>5. CASE k \in S
        <4>1. \A q \in Dispatchers : ~Holds(q, k)'
          BY <2>2, <3>2, <3>3, <3>5 DEF Holds, HeldByOther, HolderPcs
        <4>2. k \in Exhausted => ~Consumed(k)
          BY <3>5 DEF Releasable
        <4> QED
          BY <2>2, <4>1, <4>2 DEF Private, Consumed
      <3> QED
        BY <3>4, <3>5
    <2> QED
      BY <2>3, <2>4
  <1>5. ASSUME NEW d \in Dispatchers, NEW S \in SUBSET Keys, NEW after,
               Sound(after), after.gone = {}, Quiet(after), DeleteRows(d, S, after),
               UNCHANGED <<missions, contended>>,
               S \subseteq cycle[d].gone \/ \A x \in S : Holds(d, x)
        PROVE  Private(k)'
    <2>1. /\ cycle'[d] = after
          /\ \A q \in Dispatchers \ {d} :
               cycle'[q] = [cycle[q] EXCEPT !.gone = cycle[q].gone \ S]
      BY <1>5, DeleteType
    <2>2. \A q \in Dispatchers \ {d} :
            /\ cycle'[q].pc = cycle[q].pc
            /\ cycle'[q].key = cycle[q].key
            /\ cycle'[q].gone = cycle[q].gone \ S
      BY <2>1, CycleSound DEF Sound, Cycle
    <2>3. \A q \in Dispatchers :
            /\ Holds(q, k)' => /\ q # d /\ Holds(q, k)
                               /\ cycle'[q].pc = "release" <=> cycle[q].pc = "release"
            /\ Reclaiming(q, k)' => Reclaiming(q, k)
            /\ k \in cycle'[q].gone => k \in cycle[q].gone /\ k \notin S
      BY <1>5, <2>1, <2>2 DEF Holds, Reclaiming, Quiet
    <2>4. CASE k \notin S
      <3>1. latch'[k] = latch[k]
        BY <1>5, <2>4 DEF DeleteRows
      <3> QED
        BY <1>0, <1>5, <2>3, <3>1, PrivateFrame DEF NobodyComes
    <2>5. CASE k \in S
      <3>1. \A q \in Dispatchers : ~Holds(q, k)'
        BY <1>0, <1>5, <2>3, <2>5 DEF Private
      <3> QED
        BY <1>0, <1>5, <2>3, <2>5, <3>1, PrivateFrame DEF NobodyComes
    <2> QED
      BY <2>4, <2>5
  <1>6. ASSUME NEW d \in Dispatchers, DropAbsent(d)
        PROVE  Private(k)'
    <2>1. Quiet(GoOn(d)) /\ cycle[d].gone \in SUBSET Keys
      BY GoOnSound, CycleSound DEF Quiet, HolderPcs, Sound, Cycle
    <2> QED
      BY <1>5, <1>6, <2>1, GoOnSound DEF DropAbsent
  <1>7. ASSUME NEW d \in Dispatchers, FailRequest(d)
        PROVE  Private(k)'
    <2>1. Holds(d, cycle[d].key) /\ {cycle[d].key} \in SUBSET Keys
      BY <1>7, CycleSound DEF FailRequest, Holds, Sound, Cycle
    <2> QED
      BY <1>5, <1>7, <2>1, RestSound, RestQuiet DEF FailRequest
  <1>7a. ASSUME NEW d \in Dispatchers, Release(d)
         PROVE  Private(k)'
    <2>1. Holds(d, cycle[d].key) /\ {cycle[d].key} \in SUBSET Keys
      BY <1>7a, CycleSound DEF Release, Holds, HolderPcs, Sound, Cycle
    <2> QED
      BY <1>5, <1>7a, <2>1, RestSound, RestQuiet DEF Release
  <1>8. ASSUME NEW d \in Dispatchers, NEW x \in Keys, Acquire(d, x)
        PROVE  Private(k)'
    <2>1. cycle[d].gone = {} /\ x \in cycle[d].requests
      BY <1>8 DEF Acquire, TypeOK, CyclesOK
    <2>2. CASE latch[x].status = "NONE"
      <3>0. PICK o \in Nat : cycle' = [cycle EXCEPT ![d] = Acquired(d, x, o)]
        BY <1>8, <2>2, ObjectivesOK DEF Acquire, Acquired
      <3> DEFINE c == Acquired(d, x, o)
      <3>1. c.pc = "lookup" /\ c.key = x /\ c.gone = {}
        BY <2>1, AcquiredSound
      <3>2. cycle' = [cycle EXCEPT ![d] = c] /\ latch' = [latch EXCEPT ![x] = Fresh(x)]
        BY <1>8, <2>2, <3>0 DEF Acquire
      <3> HIDE DEF c
      <3>3. /\ cycle'[d] = c /\ \A q \in Dispatchers \ {d} : cycle'[q] = cycle[q]
            /\ latch'[x] = Fresh(x) /\ \A y \in Keys \ {x} : latch'[y] = latch[y]
        BY <3>2 DEF TypeOK, CyclesOK, TablesOK
      <3>4. CASE k = x
        <4>1. ~HeldByOther(d, k) /\ ~AimedAt(d, k)
          BY <1>8, <2>2, <3>4 DEF Acquire
        <4>2. \A q \in Dispatchers \ {d} :
                ~Holds(q, k)' /\ ~Reclaiming(q, k)' /\ k \notin cycle'[q].gone
          BY <3>3, <4>1 DEF HeldByOther, AimedAt, Holds, Reclaiming
        <4>3. latch'[k].status = "PENDING" /\ ~latch'[k].old
          BY <3>3, <3>4 DEF Fresh
        <4> QED
          BY <3>1, <3>3, <4>2, <4>3 DEF Private, Consumed
      <3>5. CASE k # x
        <4>1. k \notin contended /\ latch'[k] = latch[k]
          BY <1>8, <2>2, <3>3, <3>5 DEF Acquire
        <4>2. NobodyComes(k)
          BY <3>1, <3>3, <3>5 DEF NobodyComes, Holds, Reclaiming
        <4> QED
          BY <1>0, <4>1, <4>2, PrivateFrame
      <3> QED
        BY <3>4, <3>5
    <2>3. CASE latch[x].status # "NONE"
      <3>1. UNCHANGED <<latch, contended>> /\ Private(k)
        BY <1>0, <1>8, <2>3 DEF Acquire
      <3>2. CASE latch[x].status = "PENDING" /\ latch[x].old
        <4> DEFINE c == [cycle[d] EXCEPT !.pc = "reclaim", !.key = x]
        <4>1. c.pc = "reclaim" /\ c.key = x /\ c.gone = {}
          BY <2>1, CycleSound DEF Sound, Cycle
        <4>2. cycle' = [cycle EXCEPT ![d] = c]
          BY <1>8, <2>1, <2>3, <3>2, RequestSound DEF Acquire
        <4> HIDE DEF c
        <4>3. cycle'[d] = c /\ \A q \in Dispatchers \ {d} : cycle'[q] = cycle[q]
          BY <4>2 DEF TypeOK, CyclesOK
        <4>4. CASE k = x
          <5>1. \A q \in Dispatchers : ~Holds(q, k)'
            BY <3>1, <3>2, <4>1, <4>3, <4>4 DEF Private, Holds, HolderPcs, Consumed
          <5> QED
            BY <3>1, <4>1, <4>3, <5>1 DEF Private, Consumed
        <4>5. CASE k # x
          <5>1. NobodyComes(k)
            BY <4>1, <4>3, <4>5 DEF NobodyComes, Holds, Reclaiming
          <5> QED
            BY <3>1, <5>1, PrivateFrame
        <4> QED
          BY <4>4, <4>5
      <3>3. CASE ~(latch[x].status = "PENDING" /\ latch[x].old)
        <4>1. cycle' = Skip(d, x)
          BY <1>8, <2>3, <3>3 DEF Acquire
        <4> QED
          BY <3>1, <4>1, SkipSound, SkipQuiet, PrivateQuiet
      <3> QED
        BY <3>2, <3>3
    <2> QED
      BY <2>2, <2>3
  <1>9. ASSUME NEW d \in Dispatchers, Reclaim(d)
        PROVE  Private(k)'
    <2> DEFINE x == cycle[d].key
    <2>1. x \in Keys /\ cycle[d].pc = "reclaim" /\ cycle[d].gone = {}
      BY <1>9, CycleSound DEF Reclaim, Sound, Cycle, HolderPcs
    <2>2. CASE latch[x].status = "PENDING"
      <3>0. PICK o \in Nat : cycle' = [cycle EXCEPT ![d] = Reclaimed(d, latch[x].since, o)]
        BY <1>9, <2>1, <2>2, ObjectivesOK DEF Reclaim, Reclaimed
      <3>9. latch[x].since \in Nat
        BY <2>1 DEF TypeOK, TablesOK, Row
      <3> DEFINE c == Reclaimed(d, latch[x].since, o)
      <3>1. c.pc = "search" /\ c.key = x /\ c.gone = {}
        BY <2>1, <3>9, ReclaimedSound
      <3>2. /\ cycle' = [cycle EXCEPT ![d] = c]
            /\ latch' = [latch EXCEPT ![x].old = FALSE]
            /\ Contend(x, AimedAt(d, x))
        BY <1>9, <2>2, <3>0 DEF Reclaim
      <3>3. Private(k)
        BY <1>0, <3>2 DEF Contend
      <3> HIDE DEF c
      <3>4. cycle'[d] = c /\ \A q \in Dispatchers \ {d} : cycle'[q] = cycle[q]
        BY <3>2 DEF TypeOK, CyclesOK
      <3>5. CASE k = x
        <4>1. ~AimedAt(d, k) /\ \A q \in Dispatchers \ {d} : ~Holds(q, k)
          BY <2>1, <3>2, <3>3, <3>5 DEF Contend, Private, Reclaiming
        <4>2. \A q \in Dispatchers \ {d} :
                ~Holds(q, k)' /\ ~Reclaiming(q, k)' /\ k \notin cycle'[q].gone
          BY <3>4, <4>1 DEF AimedAt, Holds, Reclaiming
        <4>3. latch'[k].status = "PENDING" /\ ~latch'[k].old
          BY <2>2, <3>2, <3>5 DEF TypeOK, TablesOK, Row
        <4> QED
          BY <3>1, <3>4, <4>2, <4>3 DEF Private, Consumed
      <3>6. CASE k # x
        <4>1. latch'[k] = latch[k]
          BY <3>2, <3>6 DEF TypeOK, TablesOK
        <4>2. NobodyComes(k)
          BY <3>1, <3>4, <3>6 DEF NobodyComes, Holds, Reclaiming
        <4> QED
          BY <3>3, <4>1, <4>2, PrivateFrame
      <3> QED
        BY <3>5, <3>6
    <2>3. CASE latch[x].status # "PENDING"
      <3>1. cycle' = Skip(d, x) /\ UNCHANGED <<latch, contended>>
        BY <1>9, <2>3 DEF Reclaim
      <3> QED
        BY <1>0, <2>1, <3>1, SkipSound, SkipQuiet, PrivateQuiet
    <2> QED
      BY <2>2, <2>3
  <1>10. ASSUME NEW d \in Dispatchers, Search(d) \/ Lookup(d) \/ Create(d)
         PROVE  Private(k)'
    <2>1. PICK p \in HolderPcs \ {"release"} : cycle' = [cycle EXCEPT ![d].pc = p]
      BY <1>10 DEF Search, Lookup, Query, Create, HolderPcs
    <2>2. cycle[d].pc \in HolderPcs \ {"release"} /\ UNCHANGED <<latch, contended>>
      BY <1>10 DEF Search, Lookup, Create, HolderPcs
    <2>3. /\ cycle'[d].key = cycle[d].key /\ cycle'[d].gone = cycle[d].gone /\ cycle'[d].pc = p
          /\ \A q \in Dispatchers \ {d} : cycle'[q] = cycle[q]
      BY <2>1 DEF TypeOK, CyclesOK, Cycle
    <2>4. NobodyComes(k)
      BY <2>1, <2>2, <2>3 DEF NobodyComes, Holds, Reclaiming, HolderPcs
    <2> QED
      BY <1>0, <2>2, <2>4, PrivateFrame
  <1>11. ASSUME NEW d \in Dispatchers, Complete(d)
         PROVE  Private(k)'
    <2> DEFINE x == cycle[d].key
    <2>1. x \in Keys /\ Holds(d, x)
      BY <1>11, CycleSound DEF Complete, Sound, Cycle, Holds, HolderPcs
    <2>2. cycle' = Skip(d, x) /\ UNCHANGED contended
      BY <1>11 DEF Complete
    <2>3. latch'[k] = latch[k] \/ Holds(d, k)
      BY <1>11, <2>1 DEF Complete, Consume, TypeOK, TablesOK
    <2> QED
      BY <1>0, <2>1, <2>2, <2>3, SkipSound, SkipQuiet, PrivateQuiet
  <1>11a. ASSUME NEW d \in Dispatchers, LoseAnswer(d)
          PROVE  Private(k)'
    <2> DEFINE x == cycle[d].key
    <2>1. x \in Keys /\ Holds(d, x)
      BY <1>11a, CycleSound DEF LoseAnswer, Sound, Cycle, Holds, HolderPcs
    <2>2. /\ cycle'[d].pc = "release" /\ cycle'[d].key = x /\ cycle'[d].gone = cycle[d].gone
          /\ \A q \in Dispatchers \ {d} : cycle'[q] = cycle[q]
      BY <1>11a DEF LoseAnswer, TypeOK, CyclesOK, Cycle
    <2>3. Private(k)
      BY <1>0, <1>11a DEF LoseAnswer
    <2>4. CASE k # x
      <3>1. latch'[k] = latch[k]
        BY <1>11a, <2>4 DEF LoseAnswer, Consume, TypeOK, TablesOK
      <3>2. NobodyComes(k)
        BY <2>2, <2>4 DEF NobodyComes, Holds, Reclaiming
      <3> QED
        BY <2>3, <3>1, <3>2, PrivateFrame
    <2>5. CASE k = x
      <3>1. latch[k].status = "PENDING"
        BY <1>11a, <2>1, <2>3, <2>5 DEF Private, LoseAnswer
      <3>2. Consumed(k)'
        BY <1>11a, <2>1, <2>5, <3>1 DEF LoseAnswer, Consume, Consumed, TypeOK, TablesOK, Row
      <3>3. \A q \in Dispatchers :
              /\ Holds(q, k)' => q = d
              /\ ~Reclaiming(q, k)' /\ k \notin cycle'[q].gone
        BY <2>1, <2>2, <2>3, <2>5 DEF Private, Holds, Reclaiming
      <3> QED
        BY <2>2, <3>2, <3>3 DEF Private
    <2> QED
      BY <2>4, <2>5
  <1>12. ASSUME NEW d \in Dispatchers, Crash(d)
         PROVE  Private(k)'
    BY <1>0, <1>12, RestSound, RestQuiet, PrivateQuiet DEF Crash
  <1>13. ASSUME NEW x \in Keys, Appear(x) \/ Vanish(x)
         PROVE  Private(k)'
    BY <1>1, <1>13 DEF Appear, Vanish
  <1>14. ASSUME NEW x \in Keys, NEW i \in DOMAIN missions[x], Settle(x, i)
         PROVE  Private(k)'
    BY <1>1, <1>14 DEF Settle
  <1>15. CASE UNCHANGED vars
    BY <1>1, <1>15 DEF vars
  <1> QED
    BY <1>2, <1>3, <1>4, <1>6, <1>7, <1>7a, <1>8, <1>9, <1>10, <1>11, <1>11a,
     <1>12, <1>13, <1>14, <1>15
       DEF Next, Step

LEMMA PrivateAlways == Spec => [](TypeOK /\ AllPrivate)
  BY TypeInit, TypeStep, PrivateInit, PrivateStep, PTL DEF Spec

\* HolderIsExclusive holds throughout: two supervisors are at work on one context
\* only if its latch turned old, or was picked for deletion, under a live holder, or
\* one came while another was about to reclaim or to delete.
THEOREM Exclusive == Spec => []HolderIsExclusive
  <1>1. AllPrivate => HolderIsExclusive
    BY DEF AllPrivate, Private, HolderIsExclusive
  <1> QED
    BY <1>1, PrivateAlways, PTL

-----------------------------------------------------------------------------
(* The latch of an escalation *)

\* A row that is CONSUMED only goes by a deletion.
LEMMA ConsumedGoes ==
  ASSUME TypeOK, [Next]_vars, NEW k \in Keys, Consumed(k), ~Consumed(k)'
  PROVE  \E d \in Dispatchers : \/ cycle[d].pc = "drop" /\ k \in cycle[d].gone
                               \/ Holds(d, k)
  <1>0. \A x \in Keys : latch[x] \in Row
    BY DEF TypeOK, TablesOK
  <1>1. ASSUME NEW x \in Keys, Lapse(x)
        PROVE  FALSE
    BY <1>1 DEF Lapse, Consumed, TypeOK, TablesOK
  <1>2. ASSUME NEW d \in Dispatchers, NEW x \in Keys, Acquire(d, x)
        PROVE  FALSE
    BY <1>2 DEF Acquire, Consumed, TypeOK, TablesOK
  <1>3. ASSUME NEW d \in Dispatchers, Reclaim(d)
        PROVE  FALSE
    BY <1>3 DEF Reclaim, Consumed, TypeOK, TablesOK
  <1>4. ASSUME NEW d \in Dispatchers, Complete(d) \/ LoseAnswer(d)
        PROVE  FALSE
    <2> DEFINE x == cycle[d].key
               row == [latch[x] EXCEPT !.status = "CONSUMED", !.old = FALSE]
    <2>1. x \in Keys /\ Consume(x)
      BY <1>4, CycleSound DEF Complete, LoseAnswer, Sound, Cycle, HolderPcs
    <2>2. row.status = "CONSUMED"
      BY <1>0, <2>1 DEF Row
    <2>3. latch' = latch \/ latch' = [latch EXCEPT ![x] = row]
      BY <2>1 DEF Consume
    <2> HIDE DEF row
    <2> QED
      BY <2>2, <2>3 DEF Consumed, TypeOK, TablesOK
  <1>5. ASSUME NEW d \in Dispatchers, DropAbsent(d)
        PROVE  cycle[d].pc = "drop" /\ k \in cycle[d].gone
    BY <1>5 DEF DropAbsent, DeleteRows, Consumed
  <1>6. ASSUME NEW d \in Dispatchers, FailRequest(d) \/ Release(d)
        PROVE  Holds(d, k)
    BY <1>6 DEF FailRequest, Release, DeleteRows, Consumed, Holds, HolderPcs
  <1>7. CASE UNCHANGED latch
    BY <1>7 DEF Consumed
  <1> QED
    BY <1>1, <1>2, <1>3, <1>4, <1>5, <1>6, <1>7
       DEF Next, Step, vars, Appear, Vanish, Settle, Scan, FindQuietly, FindWithOpen,
           FindWithoutOpen, FindAbsent, Search, Lookup, Create, Crash

\* EscalationStays holds throughout: only a contended escalation, or one whose holder
\* was not told of its commit, can lose the latch that says it was delivered.
THEOREM EscalationKept == Spec => EscalationStays
  <1>1. ASSUME TypeOK, AllPrivate, [Next]_vars, NEW k \in Exhausted, Consumed(k), ~Consumed(k)'
        PROVE  \/ k \in contended
               \/ \E d \in Dispatchers : cycle[d].pc = "release" /\ cycle[d].key = k
    <2>1. k \in Keys
      BY ContextsOK
    <2>2. PICK d \in Dispatchers : \/ cycle[d].pc = "drop" /\ k \in cycle[d].gone
                                  \/ Holds(d, k)
      BY <1>1, <2>1, ConsumedGoes
    <2>3. (cycle[d].pc = "release" /\ cycle[d].key = k) \/ ~Private(k)
      BY <1>1, <2>2 DEF Private, Consumed, Holds
    <2> QED
      BY <1>1, <2>1, <2>3 DEF AllPrivate
  <1>2. TypeOK /\ AllPrivate /\ [Next]_vars =>
          [\A k \in Exhausted : Consumed(k) /\ ~Consumed(k)' =>
             \/ k \in contended
             \/ \E d \in Dispatchers : cycle[d].pc = "release" /\ cycle[d].key = k]_vars
    BY <1>1
  <1> QED
    BY <1>2, PrivateAlways, PTL DEF Spec, EscalationStays

-----------------------------------------------------------------------------
(***************************************************************************)
(* Missions.  A key that is not contended has one holder, and this is what *)
(* it knows of the missions of its latch.                                  *)
(***************************************************************************)
\* The missions of k after the first n have different objectives; none of them has o.
Distinct(k, n) ==
  \A i, j \in DOMAIN missions[k] :
    n < i /\ i < j => missions[k][i].objective # missions[k][j].objective
NoneOf(k, n, o) == \A i \in DOMAIN missions[k] : n < i => missions[k][i].objective # o
NoneOpen(k, o) == \A i \in DOMAIN missions[k] : missions[k][i].open => missions[k][i].objective # o

Counted(k) ==
  /\ latch[k].status # "NONE" => Distinct(k, latch[k].since)
  /\ \A d \in Dispatchers : Holds(d, k) =>
       /\ cycle[d].pc = "search" => cycle[d].since = latch[k].since
       /\ cycle[d].pc \in {"lookup", "create"} => NoneOf(k, latch[k].since, cycle[d].asked)
       /\ cycle[d].pc = "create" => NoneOpen(k, cycle[d].asked)

AllCounted == \A k \in Keys : k \notin contended => Counted(k)

\* Every holder was at the same point before.
StaysPut(k) ==
  \A d \in Dispatchers : Holds(d, k)' =>
    /\ Holds(d, k) /\ cycle'[d].pc = cycle[d].pc
    /\ cycle'[d].since = cycle[d].since /\ cycle'[d].asked = cycle[d].asked

\* The missions of k are the same, perhaps settled.
SameMissions(k) ==
  /\ DOMAIN missions'[k] = DOMAIN missions[k]
  /\ \A i \in DOMAIN missions[k] :
       /\ missions'[k][i].objective = missions[k][i].objective
       /\ missions'[k][i].open => missions[k][i].open

LEMMA CountedFrame ==
  ASSUME NEW k \in Keys, Counted(k), StaysPut(k), SameMissions(k),
         \/ latch'[k].status = "NONE" /\ \A d \in Dispatchers : ~Holds(d, k)'
         \/ latch'[k].since = latch[k].since /\ latch[k].status # "NONE"
         \/ latch'[k] = latch[k]
  PROVE  Counted(k)'
  <1>1. latch'[k].status # "NONE" => Distinct(k, latch[k].since)'
    <2>1. ASSUME latch'[k].status # "NONE"
          PROVE  Distinct(k, latch[k].since) /\ latch'[k].since = latch[k].since
      BY <2>1 DEF Counted
    <2> QED
      BY <2>1 DEF Distinct, SameMissions
  <1>2. ASSUME NEW d \in Dispatchers, Holds(d, k)'
        PROVE  /\ cycle'[d].pc = "search" => cycle'[d].since = latch'[k].since
               /\ cycle'[d].pc \in {"lookup", "create"} => NoneOf(k, latch[k].since, cycle[d].asked)'
               /\ cycle'[d].pc = "create" => NoneOpen(k, cycle[d].asked)'
    <2>1. /\ Holds(d, k) /\ cycle'[d].pc = cycle[d].pc
          /\ cycle'[d].since = cycle[d].since /\ cycle'[d].asked = cycle[d].asked
      BY <1>2 DEF StaysPut
    <2>2. latch'[k].since = latch[k].since
      BY <1>2
    <2>3. NoneOf(k, latch[k].since, cycle[d].asked) => NoneOf(k, latch[k].since, cycle[d].asked)'
      BY <2>1, <2>2 DEF NoneOf, SameMissions
    <2>4. NoneOpen(k, cycle[d].asked) => NoneOpen(k, cycle[d].asked)'
      BY <2>1 DEF NoneOpen, SameMissions
    <2>5. /\ cycle[d].pc = "search" => cycle[d].since = latch[k].since
          /\ cycle[d].pc \in {"lookup", "create"} => NoneOf(k, latch[k].since, cycle[d].asked)
          /\ cycle[d].pc = "create" => NoneOpen(k, cycle[d].asked)
      BY <2>1 DEF Counted
    <2> QED
      BY <2>1, <2>2, <2>3, <2>4, <2>5
  <1> QED
    BY <1>1, <1>2 DEF Counted

LEMMA SameIfUnchanged == ASSUME NEW k \in Keys, missions'[k] = missions[k] PROVE SameMissions(k)
  BY DEF SameMissions

LEMMA CountedInit == Init => AllCounted
  BY RestQuiet DEF Init, AllCounted, Counted, Holds, Quiet, NoRow

\* d goes where it holds nothing; rows and missions stay.
LEMMA CountedQuiet ==
  ASSUME TypeOK, AllCounted, NEW k \in Keys, k \notin contended, NEW d \in Dispatchers, NEW c,
         cycle' = [cycle EXCEPT ![d] = c], c.pc \notin HolderPcs, UNCHANGED <<latch, missions>>
  PROVE  Counted(k)'
  <1>1. cycle'[d] = c /\ \A q \in Dispatchers \ {d} : cycle'[q] = cycle[q]
    BY DEF TypeOK, CyclesOK
  <1>2. StaysPut(k)
    BY <1>1 DEF StaysPut, Holds
  <1>3. Counted(k)
    BY DEF AllCounted
  <1> QED
    BY <1>2, <1>3, CountedFrame, SameIfUnchanged

LEMMA CountedStep ==
  TypeOK /\ TypeOK' /\ AllPrivate /\ AllPrivate' /\ AllCounted /\ [Next]_vars => AllCounted'
  <1> SUFFICES ASSUME TypeOK, TypeOK', AllPrivate, AllPrivate', AllCounted, [Next]_vars,
                      NEW k \in Keys, k \notin contended'
               PROVE  Counted(k)'
    BY DEF AllCounted
  <1>0. /\ k \notin contended => Private(k) /\ Counted(k)
        /\ Private(k)'
    BY DEF AllPrivate, AllCounted
  <1>1. CASE UNCHANGED <<latch, cycle, missions, contended>>
    BY <1>0, <1>1, CountedFrame, SameIfUnchanged DEF StaysPut, Holds
  <1>2. ASSUME NEW x \in Keys, NEW i \in DOMAIN missions[x], Settle(x, i)
        PROVE  Counted(k)'
    <2> DEFINE m == [missions[x][i] EXCEPT !.open = FALSE]
               ms == [missions[x] EXCEPT ![i] = m]
    <2>1. missions[x] \in Seq(Mission) /\ missions[x][i] \in Mission
      BY DEF TypeOK, TablesOK
    <2>2. m.objective = missions[x][i].objective /\ ~m.open
      BY <2>1 DEF Mission
    <2>3. missions' = [missions EXCEPT ![x] = ms]
      BY <1>2 DEF Settle, TypeOK, TablesOK
    <2> HIDE DEF m
    <2>4. DOMAIN ms = DOMAIN missions[x] /\ \A j \in DOMAIN missions[x] :
            ms[j] = IF j = i THEN m ELSE missions[x][j]
      BY <2>1
    <2> HIDE DEF ms
    <2>5. missions'[k] = IF k = x THEN ms ELSE missions[k]
      BY <2>3 DEF TypeOK, TablesOK
    <2>6. SameMissions(k)
      BY <2>2, <2>4, <2>5 DEF SameMissions
    <2> QED
      BY <1>0, <1>2, <2>6, CountedFrame DEF Settle, StaysPut, Holds
  <1>3. ASSUME NEW x \in Keys, Lapse(x)
        PROVE  Counted(k)'
    <2>1. k \notin contended /\ UNCHANGED <<cycle, missions>>
      BY <1>3 DEF Lapse, Contend
    <2>2. \/ latch'[k] = latch[k]
          \/ latch'[k].since = latch[k].since /\ latch[k].status # "NONE"
      BY <1>3 DEF Lapse, TypeOK, TablesOK, Row
    <2> QED
      BY <1>0, <2>1, <2>2, CountedFrame, SameIfUnchanged DEF StaysPut, Holds
  <1>4. ASSUME NEW d \in Dispatchers, Scan(d)
        PROVE  Counted(k)'
    <2> DEFINE c == [Rest EXCEPT !.pc = "find",
                                 !.requests = {x \in visible : ~(x \in Exhausted /\ Consumed(x))},
                                 !.keep = visible \cap Exhausted]
    <2>1. c.pc \notin HolderPcs
      BY DEF Rest, HolderPcs
    <2>2. cycle' = [cycle EXCEPT ![d] = c] /\ UNCHANGED <<latch, missions, contended>>
      BY <1>4 DEF Scan
    <2> HIDE DEF c
    <2> QED
      BY <2>1, <2>2, CountedQuiet
  <1>5. ASSUME NEW d \in Dispatchers, FindQuietly(d) \/ FindWithOpen(d) \/ FindWithoutOpen(d)
        PROVE  Counted(k)'
    <2>1. PICK open : FindAbsent(d, open)
      BY <1>5 DEF FindQuietly, FindWithOpen, FindWithoutOpen
    <2> DEFINE S == Releasable(cycle[d].requests \cup cycle[d].keep \cup open)
               c == IF S = {} THEN GoOn(d)
                    ELSE [cycle[d] EXCEPT !.pc = "drop", !.keep = {}, !.gone = S]
    <2>2. /\ cycle' = [cycle EXCEPT ![d] = c] /\ UNCHANGED <<latch, missions>>
          /\ k \notin contended
      BY <2>1 DEF FindAbsent
    <2>3. c.pc \notin HolderPcs
      BY GoOnSound, CycleSound DEF Sound, Cycle, HolderPcs
    <2> HIDE DEF c
    <2> QED
      BY <2>2, <2>3, CountedQuiet
  <1>6. ASSUME NEW d \in Dispatchers, NEW S \in SUBSET Keys, NEW after,
               Sound(after), after.gone = {}, Quiet(after), DeleteRows(d, S, after),
               UNCHANGED <<missions, contended>>
        PROVE  Counted(k)'
    <2>1. /\ cycle'[d] = after
          /\ \A q \in Dispatchers \ {d} :
               cycle'[q] = [cycle[q] EXCEPT !.gone = cycle[q].gone \ S]
      BY <1>6, DeleteType
    <2>2. \A q \in Dispatchers \ {d} :
            /\ cycle'[q].pc = cycle[q].pc
            /\ cycle'[q].key = cycle[q].key
            /\ cycle'[q].since = cycle[q].since
            /\ cycle'[q].asked = cycle[q].asked
      BY <2>1, CycleSound DEF Sound, Cycle
    <2>3. StaysPut(k)
      BY <1>6, <2>1, <2>2 DEF StaysPut, Holds, Quiet
    <2>4. latch'[k] = latch[k] \/ latch'[k].status = "NONE"
      BY <1>6 DEF DeleteRows, NoRow
    <2>5. latch'[k].status = "NONE" => \A q \in Dispatchers : ~Holds(q, k)'
      BY <1>0 DEF Private, Consumed
    <2> QED
      BY <1>0, <1>6, <2>3, <2>4, <2>5, CountedFrame, SameIfUnchanged
  <1>7. ASSUME NEW d \in Dispatchers, DropAbsent(d)
        PROVE  Counted(k)'
    <2>1. Quiet(GoOn(d)) /\ cycle[d].gone \in SUBSET Keys
      BY GoOnSound, CycleSound DEF Quiet, HolderPcs, Sound, Cycle
    <2> QED
      BY <1>6, <1>7, <2>1, GoOnSound DEF DropAbsent
  <1>8. ASSUME NEW d \in Dispatchers, FailRequest(d)
        PROVE  Counted(k)'
    <2>1. {cycle[d].key} \in SUBSET Keys
      BY <1>8, CycleSound DEF FailRequest, Sound, Cycle
    <2> QED
      BY <1>6, <1>8, <2>1, RestSound, RestQuiet DEF FailRequest
  <1>8a. ASSUME NEW d \in Dispatchers, Release(d)
         PROVE  Counted(k)'
    <2>1. {cycle[d].key} \in SUBSET Keys
      BY <1>8a, CycleSound DEF Release, Sound, Cycle, HolderPcs
    <2> QED
      BY <1>6, <1>8a, <2>1, RestSound, RestQuiet DEF Release
  <1>9. ASSUME NEW d \in Dispatchers, NEW x \in Keys, Acquire(d, x)
        PROVE  Counted(k)'
    <2>1. cycle[d].gone = {} /\ x \in cycle[d].requests /\ UNCHANGED missions
      BY <1>9 DEF Acquire, TypeOK, CyclesOK
    <2>2. CASE latch[x].status = "NONE"
      <3>0. PICK o \in Nat : cycle' = [cycle EXCEPT ![d] = Acquired(d, x, o)]
        BY <1>9, <2>2, ObjectivesOK DEF Acquire, Acquired
      <3> DEFINE c == Acquired(d, x, o)
      <3>1. c.pc = "lookup" /\ c.key = x
        BY <2>1, AcquiredSound
      <3>2. cycle' = [cycle EXCEPT ![d] = c] /\ latch' = [latch EXCEPT ![x] = Fresh(x)]
        BY <1>9, <2>2, <3>0 DEF Acquire
      <3> HIDE DEF c
      <3>3. /\ cycle'[d] = c /\ \A q \in Dispatchers \ {d} : cycle'[q] = cycle[q]
            /\ latch'[x] = Fresh(x) /\ \A y \in Keys \ {x} : latch'[y] = latch[y]
        BY <3>2 DEF TypeOK, CyclesOK, TablesOK
      <3>4. CASE k = x
        <4>1. /\ latch'[k].since = Len(missions'[k])
              /\ missions'[k] \in Seq(Mission)
          BY <2>1, <3>3, <3>4 DEF Fresh, TypeOK, TablesOK
        <4>2. \A i \in DOMAIN missions'[k] : ~(latch'[k].since < i)
          BY <4>1
        <4>3. Distinct(k, latch[k].since)' /\ NoneOf(k, latch[k].since, cycle[d].asked)'
          BY <4>2 DEF Distinct, NoneOf
        <4>4. Holds(d, k)'
          BY <3>1, <3>3, <3>4 DEF Holds, HolderPcs
        <4>5. \A q \in Dispatchers : Holds(q, k)' => q = d
          BY <1>0, <4>4 DEF Private
        <4> QED
          BY <3>1, <3>3, <4>3, <4>5 DEF Counted
      <3>5. CASE k # x
        <4>1. k \notin contended /\ latch'[k] = latch[k]
          BY <1>9, <2>2, <3>3, <3>5 DEF Acquire
        <4>2. StaysPut(k)
          BY <3>1, <3>3, <3>5 DEF StaysPut, Holds
        <4> QED
          BY <1>0, <2>1, <4>1, <4>2, CountedFrame, SameIfUnchanged
      <3> QED
        BY <3>4, <3>5
    <2>3. CASE latch[x].status # "NONE"
      <3>1. UNCHANGED <<latch, contended>>
        BY <1>9, <2>3 DEF Acquire
      <3>2. PICK c : c.pc \notin HolderPcs /\ cycle' = [cycle EXCEPT ![d] = c]
        <4>1. CASE latch[x].status = "PENDING" /\ latch[x].old
          <5> DEFINE to == [cycle[d] EXCEPT !.pc = "reclaim", !.key = x]
          <5>1. cycle' = [cycle EXCEPT ![d].pc = "reclaim", ![d].key = x]
            BY <1>9, <2>3, <4>1 DEF Acquire
          <5>2. cycle[d] \in Cycle
            BY CycleSound DEF Sound
          <5>3. to.pc = "reclaim" /\ cycle' = [cycle EXCEPT ![d] = to]
            BY <5>1, <5>2 DEF Cycle, TypeOK, CyclesOK
          <5> QED
            BY <5>3 DEF HolderPcs
        <4>2. CASE ~(latch[x].status = "PENDING" /\ latch[x].old)
          <5>1. cycle' = Skip(d, x)
            BY <1>9, <2>3, <4>2 DEF Acquire
          <5> QED
            BY <5>1, SkipSound DEF HolderPcs
        <4> QED
          BY <4>1, <4>2
      <3> QED
        BY <2>1, <3>1, <3>2, CountedQuiet
    <2> QED
      BY <2>2, <2>3
  <1>10. ASSUME NEW d \in Dispatchers, Reclaim(d)
         PROVE  Counted(k)'
    <2> DEFINE x == cycle[d].key
    <2>1. x \in Keys /\ cycle[d].pc = "reclaim" /\ UNCHANGED missions
      BY <1>10, CycleSound DEF Reclaim, Sound, Cycle
    <2>2. CASE latch[x].status = "PENDING"
      <3>0. PICK o \in Nat : cycle' = [cycle EXCEPT ![d] = Reclaimed(d, latch[x].since, o)]
        BY <1>10, <2>1, <2>2, ObjectivesOK DEF Reclaim, Reclaimed
      <3>9. latch[x].since \in Nat
        BY <2>1 DEF TypeOK, TablesOK, Row
      <3> DEFINE c == Reclaimed(d, latch[x].since, o)
      <3>1. c.pc = "search" /\ c.key = x /\ c.since = latch[x].since
        BY <2>1, <3>9, ReclaimedSound
      <3>2. /\ cycle' = [cycle EXCEPT ![d] = c]
            /\ latch' = [latch EXCEPT ![x].old = FALSE]
            /\ Contend(x, AimedAt(d, x))
        BY <1>10, <2>2, <3>0 DEF Reclaim
      <3>3. k \notin contended
        BY <3>2 DEF Contend
      <3> HIDE DEF c
      <3>4. cycle'[d] = c /\ \A q \in Dispatchers \ {d} : cycle'[q] = cycle[q]
        BY <3>2 DEF TypeOK, CyclesOK
      <3>5. CASE k = x
        <4>1. latch'[k].since = latch[k].since /\ latch[k].status # "NONE"
          BY <2>2, <3>2, <3>5 DEF TypeOK, TablesOK, Row
        <4>2. Holds(d, k)'
          BY <3>1, <3>4, <3>5 DEF Holds, HolderPcs
        <4>3. \A q \in Dispatchers : Holds(q, k)' => q = d
          BY <1>0, <4>2 DEF Private
        <4>4. Distinct(k, latch[k].since)'
          BY <1>0, <2>1, <3>3, <4>1 DEF Counted, Distinct
        <4> QED
          BY <3>1, <3>4, <3>5, <4>1, <4>3, <4>4 DEF Counted
      <3>6. CASE k # x
        <4>1. latch'[k] = latch[k]
          BY <3>2, <3>6 DEF TypeOK, TablesOK
        <4>2. StaysPut(k)
          BY <3>1, <3>4, <3>6 DEF StaysPut, Holds
        <4> QED
          BY <1>0, <2>1, <3>3, <4>1, <4>2, CountedFrame, SameIfUnchanged
      <3> QED
        BY <3>5, <3>6
    <2>3. CASE latch[x].status # "PENDING"
      <3>1. cycle' = Skip(d, x) /\ UNCHANGED <<latch, contended>>
        BY <1>10, <2>3 DEF Reclaim
      <3> QED
        BY <2>1, <3>1, SkipSound, CountedQuiet DEF HolderPcs
    <2> QED
      BY <2>2, <2>3
  <1>11. ASSUME NEW d \in Dispatchers, Search(d) \/ Lookup(d) \/ Create(d)
         PROVE  Counted(k)'
    <2> DEFINE x == cycle[d].key
    <2>1. x \in Keys /\ Holds(d, x)
      BY <1>11, CycleSound DEF Search, Lookup, Create, Sound, Cycle, Holds, HolderPcs
    <2>2. k \notin contended /\ Private(k) /\ Counted(k) /\ UNCHANGED latch
      BY <1>0, <1>11 DEF Search, Lookup, Create
    <2>3. PICK p \in HolderPcs : cycle' = [cycle EXCEPT ![d].pc = p]
      BY <1>11 DEF Search, Lookup, Query, Create, HolderPcs
    <2>4. /\ cycle'[d].key = x /\ cycle'[d].since = cycle[d].since /\ cycle'[d].pc = p
          /\ cycle'[d].asked = cycle[d].asked
          /\ \A q \in Dispatchers \ {d} : cycle'[q] = cycle[q]
      BY <2>3 DEF TypeOK, CyclesOK, Cycle
    <2>5. CASE k # x
      <3>1. StaysPut(k)
        BY <2>4, <2>5 DEF StaysPut, Holds
      <3>2. missions'[k] = missions[k]
        BY <1>11, <2>5 DEF Search, Lookup, Create, TypeOK, TablesOK
      <3> QED
        BY <2>2, <3>1, <3>2, CountedFrame, SameIfUnchanged
    <2>6. CASE k = x
      <3>1. \A q \in Dispatchers : Holds(q, k)' => q = d
        BY <2>1, <2>2, <2>4, <2>6 DEF Private, Holds
      <3>2. latch'[k] = latch[k] /\ latch[k].since \in Nat
        BY <2>2 DEF TypeOK, TablesOK, Row
      <3> DEFINE n == latch[k].since
                 o == cycle[d].asked
      \* What is left to show, once the others are known to hold nothing.
      <3>3. ASSUME (latch[k].status # "NONE" => Distinct(k, n)'), p # "search",
                   p \in {"lookup", "create"} => NoneOf(k, n, o)', p = "create" => NoneOpen(k, o)'
            PROVE  Counted(k)'
        BY <2>4, <3>1, <3>2, <3>3 DEF Counted, Distinct, NoneOf, NoneOpen
      <3>4. latch[k].status # "NONE" => Distinct(k, n)
        BY <2>2 DEF Counted
      <3>5. CASE Search(d)
        <4>1. UNCHANGED missions /\ cycle[d].since = n /\ p \in {"complete", "lookup"}
          BY <2>1, <2>2, <2>3, <2>4, <2>6, <3>5 DEF Search, Query, Counted, TypeOK, CyclesOK, Cycle
        <4>2. p = "lookup" => Recent(d) = {}
          BY <2>4, <3>5 DEF Search, Query, TypeOK, CyclesOK, Cycle
        <4>3. p = "lookup" => NoneOf(k, n, o)
          BY <2>6, <4>1, <4>2 DEF Recent, Alike, NoneOf
        <4>4. (NoneOf(k, n, o) => NoneOf(k, n, o)') /\ (Distinct(k, n) => Distinct(k, n)')
          BY <2>4, <3>2, <4>1 DEF NoneOf, Distinct
        <4> QED
          BY <3>3, <3>4, <4>1, <4>3, <4>4
      <3>6. CASE Lookup(d)
        <4>1. UNCHANGED missions /\ NoneOf(k, n, o) /\ p \in {"complete", "create"}
          BY <2>1, <2>2, <2>3, <2>4, <2>6, <3>6 DEF Lookup, Query, Counted, TypeOK, CyclesOK, Cycle
        <4>2. p = "create" => OpenOnes(d) = {}
          BY <2>4, <3>6 DEF Lookup, Query, TypeOK, CyclesOK, Cycle
        <4>3. p = "create" => NoneOpen(k, o)
          BY <2>6, <4>2 DEF OpenOnes, Alike, NoneOpen
        <4>4. NoneOf(k, n, o)' /\ (NoneOpen(k, o) => NoneOpen(k, o)') /\ (Distinct(k, n) => Distinct(k, n)')
          BY <2>4, <3>2, <4>1 DEF NoneOf, NoneOpen, Distinct
        <4> QED
          BY <3>3, <3>4, <4>1, <4>3, <4>4
      <3>7. CASE Create(d)
        <4>1. NoneOf(k, n, o) /\ p = "complete"
          BY <2>1, <2>2, <2>3, <2>4, <2>6, <3>7 DEF Create, Counted, TypeOK, CyclesOK, Cycle
        <4> DEFINE m == [objective |-> o, open |-> TRUE]
        <4>2. missions[k] \in Seq(Mission) /\ missions'[k] = Append(missions[k], m)
          BY <2>6, <3>7 DEF Create, TypeOK, TablesOK
        <4>3. m.objective = o
          OBVIOUS
        <4> HIDE DEF m
        <4>4. \A i \in DOMAIN missions'[k] :
                \/ i \in DOMAIN missions[k] /\ missions'[k][i] = missions[k][i]
                \/ i = Len(missions[k]) + 1 /\ missions'[k][i] = m
          BY <4>2
        <4>5. \A i, j \in DOMAIN missions'[k] : i < j => i \in DOMAIN missions[k]
          BY <4>2
        <4>6. ASSUME Distinct(k, n), NEW i \in DOMAIN missions'[k], NEW j \in DOMAIN missions'[k],
                     n < i, i < j
              PROVE  missions'[k][i].objective # missions'[k][j].objective
          <5>1. i \in DOMAIN missions[k] /\ missions'[k][i] = missions[k][i]
            BY <4>2, <4>4, <4>5, <4>6
          <5>2. missions[k][i].objective # o
            BY <4>1, <4>6, <5>1 DEF NoneOf
          <5>3. CASE missions'[k][j] = m
            BY <4>3, <5>1, <5>2, <5>3
          <5>4. CASE j \in DOMAIN missions[k] /\ missions'[k][j] = missions[k][j]
            BY <4>6, <5>1, <5>4 DEF Distinct
          <5> QED
            BY <4>4, <5>3, <5>4
        <4>7. Distinct(k, n) => Distinct(k, n)'
          <5>1. latch'[k].since = n
            BY <3>2
          <5> QED
            BY <4>6, <5>1 DEF Distinct
        <4> QED
          BY <3>3, <3>4, <4>1, <4>7
      <3> QED
        BY <1>11, <3>5, <3>6, <3>7
    <2> QED
      BY <2>5, <2>6
  <1>12. ASSUME NEW d \in Dispatchers, Consume(cycle[d].key), cycle[d].key \in Keys,
                UNCHANGED <<missions, contended>>, StaysPut(k)
         PROVE  Counted(k)'
    <2> DEFINE x == cycle[d].key
    <2>1. latch'[k] = latch[k] \/ (latch'[k].since = latch[k].since /\ latch[k].status # "NONE")
      <3> DEFINE row == [latch[x] EXCEPT !.status = "CONSUMED", !.old = FALSE]
      <3>1. CASE latch[x].status = "NONE" \/ k # x
        BY <1>12, <3>1 DEF Consume, TypeOK, TablesOK
      <3>2. CASE latch[x].status # "NONE" /\ k = x
        <4>1. latch[x] \in Row /\ latch \in [Keys -> Row]
          BY <1>12 DEF TypeOK, TablesOK
        <4>2. row.since = latch[x].since
          BY <4>1 DEF Row
        <4>3. latch' = [latch EXCEPT ![x] = row]
          BY <1>12, <3>2, <4>1 DEF Consume, Row
        <4>4. latch'[x] = row
          BY <1>12, <4>1, <4>3
        <4> QED
          BY <3>2, <4>2, <4>4
      <3> QED
        BY <3>1, <3>2
    <2> QED
      BY <1>0, <1>12, <2>1, CountedFrame, SameIfUnchanged
  <1>12a. ASSUME NEW d \in Dispatchers, Complete(d)
          PROVE  Counted(k)'
    <2> DEFINE x == cycle[d].key
    <2>1. x \in Keys /\ cycle' = Skip(d, x)
      BY <1>12a, CycleSound DEF Complete, Sound, Cycle, HolderPcs
    <2>2. cycle'[d].pc \notin HolderPcs /\ \A q \in Dispatchers \ {d} : cycle'[q] = cycle[q]
      BY <2>1, SkipSound, EntryStep DEF HolderPcs
    <2>3. StaysPut(k)
      BY <2>2 DEF StaysPut, Holds
    <2> QED
      BY <1>12, <1>12a, <2>1, <2>3 DEF Complete
  <1>12b. ASSUME NEW d \in Dispatchers, LoseAnswer(d)
          PROVE  Counted(k)'
    <2> DEFINE x == cycle[d].key
    <2>1. x \in Keys /\ Holds(d, x) /\ k \notin contended /\ UNCHANGED missions
      BY <1>12b, CycleSound DEF LoseAnswer, Sound, Cycle, Holds, HolderPcs
    <2>2. /\ cycle'[d].pc = "release" /\ cycle'[d].key = x
          /\ \A q \in Dispatchers \ {d} : cycle'[q] = cycle[q]
      BY <1>12b DEF LoseAnswer, TypeOK, CyclesOK, Cycle
    <2>3. CASE k # x
      <3>1. StaysPut(k)
        BY <2>2, <2>3 DEF StaysPut, Holds
      <3> QED
        BY <1>12, <1>12b, <2>1, <3>1 DEF LoseAnswer
    <2>4. CASE k = x
      <3>1. \A q \in Dispatchers : Holds(q, k)' => q = d
        BY <1>0, <2>1, <2>2, <2>4 DEF Private, Holds
      <3>2. latch[k].status = "PENDING" /\ latch[k] \in Row
        BY <1>0, <1>12b, <2>1, <2>4 DEF Private, LoseAnswer, TypeOK, TablesOK
      <3> DEFINE row == [latch[x] EXCEPT !.status = "CONSUMED", !.old = FALSE]
      <3>3. row.since = latch[x].since
        BY <2>4, <3>2 DEF Row
      <3>4. latch' = [latch EXCEPT ![x] = row]
        BY <1>12b, <2>4, <3>2 DEF LoseAnswer, Consume
      <3> HIDE DEF row
      <3>5. latch'[k].since = latch[k].since
        BY <2>1, <2>4, <3>3, <3>4 DEF TypeOK, TablesOK
      <3>6. Distinct(k, latch[k].since)'
        BY <1>0, <2>1, <3>2, <3>5 DEF Counted, Distinct
      <3> QED
        BY <2>2, <3>1, <3>6 DEF Counted
    <2> QED
      BY <2>3, <2>4
  <1>13. ASSUME NEW d \in Dispatchers, Crash(d)
         PROVE  Counted(k)'
    BY <1>13, RestQuiet, CountedQuiet DEF Crash, Quiet
  <1>14. ASSUME NEW x \in Keys, Appear(x) \/ Vanish(x)
         PROVE  Counted(k)'
    BY <1>1, <1>14 DEF Appear, Vanish
  <1>15. CASE UNCHANGED vars
    BY <1>1, <1>15 DEF vars
  <1> QED
    BY <1>2, <1>3, <1>4, <1>5, <1>7, <1>8, <1>8a, <1>9, <1>10, <1>11, <1>12a,
     <1>12b, <1>13, <1>14, <1>15
       DEF Next, Step

LEMMA CountedAlways == Spec => [](TypeOK /\ AllPrivate /\ AllCounted)
  <1>1. Init => TypeOK /\ AllPrivate /\ AllCounted
    BY TypeInit, PrivateInit, CountedInit
  <1>2. TypeOK /\ AllPrivate /\ AllCounted /\ [Next]_vars =>
          (TypeOK /\ AllPrivate /\ AllCounted)'
    BY TypeStep, PrivateStep, CountedStep
  <1> QED
    BY <1>1, <1>2, PTL DEF Spec

\* LatchedOnce holds throughout: a latch that is not contended asks for one mission of
\* an objective in its life, however often the supervisors that hold it die or fail.
THEOREM OneMissionPerObjective == Spec => []LatchedOnce
  <1>1. AllCounted => LatchedOnce
    BY DEF AllCounted, Counted, Distinct, LatchedOnce
  <1> QED
    BY <1>1, CountedAlways, PTL

\* DedupeHolds holds throughout: two missions of one context and objective are open
\* together only if the context was contended when the second was created.
THEOREM DedupeBehindLatch == Spec => DedupeHolds
  <1>1. ASSUME TypeOK, AllCounted, [Next]_vars, NEW k \in Keys,
               NEW i \in DOMAIN missions'[k], NEW j \in DOMAIN missions'[k],
               i < j, j \notin DOMAIN missions[k], missions'[k][i].open,
               missions'[k][i].objective = missions'[k][j].objective
        PROVE  k \in contended
    <2>1. missions \in [Keys -> Seq(Mission)] /\ missions[k] \in Seq(Mission)
      BY <1>1 DEF TypeOK, TablesOK
    <2>2. CASE missions'[k] = missions[k]
      BY <1>1, <2>2
    <2>3. ASSUME NEW x \in Keys, NEW n \in DOMAIN missions[x], Settle(x, n)
          PROVE  FALSE
      <3>1. DOMAIN missions'[k] = DOMAIN missions[k]
        BY <2>1, <2>3 DEF Settle
      <3> QED
        BY <1>1, <3>1
    <2>4. ASSUME NEW d \in Dispatchers, Create(d)
          PROVE  k \in contended
      <3>1. CASE cycle[d].key # k
        BY <2>1, <2>2, <2>4, <3>1 DEF Create
      <3>2. CASE cycle[d].key = k
        <4> DEFINE m == [objective |-> cycle[d].asked, open |-> TRUE]
        <4>1. missions'[k] = Append(missions[k], m) /\ m.objective = cycle[d].asked
          BY <2>1, <2>4, <3>2 DEF Create
        <4> HIDE DEF m
        <4>2. /\ i \in DOMAIN missions[k] /\ missions'[k][i] = missions[k][i]
              /\ missions'[k][j] = m
          BY <1>1, <2>1, <4>1
        <4>3. Holds(d, k) /\ cycle[d].pc = "create"
          BY <2>4, <3>2 DEF Create, Holds, HolderPcs
        <4> QED
          BY <1>1, <4>1, <4>2, <4>3 DEF AllCounted, Counted, NoneOpen
      <3> QED
        BY <3>1, <3>2
    <2> QED
      BY <1>1, <2>2, <2>3, <2>4
         DEF Next, Step, vars, Appear, Vanish, Lapse, Scan, FindQuietly, FindWithOpen,
             FindWithoutOpen, FindAbsent, DropAbsent, Acquire, Reclaim, Search, Lookup,
             Complete, LoseAnswer, Release, FailRequest, Crash
  <1>2. TypeOK /\ AllCounted /\ [Next]_vars =>
          [\A k \in Keys : \A i, j \in DOMAIN missions'[k] :
             /\ i < j /\ j \notin DOMAIN missions[k]
             /\ missions'[k][i].open /\ missions'[k][i].objective = missions'[k][j].objective
             => k \in contended]_vars
    BY <1>1
  <1> QED
    BY <1>2, CountedAlways, PTL DEF Spec, DedupeHolds
=============================================================================
