------------------------- MODULE CoordinationLatch -------------------------
(***************************************************************************)
(* The dispatch phase of the operational supervisors, one per process of   *)
(* the API: a cycle turns what its scanners saw into COORDINATE missions,  *)
(* through a table of latches that lets a context (a workspace and a       *)
(* reason) ask for one mission only while it lasts.                        *)
(*                                                                         *)
(* coordination-dispatcher.ts runs the cycle, prisma-coordination-latch-   *)
(* store.ts keeps the latches, mission-scanner.ts and mission-queue.ts are *)
(* read and written between.  Each action is one statement on the          *)
(* database; the statements of several supervisors interleave.             *)
(***************************************************************************)
EXTENDS Naturals, Sequences, FiniteSets

CONSTANTS
  Dispatchers,  \* the supervisors
  Keys,         \* latch keys: a workspace and a reason
  Exhausted,    \* the keys missao_esgotada:<mission>, one for each FAILED mission
  Start,        \* the contexts that are there at first
  Scopes,       \* BOUND of the model: sets of contexts that may come up in one behaviour
  Objectives,   \* Objectives[k]: what buildCoordinationObjective may make of k, and so its
                \* objectiveHash: one objective if the detail of k stays, several if it
                \* varies from scan to scan, as depth=... does for a queue that is congested
  NoKey,        \* not a key
  EventBound    \* BOUND of the model: contexts that come or go, crashes and failures

ASSUME LatchAssumption ==
  /\ Exhausted \subseteq Keys
  /\ Start \subseteq Keys
  /\ Scopes \subseteq SUBSET Keys
  /\ NoKey \notin Keys
  /\ Objectives \in [Keys -> SUBSET Nat \ {{}}]
  /\ EventBound \in Nat

\* Operators named Faulty... are plausible bugs, one line away from the definition
\* that follows; no specification uses them.

VARIABLES
  scope,     \* the contexts that may come up
  visible,   \* the contexts that a scan sees
  latch,     \* latch[k]: the row of k
  missions,  \* missions[k]: the COORDINATE missions of k as they were created, with their
             \* objective and whether they are open
  cycle,     \* cycle[d]: where d is in its cycle, and what it holds in memory
  contended, \* history: keys that were not left to one supervisor, see Contend
  events     \* contexts that came or went, crashes and failures so far

vars == <<scope, visible, latch, missions, cycle, contended, events>>

\* "old": updatedAt is staleAfterMs ago; "since" stands for latchedAt: the number of
\* missions created before it.  The id of the mission is kept for readers only.
NoRow == [status |-> "NONE", since |-> 0, old |-> FALSE]
Fresh(k) == [status |-> "PENDING", since |-> Len(missions[k]), old |-> FALSE]

\* "requests" are the contexts still to be handled, "gone" the rows that
\* releaseAbsent selected: by id, so a row that is inserted later is not one; "asked" is
\* the objective of the request at hand.
Rest == [pc |-> "idle", requests |-> {}, keep |-> {}, gone |-> {},
         key |-> NoKey, since |-> 0, asked |-> 0]

\* A supervisor that acquired the latch of k and has not let go of it.
HolderPcs == {"search", "lookup", "create", "complete", "release"}
Holds(d, k) == cycle[d].pc \in HolderPcs /\ cycle[d].key = k
HeldByOther(d, k) == \E q \in Dispatchers \ {d} : Holds(q, k)

\* Another supervisor is about to reclaim the row of k, or to delete it.
Reclaiming(d, k) == cycle[d].pc = "reclaim" /\ cycle[d].key = k
AimedAt(d, k) == \E q \in Dispatchers \ {d} : Reclaiming(q, k) \/ k \in cycle[q].gone

\* Kept for the properties only.  k is contended when its latch turned old, or was
\* picked for deletion, under a holder that is alive, and when a holder came while
\* another was about to reclaim or to delete; a new row with one holder ends it.
Contend(k, reason) == contended' = IF reason THEN contended \cup {k} ELSE contended

Init ==
  /\ scope \in Scopes
  /\ visible = Start \cap scope
  /\ latch = [k \in Keys |-> NoRow]
  /\ missions = [k \in Keys |-> <<>>]
  /\ cycle = [d \in Dispatchers |-> Rest]
  /\ contended = {}
  /\ events = 0

Event == events < EventBound /\ events' = events + 1 /\ UNCHANGED scope

-----------------------------------------------------------------------------
(* The environment *)

Appear(k) ==
  /\ Event
  /\ k \in scope \ visible
  /\ visible' = visible \cup {k}
  /\ UNCHANGED <<latch, missions, cycle, contended>>

Vanish(k) ==
  /\ Event
  /\ k \in visible
  /\ visible' = visible \ {k}
  /\ UNCHANGED <<latch, missions, cycle, contended>>

\* A worker settles a mission.
Settle(k, i) ==
  /\ missions[k][i].open
  /\ missions' = [missions EXCEPT ![k][i].open = FALSE]
  /\ UNCHANGED <<visible, latch, cycle, contended, events, scope>>

\* staleAfterMs pass.
Lapse(k) ==
  /\ latch[k].status = "PENDING"
  /\ ~latch[k].old
  /\ latch' = [latch EXCEPT ![k].old = TRUE]
  /\ Contend(k, \E d \in Dispatchers : Holds(d, k))
  /\ UNCHANGED <<visible, missions, cycle, events, scope>>

-----------------------------------------------------------------------------
(* The scans, and the release of the latches whose context went away *)

Consumed(k) == latch[k].status = "CONSUMED"

\* The mission scanner leaves out an exhausted mission whose latch is CONSUMED, the
\* dispatcher keeps the latches of all of them.
Scan(d) ==
  /\ cycle[d].pc = "idle"
  /\ cycle' = [cycle EXCEPT ![d] =
       [Rest EXCEPT !.pc = "find",
                    !.requests = {k \in visible : ~(k \in Exhausted /\ Consumed(k))},
                    !.keep = visible \cap Exhausted]]
  /\ UNCHANGED <<visible, latch, missions, contended, events, scope>>

\* buildActiveLatchKeys looks at the reason in the objective only.
OpenKeys == {k \in Keys : \E i \in DOMAIN missions[k] : missions[k][i].open}

\* EscalationStays, without shouldPreserveConsumedExhaustedLatch.
FaultyReleasable(keep) == {k \in Keys : latch[k].status # "NONE" /\ k \notin keep}

Releasable(keep) ==
  {k \in Keys : /\ latch[k].status # "NONE"
                /\ k \notin keep
                /\ ~(k \in Exhausted /\ Consumed(k))}

\* The loop over the requests, or the end of the cycle.
GoOn(d) ==
  IF cycle[d].requests = {} THEN Rest ELSE [cycle[d] EXCEPT !.pc = "next", !.keep = {}, !.gone = {}]

\* releaseAbsent reads the rows and picks ids; open is what the cycle knows of the
\* open missions.
FindAbsent(d, open) ==
  LET S == Releasable(cycle[d].requests \cup cycle[d].keep \cup open) IN
  /\ cycle[d].pc = "find"
  /\ cycle' = [cycle EXCEPT ![d] =
       IF S = {} THEN GoOn(d) ELSE [@ EXCEPT !.pc = "drop", !.keep = {}, !.gone = S]]
  /\ contended' = contended \cup {k \in S : HeldByOther(d, k)}
  /\ UNCHANGED <<visible, latch, missions>>

\* A cycle without requests does not look at the open missions ...
FindQuietly(d) == cycle[d].requests = {} /\ FindAbsent(d, {}) /\ UNCHANGED <<events, scope>>

\* ... buildActiveLatchKeys of one with requests does ...
FindWithOpen(d) == cycle[d].requests # {} /\ FindAbsent(d, OpenKeys) /\ UNCHANGED <<events, scope>>

\* ... unless its query fails.
FindWithoutOpen(d) == cycle[d].requests # {} /\ FindAbsent(d, {}) /\ Event

\* TypeOK, when releaseAbsent deletes by key.
FaultyDeleteRows(d, S, after) ==
  /\ latch' = [k \in Keys |-> IF k \in S THEN NoRow ELSE latch[k]]
  /\ cycle' = [cycle EXCEPT ![d] = after]

\* d deletes the rows of S: no list of ids has one of theirs any more.
DeleteRows(d, S, after) ==
  /\ latch' = [k \in Keys |-> IF k \in S THEN NoRow ELSE latch[k]]
  /\ cycle' = [q \in Dispatchers |-> IF q = d THEN after ELSE [cycle[q] EXCEPT !.gone = @ \ S]]

\* The rows are deleted later, whatever they have become.
DropAbsent(d) ==
  /\ cycle[d].pc = "drop"
  /\ DeleteRows(d, cycle[d].gone, GoOn(d))
  /\ UNCHANGED <<visible, missions, contended, events, scope>>

-----------------------------------------------------------------------------
(* One request: tryAcquire *)

\* The request is done with, acquired or not, and the cycle too if it was the last.
Skip(d, k) ==
  LET left == cycle[d].requests \ {k} IN
  [cycle EXCEPT ![d] = IF left = {} THEN Rest
                       ELSE [Rest EXCEPT !.pc = "next", !.requests = left]]

\* HolderIsExclusive, when every PENDING row is taken for an orphan.
FaultyAcquire(d, k) ==
  /\ cycle[d].pc = "next"
  /\ k \in cycle[d].requests
  /\ IF latch[k].status = "NONE"
       THEN /\ latch' = [latch EXCEPT ![k] = Fresh(k)]
            /\ \E o \in Objectives[k] :
                 cycle' = [cycle EXCEPT ![d] = [@ EXCEPT !.pc = "lookup", !.key = k, !.asked = o]]
            /\ contended' = IF HeldByOther(d, k) \/ AimedAt(d, k)
                              THEN contended \cup {k} ELSE contended \ {k}
       ELSE /\ cycle' = IF latch[k].status = "PENDING"
                         THEN [cycle EXCEPT ![d].pc = "reclaim", ![d].key = k]
                         ELSE Skip(d, k)
            /\ UNCHANGED <<latch, contended>>
  /\ UNCHANGED <<visible, missions, events, scope>>

\* ContextIsServed, when nobody reclaims.
FaultyAcquireOnce(d, k) ==
  /\ cycle[d].pc = "next"
  /\ k \in cycle[d].requests
  /\ IF latch[k].status = "NONE"
       THEN /\ latch' = [latch EXCEPT ![k] = Fresh(k)]
            /\ \E o \in Objectives[k] :
                 cycle' = [cycle EXCEPT ![d] = [@ EXCEPT !.pc = "lookup", !.key = k, !.asked = o]]
            /\ contended' = IF HeldByOther(d, k) \/ AimedAt(d, k)
                              THEN contended \cup {k} ELSE contended \ {k}
       ELSE /\ cycle' = Skip(d, k)
            /\ UNCHANGED <<latch, contended>>
  /\ UNCHANGED <<visible, missions, events, scope>>

\* The requests come in the order of the scans' lists: any.  An INSERT that conflicts
\* has no effect, and is one step with onConflict's read: if that finds no row, the
\* INSERT is tried again.  A PENDING row has no lastMissionId, complete() sets both.
\* The objective comes after it: what the scans of this cycle saw decides on the detail.
Acquire(d, k) ==
  /\ cycle[d].pc = "next"
  /\ k \in cycle[d].requests
  /\ IF latch[k].status = "NONE"
       THEN /\ latch' = [latch EXCEPT ![k] = Fresh(k)]
            /\ \E o \in Objectives[k] :
                 cycle' = [cycle EXCEPT ![d] = [@ EXCEPT !.pc = "lookup", !.key = k, !.asked = o]]
            /\ contended' = IF HeldByOther(d, k) \/ AimedAt(d, k)
                              THEN contended \cup {k} ELSE contended \ {k}
       ELSE /\ cycle' = IF latch[k].status = "PENDING" /\ latch[k].old
                         THEN [cycle EXCEPT ![d].pc = "reclaim", ![d].key = k]
                         ELSE Skip(d, k)
            /\ UNCHANGED <<latch, contended>>
  /\ UNCHANGED <<visible, missions, events, scope>>

\* reclaimStalePending does not look at the age again.
Reclaim(d) ==
  LET k == cycle[d].key IN
  /\ cycle[d].pc = "reclaim"
  /\ IF latch[k].status = "PENDING"
       THEN /\ latch' = [latch EXCEPT ![k].old = FALSE]
            /\ \E o \in Objectives[k] :
                 cycle' = [cycle EXCEPT ![d] =
                   [@ EXCEPT !.pc = "search", !.since = latch[k].since, !.asked = o]]
            /\ Contend(k, AimedAt(d, k))
       ELSE /\ cycle' = Skip(d, k)
            /\ UNCHANGED <<latch, contended>>
  /\ UNCHANGED <<visible, missions, events, scope>>

-----------------------------------------------------------------------------
(* One request: the mission *)

\* The missions of d's objective: those since latchedAt, and those that are open.
Alike(d) ==
  {i \in DOMAIN missions[cycle[d].key] : missions[cycle[d].key][i].objective = cycle[d].asked}
Recent(d) == {i \in Alike(d) : i > cycle[d].since}
OpenOnes(d) == {i \in Alike(d) : missions[cycle[d].key][i].open}

\* A query for a mission: any of its matches will do.
Query(d, matches, otherwise) ==
  cycle' = [cycle EXCEPT ![d].pc = IF matches # {} THEN "complete" ELSE otherwise]

\* LatchedOnce, when a mission that is settled does not count.
FaultySearch(d) ==
  /\ cycle[d].pc = "search"
  /\ Query(d, Recent(d) \cap OpenOnes(d), "lookup")
  /\ UNCHANGED <<visible, latch, missions, contended, events, scope>>

\* After a reclaim: what the dead holder created since latchedAt, settled or not, if it
\* had the same objective.
Search(d) ==
  /\ cycle[d].pc = "search"
  /\ Query(d, Recent(d), "lookup")
  /\ UNCHANGED <<visible, latch, missions, contended, events, scope>>

\* DedupeHolds, without the query.
FaultyLookup(d) ==
  /\ cycle[d].pc = "lookup"
  /\ cycle' = [cycle EXCEPT ![d].pc = "create"]
  /\ UNCHANGED <<visible, latch, missions, contended, events, scope>>

\* enqueue with dedupe: an open mission of the same objective will do ...
Lookup(d) ==
  /\ cycle[d].pc = "lookup"
  /\ Query(d, OpenOnes(d), "create")
  /\ UNCHANGED <<visible, latch, missions, contended, events, scope>>

\* ... or else one is created, and an event of it, which nothing here reads.
Create(d) ==
  /\ cycle[d].pc = "create"
  /\ missions' = [missions EXCEPT ![cycle[d].key] =
       Append(@, [objective |-> cycle[d].asked, open |-> TRUE])]
  /\ cycle' = [cycle EXCEPT ![d].pc = "complete"]
  /\ UNCHANGED <<visible, latch, contended, events, scope>>

Consume(k) ==
  latch' = IF latch[k].status = "NONE" THEN latch
           ELSE [latch EXCEPT ![k].status = "CONSUMED", ![k].old = FALSE]

\* complete() finds the row by its key: none, or that of another holder, will do.
Complete(d) ==
  /\ cycle[d].pc = "complete"
  /\ Consume(cycle[d].key)
  /\ cycle' = Skip(d, cycle[d].key)
  /\ UNCHANGED <<visible, missions, contended, events, scope>>

\* It commits, but its answer is lost, which is an error to its caller.
LoseAnswer(d) ==
  /\ Event
  /\ cycle[d].pc = "complete"
  /\ Consume(cycle[d].key)
  /\ cycle' = [cycle EXCEPT ![d].pc = "release"]
  /\ UNCHANGED <<visible, missions, contended>>

\* release() deletes by the key too, and the error ends the cycle.
Release(d) ==
  /\ cycle[d].pc = "release"
  /\ DeleteRows(d, {cycle[d].key}, Rest)
  /\ UNCHANGED <<visible, missions, contended, events, scope>>

\* A statement of the try block fails without effect, in one step with the release;
\* that of Create may fail after its insert, which is a Complete that fails.
FailRequest(d) ==
  /\ Event
  /\ cycle[d].pc \in HolderPcs \ {"release"}
  /\ DeleteRows(d, {cycle[d].key}, Rest)
  /\ UNCHANGED <<visible, missions, contended>>

\* The process dies, or a statement outside the try block fails and ends the cycle.
Crash(d) ==
  /\ Event
  /\ cycle[d].pc # "idle"
  /\ cycle' = [cycle EXCEPT ![d] = Rest]
  /\ UNCHANGED <<visible, latch, missions, contended>>

-----------------------------------------------------------------------------
Step(d) ==
  \/ Scan(d) \/ FindQuietly(d) \/ FindWithOpen(d) \/ FindWithoutOpen(d) \/ DropAbsent(d)
  \/ \E k \in Keys : Acquire(d, k)
  \/ Reclaim(d)
  \/ Search(d) \/ Lookup(d) \/ Create(d) \/ Complete(d) \/ Release(d)

Next ==
  \/ \E d \in Dispatchers : Step(d) \/ LoseAnswer(d) \/ FailRequest(d) \/ Crash(d)
  \/ \E k \in Keys : Appear(k) \/ Vanish(k) \/ Lapse(k)
  \/ \E k \in Keys : \E i \in DOMAIN missions[k] : Settle(k, i)

Spec == Init /\ [][Next]_vars

\* Supervisors loop for ever, each statement returns or fails, and time passes.
Fairness ==
  /\ \A d \in Dispatchers : WF_vars(Step(d))
  /\ \A k \in Keys : WF_vars(Lapse(k))

FairSpec == Spec /\ Fairness

-----------------------------------------------------------------------------
(* Properties *)

Pcs == {"idle", "find", "drop", "next", "reclaim"} \cup HolderPcs

Cycle == [pc : Pcs, requests : SUBSET Keys, keep : SUBSET Keys, gone : SUBSET Keys,
          key : Keys \cup {NoKey}, since : Nat, asked : Nat]
Row == [status : {"NONE", "PENDING", "CONSUMED"}, since : Nat, old : BOOLEAN]
Mission == [objective : Nat, open : BOOLEAN]

TablesOK ==
  /\ latch \in [Keys -> Row]
  /\ missions \in [Keys -> Seq(Mission)]
  /\ \A k \in Keys : latch[k].since <= Len(missions[k])

CyclesOK ==
  /\ cycle \in [Dispatchers -> Cycle]
  /\ \A d \in Dispatchers :
       /\ cycle[d].pc \in {"reclaim"} \cup HolderPcs => cycle[d].key \in cycle[d].requests
       /\ cycle[d].gone # {} => cycle[d].pc = "drop"

\* Types, and what a row or a cycle at a given point is known to have.
TypeOK ==
  /\ TablesOK
  /\ CyclesOK
  /\ \A d \in Dispatchers : \A k \in cycle[d].gone : latch[k].status # "NONE"
  /\ scope \in Scopes /\ visible \subseteq scope
  /\ contended \subseteq Keys
  /\ events \in 0..EventBound

\* Two supervisors are at work on one context only if one of them reclaimed a latch
\* whose holder was alive, or a latch was released under its holder; a crash, an
\* error, a context that comes and goes, or time are not enough.
HolderIsExclusive ==
  \A k \in Keys, d, q \in Dispatchers :
    d # q /\ Holds(d, k) /\ Holds(q, k) => k \in contended

\* A latch asks for one mission per objective in its life, however often its holders
\* die on the way and although the mission may be settled before the next one comes; so
\* for one mission, if the detail of its context stays.
LatchedOnce ==
  \A k \in Keys :
    latch[k].status # "NONE" /\ k \notin contended =>
      \A i, j \in DOMAIN missions[k] :
        latch[k].since < i /\ i < j => missions[k][i].objective # missions[k][j].objective

\* enqueue's query and insert are two statements, and only the latch keeps two
\* missions of one objective from being open together.
DedupeHolds ==
  [][\A k \in Keys : \A i, j \in DOMAIN missions'[k] :
       /\ i < j /\ j \notin DOMAIN missions[k]
       /\ missions'[k][i].open /\ missions'[k][i].objective = missions'[k][j].objective
       => k \in contended]_vars

\* The latch of a delivered escalation is never released, although scans that missed
\* its mission release what they did not see, unless its holder was not told that
\* complete() had committed.
EscalationStays ==
  [][\A k \in Exhausted : Consumed(k) /\ ~Consumed(k)' =>
       \/ k \in contended
       \/ \E d \in Dispatchers : cycle[d].pc = "release" /\ cycle[d].key = k]_vars

\* A context that stays is delivered in the end, whoever dies on the way: again and
\* again it is gone, or its latch is CONSUMED.
ContextIsServed ==
  \A k \in Keys : []<>(k \notin visible \/ Consumed(k))
=============================================================================
