--------------------------- MODULE MissionAnswer ---------------------------
(***************************************************************************)
(* What a coordinated mission promises to whoever asked for it: work is    *)
(* delegated while the mission is open, and once the coordinator waits for *)
(* it, an answer is prepared only when no delegated work is pending.  A    *)
(* mission may also be answered directly, or fail while it is open.        *)
(***************************************************************************)

CONSTANT Work   \* the pieces of work that can be delegated

VARIABLES
  stage,    \* open, gathering, answering, answered, failed
  pending   \* delegated work that is not finished

answerVars == <<stage, pending>>

Stage == {"open", "gathering", "answering", "answered", "failed"}

AnswerInit == stage = "open" /\ pending = {}

Delegate ==
  /\ stage = "open"
  /\ pending' \in SUBSET Work /\ pending \subseteq pending'
  /\ UNCHANGED stage

\* Finished work stays finished, also work that a failed mission left behind.
Finish ==
  /\ pending' \in SUBSET pending
  /\ UNCHANGED stage

Gather == stage = "open" /\ stage' = "gathering" /\ UNCHANGED pending

Settle ==
  /\ stage = "open"
  /\ stage' \in {"answered", "failed"}
  /\ UNCHANGED pending

PrepareAnswer ==
  /\ stage = "gathering"
  /\ pending = {}
  /\ stage' = "answering"
  /\ UNCHANGED pending

Answer == stage = "answering" /\ stage' = "answered" /\ UNCHANGED pending

AnswerNext == Delegate \/ Finish \/ Gather \/ Settle \/ PrepareAnswer \/ Answer

AnswerSpec == AnswerInit /\ [][AnswerNext]_answerVars

=============================================================================
