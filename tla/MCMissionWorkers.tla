-------------------------- MODULE MCMissionWorkers --------------------------
(* MissionWorkers on small instances; the cfg files choose the faults. *)
EXTENDS MissionWorkers, TLC

CONSTANTS m1, m2, ana, bia, w1, w2

\* Each employee runs in one process / one employee runs in two.
OwnEmployee == (w1 :> ana) @@ (w2 :> bia)
SharedEmployee == [w \in Workers |-> ana]

AllServe == [m \in Missions |-> Employees]
OneAttempt == [m \in Missions |-> 1]
TwoAttempts == [m \in Missions |-> 2]
\* The two processes of one employee, and two missions of the same kind, are
\* interchangeable (only for runs of safety properties).
WorkerSymmetry == Permutations({w1, w2})
MissionSymmetry == Permutations({m1, m2})

\* One attempt more than PurgeAttempts: a purged row is then retryable again.
ThreeAttempts == [m \in Missions |-> 3]
=============================================================================
