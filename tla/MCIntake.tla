------------------------------ MODULE MCIntake ------------------------------
(* Intake with two handlers, one kind of work, or two, at a time. *)
EXTENDS Intake, TLC

CONSTANTS push1, push2, push3, upd1, upd2, closed, snap1, snap2, snap3, plain, risky,
          rule, app, lib

\* The pushes have one identity and one context; the updates one hash.  Two states of app
\* are scanned, and one of lib.
MCSignals == {push1, push2, push3, upd1, upd2, closed, snap1, snap2, snap3}
MCScans == {snap1, snap2, snap3}
MCRepoOf == snap1 :> app @@ snap2 :> app @@ snap3 :> lib
MCPolicy == [s \in MCSignals |->
  IF s \in {upd1, upd2} THEN "UNLESS_SIMILAR"
  ELSE IF s \in {closed, snap3} THEN "IGNORE"
  ELSE IF s = snap2 THEN "DEFER" ELSE "CONVERT_CANDIDATE"]
MCHash == push1 :> 1 @@ push2 :> 2 @@ push3 :> 3 @@ upd1 :> 4 @@ upd2 :> 4
          @@ closed :> 5 @@ snap1 :> 6 @@ snap2 :> 7 @@ snap3 :> 8
MCIdentity == [w \in MCSignals \cup {plain, risky} |->
  CASE w \in {push1, push2, push3} -> 1 [] w \in {upd1, upd2} -> 2
    [] w = closed -> 3 [] w \in MCScans -> 4 [] OTHER -> 0]
MCContext == [w \in MCSignals \cup {plain, risky} |->
  CASE w \in {push1, push2, push3} -> 1 [] w = snap1 -> 2 [] w = snap2 -> 3
    [] w = snap3 -> 4 [] OTHER -> 0]

MCWorkloads == {{push1, push2, push3}, {upd1, upd2}, {closed, rule}, {snap1, snap2},
                {snap2, snap3}, {plain}, {risky}, {rule}}
=============================================================================
