---------------------------- MODULE MCOperations ----------------------------
(* Operations with four tasks, two of one title, and outcomes that name none. *)
EXTENDS Operations, TLC

CONSTANTS old, new, other, more, c1, r1, w1, w2, h1, h2

MCAge == other :> 1 @@ new :> 2 @@ old :> 3 @@ more :> 4
MCTitle == old :> "named" @@ new :> "named" @@ other :> "other" @@ more :> "more"
MCRootOf == c1 :> r1
MCOutcomes == c1 :> {"named", "elsewhere", "nowhere"}

Board(a, b, c, d) == old :> a @@ new :> b @@ other :> c @@ more :> d
Load(b, hs, n, e) == [board |-> b, callers |-> hs, edits |-> n, events |-> e]

\* The board is edited while nobody waits, or requests wait while the board is small.
MCLoads == {
  Load(Board("TODO", "TODO", "NONE", "TODO"), {}, 1, 2),
  Load(Board("DONE", "TODO", "BLOCKED", "TODO"), {}, 1, 2),
  Load(Board("DONE", "NONE", "TODO", "BLOCKED"), {}, 1, 1),
  Load(Board("IN_PROGRESS", "BLOCKED", "IN_PROGRESS", "NONE"), {}, 2, 1),
  Load(Board("DONE", "NONE", "NONE", "NONE"), {h1, h2}, 0, 1),
  Load(Board("TODO", "DONE", "BLOCKED", "NONE"), {h1}, 0, 0)}
=============================================================================
