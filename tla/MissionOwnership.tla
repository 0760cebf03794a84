-------------------------- MODULE MissionOwnership --------------------------
(***************************************************************************)
(* What the mission queue promises about ownership, without leases,        *)
(* heartbeats or recoveries: every claim of a mission issues a ticket,     *)
(* numbered by the claims so far, and only the client with the newest      *)
(* ticket of a held mission decides how it goes on.  A ticket may be lost, *)
(* forgotten or revoked at any moment; an old one is worth nothing.        *)
(***************************************************************************)
EXTENDS Naturals

CONSTANTS Missions, Clients, Nobody

VARIABLES
  phase,    \* absent, free, held, handed (to the children), done, dropped
  granted,  \* tickets issued per mission
  ticket    \* what each client holds

ownershipVars == <<phase, granted, ticket>>

Phase == {"absent", "free", "held", "handed", "done", "dropped"}
NoTicket == [m |-> Nobody, n |-> 0]

Newest(c, m) == ticket[c] = [m |-> m, n |-> granted[m]]

\* Some missions may be there already.
OwnershipInit ==
  /\ phase \in [Missions -> {"absent", "free"}]
  /\ granted = [m \in Missions |-> 0]
  /\ ticket = [c \in Clients |-> NoTicket]

\* A claim; the client gets its ticket unless the answer is lost.
Grant(c, m) ==
  /\ phase[m] = "free"
  /\ phase' = [phase EXCEPT ![m] = "held"]
  /\ granted' = [granted EXCEPT ![m] = @ + 1]
  /\ \/ ticket' = [ticket EXCEPT ![c] = [m |-> m, n |-> granted[m] + 1]]
     \/ UNCHANGED ticket

\* The holder completes the mission, hands it to its children, gives it back
\* for a retry or fails it for good.
Decide(c, m) ==
  /\ phase[m] = "held"
  /\ Newest(c, m)
  /\ \E p \in {"done", "handed", "free", "dropped"} : phase' = [phase EXCEPT ![m] = p]
  /\ ticket' \in {ticket, [ticket EXCEPT ![c] = NoTicket]}
  /\ UNCHANGED granted

Forget(c) ==
  /\ ticket' = [ticket EXCEPT ![c] = NoTicket]
  /\ UNCHANGED <<phase, granted>>

\* The mission is taken from whoever holds it.
Revoke(m) ==
  /\ phase[m] = "held"
  /\ phase' = [phase EXCEPT ![m] = "free"]
  /\ UNCHANGED <<granted, ticket>>

\* Steps of the rest of the system, never on a held mission.
Administer(m) ==
  /\ \/ phase[m] \in {"absent", "dropped"} /\ phase' = [phase EXCEPT ![m] = "free"]
     \/ phase[m] \in {"handed", "dropped"} /\ phase' = [phase EXCEPT ![m] = "done"]
     \/ phase[m] \in {"free", "handed"} /\ phase' = [phase EXCEPT ![m] = "dropped"]
  /\ UNCHANGED <<granted, ticket>>

OwnershipNext ==
  \/ \E c \in Clients, m \in Missions : Grant(c, m) \/ Decide(c, m)
  \/ \E c \in Clients : Forget(c)
  \/ \E m \in Missions : Revoke(m) \/ Administer(m)

OwnershipSpec == OwnershipInit /\ [][OwnershipNext]_ownershipVars

=============================================================================
