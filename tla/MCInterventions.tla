-------------------------- MODULE MCInterventions --------------------------
(***************************************************************************)
(* A print's adjustments and its sessions, to its close: interventions     *)
(* with two requests, both for the one other value the machine can hold    *)
(* (Interventions), and the agent's sessions (AgentSessions).  They share  *)
(* no state, so a behaviour is of one of them.                             *)
(***************************************************************************)
EXTENDS Interventions, AgentSessions, TLC

CONSTANTS r1, r2, v0, v1, h1, h2

OneRequest == {r1}
TwoRequests == {r1, r2}
TwoValues == {v0, v1}
TwoIdentities == {h1, h2}
Symmetric == Permutations(TwoRequests) \union Permutations(TwoIdentities)
WantOther == [r \in Requests |-> v1]

VARIABLE part \* which of the two moves, all along
MCInit == Init /\ SessionsInit /\ part \in {"interventions", "sessions"}
MCNext == /\ \/ part = "interventions" /\ Next /\ UNCHANGED sessions
             \/ part = "sessions" /\ SessionsNext /\ UNCHANGED vars
          /\ UNCHANGED part
MCSpec == MCInit /\ [][MCNext]_<<vars, sessions, part>>
=============================================================================
