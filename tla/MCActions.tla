----------------------------- MODULE MCActions -----------------------------
(***************************************************************************)
(* What an agent's requests come to: the pause of the detector's they      *)
(* adjust (DetectorPause, with the agent's adjustment and one more request *)
(* of anybody's), the interval between them (AgentPacing), and the         *)
(* recoveries asked of the printer (Recovery, two of them in flight).  The *)
(* three share no state, so a behaviour is of one of them.                 *)
(***************************************************************************)
EXTENDS DetectorPause, AgentPacing, Recovery

CONSTANTS r1, r2, m1, m2
MCRequests == {r1, r2}
MCAsks ==
  [r \in MCRequests |-> {<<"agent", "adjust">>} \union
     (IF r = r1 THEN {} ELSE {<<"agent", "acknowledge">>, <<"operator", "resume">>, <<"operator", "cancel">>})]
MCGranted == [c \in Classes |-> Kinds]

MCMoves == {m1, m2}
MCMayMove == [c \in Movers |-> MoveKinds]

VARIABLE part \* which of the three moves, all along
MCInit == Init /\ PacingInit /\ RecoveryInit /\ part \in {"pause", "pacing", "recovery"}
MCNext == /\ \/ part = "pause" /\ Next /\ UNCHANGED <<pacing, recovery>>
             \/ part = "pacing" /\ PacingNext /\ UNCHANGED <<vars, recovery>>
             \/ part = "recovery" /\ RecoveryNext /\ UNCHANGED <<vars, pacing>>
          /\ UNCHANGED part
MCSpec == MCInit /\ [][MCNext]_<<vars, pacing, recovery, part>> /\ Fairness
=============================================================================
