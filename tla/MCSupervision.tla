---------------------------- MODULE MCSupervision ----------------------------
(***************************************************************************)
(* What must be reached in the end: by an alert, through store failures    *)
(* (Supervision, with two alerts, one observation and one look), and by an *)
(* intervention, through crashes (Interventions, with one request, two     *)
(* prints and two crashes, the second of which may fall into the recovery  *)
(* from the first).  They share no state, so a behaviour is of one.        *)
(***************************************************************************)
EXTENDS Supervision, Interventions

CONSTANTS o1, l1, r1, v0, v1

OneObservation == {o1}
OneLook == {l1}
OneRequest == {r1}
TwoValues == {v0, v1}
WantOther == [r \in Requests |-> v1]

VARIABLE part \* which of the two moves, all along
MCInit == Init /\ SupervisionInit /\ part \in {"supervision", "interventions"}
MCNext == /\ \/ part = "supervision" /\ SupervisionNext /\ UNCHANGED vars
             \/ part = "interventions" /\ Next /\ UNCHANGED supervision
          /\ UNCHANGED part
\* No action that is fair can be taken as a part begins, so the part that does
\* not move owes no step.
MCSpec == /\ MCInit /\ [][MCNext]_<<vars, supervision, part>>
          /\ Fairness /\ SupervisionFairness
=============================================================================
