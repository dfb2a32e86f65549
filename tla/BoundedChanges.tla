---------------------------- MODULE BoundedChanges ----------------------------
(***************************************************************************)
(* What the interventions of printobserver promise whoever reads them: a   *)
(* change is opened once and settled once, with an outcome that never      *)
(* changes; one superseded was superseded by another that was opened; one  *)
(* recorded as restored had its prior value put back at the machine; and   *)
(* no life of the server puts a value back twice, or one already settled   *)
(* without being superseded.                                               *)
(***************************************************************************)
CONSTANT Changes

VARIABLES outcome,  \* outcome[i]: "none" before it is opened, then "active", then what became of it
          putBack   \* the changes whose prior value this life of the server put back

Settled == {"restored", "unavailable", "failed", "superseded"}

Init == outcome = [i \in Changes |-> "none"] /\ putBack = {}

Open(i) ==
  /\ outcome[i] = "none"
  /\ outcome' = [outcome EXCEPT ![i] = "active"]
  /\ UNCHANGED putBack

\* A value may be on its way back as another change supersedes this one.
PutBack(i) ==
  /\ outcome[i] \in {"active", "superseded"}
  /\ i \notin putBack
  /\ putBack' = putBack \union {i}
  /\ UNCHANGED outcome

Settle(i, as) ==
  /\ outcome[i] = "active"
  /\ as = "restored" => i \in putBack
  /\ as = "superseded" => \E j \in Changes \ {i} : outcome[j] # "none"
  /\ outcome' = [outcome EXCEPT ![i] = as]
  /\ UNCHANGED putBack

\* A restart remembers no restoration it did not record.
Restart ==
  /\ putBack' = {}
  /\ UNCHANGED outcome

Next ==
  \/ \E i \in Changes : Open(i) \/ PutBack(i) \/ \E as \in Settled : Settle(i, as)
  \/ Restart

Spec == Init /\ [][Next]_<<outcome, putBack>>
=============================================================================
