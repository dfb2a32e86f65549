------------------------------ MODULE MCServer ------------------------------
(***************************************************************************)
(* What the server's tasks share: a print's turn (TurnLocks), the          *)
(* credentials of its runs (TurnCredentials), the log that is followed     *)
(* (EventStream) and the channel of the ingress (Ingress).  They share no  *)
(* state with one another, so a behaviour is of one of them.  Three        *)
(* callers are a holder, a parked one and one that barges in; two prints   *)
(* let a waker registered with one queue reach a caller parked on the      *)
(* other; of three turns two are of one print, and the first has two runs, *)
(* as one that is asked again has.                                         *)
(***************************************************************************)
EXTENDS TurnLocks, TurnCredentials, EventStream, Ingress

CONSTANTS c1, c2, c3, s1, s2, s3, p1, p2, r1, r2, r3, r4
MCCallers == {c1, c2, c3}
MCScopes == {s1, s2, s3}
MCRuns == {r1, r2, r3, r4}
MCPrints == {p1, p2}
MCPrintOf == [s \in MCScopes |-> IF s = s3 THEN p2 ELSE p1]
MCScopeOf == [r \in MCRuns |-> CASE r \in {r1, r2} -> s1 [] r = r3 -> s2 [] r = r4 -> s3]

VARIABLE part \* which of the four moves, all along
MCInit == /\ Init /\ CredentialsInit /\ StreamInit /\ IngressInit
          /\ part \in {"turns", "credentials", "stream", "ingress"}
          /\ part # "turns" => about = [c \in Callers |-> p1]
          /\ part # "stream" => scoped
MCNext == /\ \/ part = "turns" /\ Next /\ UNCHANGED <<credentials, stream, ingress>>
             \/ part = "credentials" /\ CredentialsNext /\ UNCHANGED <<vars, stream, ingress>>
             \/ part = "stream" /\ StreamNext /\ UNCHANGED <<vars, credentials, ingress>>
             \/ part = "ingress" /\ IngressNext /\ UNCHANGED <<vars, credentials, stream>>
          /\ UNCHANGED part
MCSpec == /\ MCInit /\ [][MCNext]_<<vars, credentials, stream, ingress, part>>
          /\ Fairness /\ StreamFairness /\ IngressFairness
=============================================================================
