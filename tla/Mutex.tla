------------------------------- MODULE Mutex -------------------------------
(***************************************************************************)
(* What every lock of the supervisor promises: at any moment at most one   *)
(* caller owns a print's turn, a caller comes to own it only while nobody  *)
(* does, and only its owner gives it up.  TurnLocks is shown to implement  *)
(* this, and the modules that use a lock use it in this form: one step     *)
(* that takes a free lock, one that gives it up.                           *)
(***************************************************************************)
CONSTANTS Callers,  \* the tasks that may want a turn
          Prints    \* the prints a turn is of

VARIABLE owner      \* owner[p]: the callers owning p's turn

TypeOK == owner \in [Prints -> SUBSET Callers]

Init == owner = [p \in Prints |-> {}]

\* A caller takes a turn nobody owns.
Take(c, p) == owner[p] = {} /\ owner' = [owner EXCEPT ![p] = {c}]

\* The owner gives its turn up.
Give(c, p) == owner[p] = {c} /\ owner' = [owner EXCEPT ![p] = {}]

Next == \E c \in Callers, p \in Prints : Take(c, p) \/ Give(c, p)

Spec == Init /\ [][Next]_owner
=============================================================================
