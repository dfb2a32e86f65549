---------------------------- MODULE ActionPolicy ----------------------------
(***************************************************************************)
(* The decision policy takes on one request (printobserver-core:           *)
(* decision.rs, bounds.rs).  A request is a record of what `DecisionInput` *)
(* holds; a time is a whole number of seconds and a value is a number.     *)
(***************************************************************************)
EXTENDS Integers

CONSTANTS
  Granted, \* Granted[c]: the kinds the envelope's `actions` grants actor class c
  Interval \* the envelope's `agent_min_interval_s`

Classes == {"agent", "operator", "system"}
SpoolKinds == {"register", "load", "unload", "adjust_spool", "retire"}
RecordKinds == {"acknowledge", "close"} \union SpoolKinds
MachineKinds == {"pause", "resume", "cancel", "start", "adjust"}
Kinds == RecordKinds \union MachineKinds
States == {"printing", "paused", "operational", "error", "offline"}
Unread == "unread" \* the snapshot could not be read
NoChange == -100   \* the agent has made no change to the machine yet

ASSUME PolicyConstants == Granted \in [Classes -> SUBSET Kinds] /\ Interval \in Nat

Adjusts(kind) == kind = "adjust"

ChangesTheMachine(kind) == kind \notin RecordKinds

\* The states each kind of change makes sense from.
ValidFrom(kind) ==
  CASE kind = "pause" -> {"printing"}
    [] kind = "resume" -> {"paused"}
    [] kind = "start" -> {"operational"}
    [] kind \in {"cancel", "adjust"} -> {"printing", "paused"}
    [] kind \in RecordKinds -> States

In(range, v) == range.min <= v /\ v <= range.max

\* The envelope's ranges intersected with the manifest's, over the envelope's
\* adjustables only: a pair of maximum of minima and minimum of maxima.
Applied(permitted, asked) ==
  [min |-> IF permitted.min > asked.min THEN permitted.min ELSE asked.min,
   max |-> IF permitted.max < asked.max THEN permitted.max ELSE asked.max]
EffectiveBounds(envelope, manifest) ==
  [a \in DOMAIN envelope |->
     IF a \in DOMAIN manifest THEN Applied(envelope[a], manifest[a]) ELSE envelope[a]]

\* The adjustables the manifest is said to have been narrowed for.
Narrowings(envelope, manifest) ==
  {a \in DOMAIN envelope \intersect DOMAIN manifest :
     manifest[a].min < envelope[a].min \/ manifest[a].max > envelope[a].max}

\* The agent changed the machine too lately to change it again, and not under
\* a pause, where nothing an adjustment does can show.
TooSoon(q) ==
  /\ q.class = "agent" /\ ChangesTheMachine(q.kind)
  /\ ~(Adjusts(q.kind) /\ q.state = "paused")
  /\ q.since # NoChange /\ q.since < Interval

\* The first of the refusals that applies, in the order they are asked.
Decide(q) ==
  IF q.kind = "close" /\ q.print = "ended" THEN "print_already_ended"
  ELSE IF q.print # "open" THEN "no_active_print"
  ELSE IF q.kind \notin Granted[q.class] THEN "actor_may_not_request"
  ELSE IF TooSoon(q) THEN "min_interval_not_elapsed"
  ELSE IF q.state # Unread /\ q.state \notin ValidFrom(q.kind) THEN "invalid_from_state"
  ELSE IF Adjusts(q.kind) /\ q.adjustable \notin DOMAIN q.bounds THEN "unsupported_adjustable"
  ELSE IF Adjusts(q.kind) /\ ~In(q.bounds[q.adjustable], q.value) THEN "out_of_bounds"
  ELSE "accepted"
=============================================================================
