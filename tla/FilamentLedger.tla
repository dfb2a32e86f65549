--------------------------- MODULE FilamentLedger ---------------------------
(***************************************************************************)
(* What the store holds of one print's filament on one tool, and what one  *)
(* write does to it (printobserver-store-sqlite: ledger.rs;                *)
(* printobserver-core: `PrintLedger`, `feed_to` and the marks of           *)
(* accounting.rs, filament.rs).                                            *)
(*                                                                         *)
(* A ledger is a record.  `segments` holds the print's charges, in the     *)
(* order of their keys: the n-th is what was fed up to where the n-th was  *)
(* closed, charged to a spool, charged to nobody, or held for the next     *)
(* spool loaded.  A length is a number of units of filament, and a spool's *)
(* figure is what has been taken off it.                                   *)
(***************************************************************************)
EXTENDS PrintEnding, Sequences

CONSTANT Spools

\* The marks the one print can leave on a spool.
Change == "filament_change_unconfirmed"
ChangePosition == "filament_change_unconfirmed_position"
Uncharged == "uncharged_print"
Marks == {Change, ChangePosition, Uncharged}
Held == "held" \* whom a pended segment is charged to

ASSUME SpoolConstants == None \notin Spools \union Int /\ Held \notin Spools \union {None}

NewLedger(loaded) ==
  [segments |-> <<>>, spent |-> [s \in Spools |-> 0], loaded |-> loaded,
   marks |-> [s \in Spools |-> {}], retired |-> {}, settled |-> FALSE]

Summed(lengths) ==
  LET upTo[n \in 0 .. Len(lengths)] == IF n = 0 THEN 0 ELSE upTo[n - 1] + lengths[n]
  IN upTo[Len(lengths)]
IsHeld(seg) == seg.to = Held

\* `already_mm`: every length charged or held for the print.
AlreadyFed(l) == Summed([n \in DOMAIN l.segments |-> l.segments[n].length])
\* What is held of them.
HeldFed(l) == Summed([n \in DOMAIN l.segments |-> IF IsHeld(l.segments[n]) THEN l.segments[n].length ELSE 0])

\* `open_segment`: one past the highest charged or held.
OpenSegment(l) == Len(l.segments) + 1

\* `last_spool`: the spool the latest charged segment was charged to.
LastSpool(l) ==
  LET charged == {n \in DOMAIN l.segments : ~IsHeld(l.segments[n])}
  IN IF charged = {} THEN None ELSE l.segments[CHOOSE n \in charged : \A m \in charged : m <= n].to

HoldsChangeMark(l, s) == s # None /\ l.marks[s] \intersect {Change, ChangePosition} # {}

\* The spool an open segment is judged by: the one on the tool, or the one its
\* last segment was charged to.
Judged(l) == IF l.loaded # None THEN l.loaded ELSE LastSpool(l)

\* A charge of segment n to a spool or to nobody: one already charged is left
\* as it is, and one held is held no more.
Charged(l, n, to, length) ==
  LET new == [to |-> to, length |-> length]
      known == n \in DOMAIN l.segments
  IN IF known /\ ~IsHeld(l.segments[n]) THEN l
     ELSE [l EXCEPT !.segments = IF known THEN [@ EXCEPT ![n] = new] ELSE Append(@, new),
                    !.spent = [s \in DOMAIN @ |-> IF s = to THEN @[s] + length ELSE @[s]]]

\* A segment held: one charged or held already is left as it is.
Pended(l, n, length) ==
  IF n \in DOMAIN l.segments THEN l
  ELSE [l EXCEPT !.segments = Append(@, [to |-> Held, length |-> length])]

Marked(l, s, mark) == IF s = None THEN l ELSE [l EXCEPT !.marks[s] = @ \union {mark}]
Cleared(l, s, marks) == [l EXCEPT !.marks[s] = @ \ marks]

\* `take_pending`: every pending charge of the tool is charged to the spool.
PendingTaken(l, s) ==
  [l EXCEPT !.segments = [n \in DOMAIN @ |-> IF IsHeld(@[n]) THEN [@[n] EXCEPT !.to = s] ELSE @[n]],
            !.spent[s] = @ + HeldFed(l)]

\* `marks_cleared_by`.
ClearedBySwap == {Change}
ClearedByConfirming == {Change, ChangePosition}
ClearedByAdjusting == Marks
=============================================================================
