----------------------------- MODULE MCFilament -----------------------------
(***************************************************************************)
(* What prints take from the spools: one print of two units and two        *)
(* filament changes with two spools (Filament), and the prints of a file   *)
(* that nobody watched (UnobservedPrints).  Each writes under the one lock *)
(* and the second runs before any print is watched, so a behaviour is of   *)
(* the one or of the other.                                                *)
(***************************************************************************)
EXTENDS Filament, UnobservedPrints

CONSTANTS red, blue
MCSpools == {red, blue}

VARIABLE part \* which of the two moves, all along
MCInit == /\ FilamentInit /\ UnobservedInit /\ part \in {"watched", "unobserved"}
          /\ part = "watched" => tally = Zero /\ held = NoTallies
MCNext == /\ \/ part = "watched" /\ FilamentNext /\ UNCHANGED unobserved
             \/ part = "unobserved" /\ UnobservedNext /\ UNCHANGED filament
          /\ UNCHANGED part
Spec == MCInit /\ [][MCNext]_<<filament, unobserved, part>>
=============================================================================
