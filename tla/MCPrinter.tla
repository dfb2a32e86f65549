----------------------------- MODULE MCPrinter -----------------------------
(***************************************************************************)
(* What the server makes of the printer's reports: which print its job is  *)
(* (PrintListing), two jobs of two files; what the watch holds between its *)
(* reads (PrinterWatch), two prints, with a refusal and a restart; and the *)
(* channel the printer's pushes come by (PushChannel), three pushes, two   *)
(* of them replies to the position probe, and a socket that ends. The      *)
(* three share no state, so a behaviour is of one of them.                 *)
(***************************************************************************)
EXTENDS PrintListing, PrinterWatch, PushChannel, TLC

CONSTANTS f, g
MCFiles == {f, g}
MCSymmetry == Permutations(MCFiles)

VARIABLE part \* which of the three moves, all along
MCInit == ListingInit /\ WatchInit /\ PushInit /\ part \in {"listing", "watch", "push"}
MCNext == /\ \/ part = "listing" /\ ListingNext /\ UNCHANGED <<watch, push>>
             \/ part = "watch" /\ WatchNext /\ UNCHANGED <<listing, push>>
             \/ part = "push" /\ PushNext /\ UNCHANGED <<listing, watch>>
          /\ UNCHANGED part
Spec == MCInit /\ [][MCNext]_<<listing, watch, push, part>>
=============================================================================
