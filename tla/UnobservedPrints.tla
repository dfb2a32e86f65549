-------------------------- MODULE UnobservedPrints --------------------------
(***************************************************************************)
(* The prints of one file that nobody watched, found as the server starts  *)
(* by comparing the printer's own tally of the file with the one last      *)
(* accounted (printobserver-core: unobserved.rs; printobserver-server:     *)
(* reconcile.rs, in what it does with them).                               *)
(*                                                                         *)
(* A start settles the print left open, if the printer's job shows it is   *)
(* over, and then accounts the tallies in one write.  Nothing else runs    *)
(* until it has.  What a print takes from a spool is left out here: a key  *)
(* written stands for one charge, or for one mark.                         *)
(***************************************************************************)
EXTENDS Integers, FiniteSets

CONSTANTS
  MaxPrints, \* how many prints are made of the file
  MaxResets, \* how often it is deleted and uploaded again
  MaxStarts  \* how often the server starts

ASSUME UnobservedConstants == {MaxPrints, MaxResets, MaxStarts} \subseteq Nat

Zero == [good |-> 0, bad |-> 0]
Total(count) == count.good + count.bad
Outcomes == {"good", "bad"}
NoTallies == [good |-> 0, bad |-> 0, gen |-> -2]  \* nothing is held at all: the first run
OtherFiles == [good |-> 0, bad |-> 0, gen |-> -1] \* tallies are held, and none of this file's
Larger(n, m) == IF n > m THEN n ELSE m

VARIABLES
  tally,    \* what the printer counts of the file
  made,     \* history: what was truly printed of it since the baseline
  watched,  \* the open print: "none", "running", or over as "good" or "bad"
  phase,    \* the server: "down", "settling", "accounting" or "up"
  held,     \* the tally last accounted, with its generation
  since,    \* the settlements made since it was
  settled,  \* every settlement made since the baseline
  written,  \* the unseen prints written: their keys and outcomes
  resets, starts,
  misread   \* history: an outcome was misjudged, or a read before the accounting failed

unobserved == <<tally, made, watched, phase, held, since, settled, written, resets, starts, misread>>

UnobservedInit ==
  /\ tally \in [good : 0 .. 1, bad : 0 .. 1]
  /\ held \in {NoTallies} \union (IF tally = Zero THEN {OtherFiles} ELSE {})
  /\ made = Zero /\ watched = "none" /\ phase = "down"
  /\ since = Zero /\ settled = Zero /\ written = {}
  /\ resets = 0 /\ starts = 0 /\ misread = FALSE

-----------------------------------------------------------------------------
(* The printer (external) *)

CountPrint(o) ==
  /\ Total(made) < MaxPrints
  /\ tally' = [tally EXCEPT ![o] = @ + 1] /\ made' = [made EXCEPT ![o] = @ + 1]

\* A whole print that no server saw.
PrintAlone(o) ==
  /\ watched = "none" /\ phase = "down" /\ CountPrint(o)
  /\ UNCHANGED <<watched, phase, held, since, settled, written, resets, starts, misread>>

StartWatched ==
  /\ watched = "none" /\ phase = "up" /\ watched' = "running"
  /\ UNCHANGED <<tally, made, phase, held, since, settled, written, resets, starts, misread>>

\* A job that stops between the two reads of a start is counted before it is
\* settled.
WatchedStops(o) ==
  /\ watched = "running" /\ CountPrint(o) /\ watched' = o
  /\ misread' = (misread \/ phase = "accounting")
  /\ UNCHANGED <<phase, held, since, settled, written, resets, starts>>

ReplaceFile ==
  /\ watched = "none" /\ resets < MaxResets /\ resets' = resets + 1
  /\ tally' = Zero
  /\ UNCHANGED <<made, watched, phase, held, since, settled, written, starts, misread>>

-----------------------------------------------------------------------------
(* The server *)

GoDown ==
  /\ phase # "down" /\ phase' = "down"
  /\ UNCHANGED <<tally, made, watched, held, since, settled, written, resets, starts, misread>>

StartUp ==
  /\ phase = "down" /\ starts < MaxStarts /\ starts' = starts + 1 /\ phase' = "settling"
  /\ UNCHANGED <<tally, made, watched, held, since, settled, written, resets, misread>>

\* The open print is settled once its job is over, and is seldom misjudged.
Settle ==
  /\ watched \in Outcomes
  /\ \E o \in Outcomes :
       /\ since' = [since EXCEPT ![o] = @ + 1] /\ settled' = [settled EXCEPT ![o] = @ + 1]
       /\ misread' = (misread \/ o # watched)
  /\ watched' = "none"

SettleInPassing ==
  /\ phase = "up" /\ Settle
  /\ UNCHANGED <<tally, made, phase, held, written, resets, starts>>

\* `settle_with_printer`: a printer that cannot be read settles nothing.
SettleAtStart ==
  /\ phase = "settling" /\ phase' = "accounting"
  /\ IF watched \in Outcomes
       THEN Settle \/ (misread' = TRUE /\ UNCHANGED <<watched, since, settled>>)
       ELSE UNCHANGED <<watched, since, settled, misread>>
  /\ UNCHANGED <<tally, made, held, written, resets, starts>>

\* MUTANT of UnseenBetween: the prints this system settled count as unseen.
UnseenEvenSettled(from, to, seen) ==
  LET successes == Larger(to.good - from.good, 0)
      failures == Larger(to.bad - from.bad, 0)
      first == Total(to) - (successes + failures) + 1
  IN {[n |-> first + offset, o |-> IF offset < successes THEN "good" ELSE "bad"] :
        offset \in 0 .. successes + failures - 1}

\* `unseen_between`: the highest ordinals of the growth, completed ones first.
UnseenBetween(from, to, seen) ==
  LET successes == Larger(to.good - from.good - seen.good, 0)
      failures == Larger(to.bad - from.bad - seen.bad, 0)
      first == Total(to) - (successes + failures) + 1
  IN {[n |-> first + offset, o |-> IF offset < successes THEN "good" ELSE "bad"] :
        offset \in 0 .. successes + failures - 1}

\* `account_file`: the generation the tally is of, and the prints left over.  A
\* tally that went down is a new generation, counted from zero unless a print of
\* it was settled in the window, which leaves only a mark.
WentDown == tally.good < held.good \/ tally.bad < held.bad

Generation == IF held = OtherFiles THEN 0 ELSE IF WentDown THEN held.gen + 1 ELSE held.gen

\* MUTANT of Unseen: every settlement ever made counts, not those of the window.
UnseenSinceEver ==
  IF ~WentDown THEN UnseenBetween(held, tally, settled) ELSE {}
Unseen ==
  CASE held = OtherFiles -> UnseenBetween(Zero, tally, settled)
    [] held # OtherFiles /\ ~WentDown -> UnseenBetween(held, tally, since)
    [] OTHER -> IF Total(since) = 0 THEN UnseenBetween(Zero, tally, Zero) ELSE {}

\* `account_unobserved_prints`, in its one write: a file never printed has no
\* tally, and the first run of all only stores what it finds.
AccountTallies ==
  /\ phase = "accounting" /\ phase' = "up"
  /\ CASE held = NoTallies ->
            /\ held' \in IF Total(tally) = 0 THEN {NoTallies, OtherFiles}
                       ELSE {[good |-> tally.good, bad |-> tally.bad, gen |-> 0]}
            /\ made' = Zero /\ settled' = Zero /\ since' = Zero
            /\ UNCHANGED written
       [] held # NoTallies /\ Total(tally) = 0 -> UNCHANGED <<held, since, settled, written, made>>
       [] OTHER ->
            /\ held' = [good |-> tally.good, bad |-> tally.bad, gen |-> Generation]
            /\ written' = written \union {[gen |-> Generation, n |-> u.n, o |-> u.o] : u \in Unseen}
            /\ since' = Zero
            /\ UNCHANGED <<settled, made>>
  /\ UNCHANGED <<tally, watched, resets, starts, misread>>

\* The tallies cannot be read: the next start accounts what this one could not.
SkipAccounting ==
  /\ phase = "accounting" /\ phase' = "up"
  /\ UNCHANGED <<tally, made, watched, held, since, settled, written, resets, starts, misread>>

UnobservedNext ==
  \/ \E o \in Outcomes : PrintAlone(o) \/ WatchedStops(o)
  \/ StartWatched \/ ReplaceFile
  \/ GoDown \/ StartUp \/ SettleInPassing \/ SettleAtStart \/ AccountTallies \/ SkipAccounting

-----------------------------------------------------------------------------
(* Properties *)

Accounted(o) == Cardinality({key \in written : key.o = o}) + settled[o]

\* No print is accounted twice -- settled here and found again in the tally, or
\* found by two starts -- whatever restarts, skipped accountings and replaced
\* files lie between.
NoPrintTwice == ~misread => \A o \in Outcomes : Accounted(o) <= made[o]

\* Each unseen print is written under a key no accounting before it used, so no
\* charge is dropped as a replay of another (unobserved.rs: "an ordinal reused
\* after it is a new key"), and none is missed while the file was never replaced
\* (unobserved.rs: "counted print by print").
KeysAreNew ==
  held \notin {NoTallies, OtherFiles} /\ Total(tally) > 0 =>
    ~\E u \in Unseen, key \in written : key.gen = Generation /\ key.n = u.n
NoPrintMissed ==
  [][AccountTallies =>
       /\ KeysAreNew
       /\ ~misread /\ resets = 0 => \A o \in Outcomes : Accounted(o)' = made'[o]]_unobserved
=============================================================================
