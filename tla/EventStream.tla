----------------------------- MODULE EventStream -----------------------------
(***************************************************************************)
(* The event log as one watch follows it (printobserver-server: events.rs, *)
(* `stored_after` and `newest_stored` of the store; printobserver: the     *)
(* `watch` command).  The store's writers append and then raise a signal;  *)
(* the server's read looks where to start, examines the log in pieces,     *)
(* waits for the signal and tells the print's end; the watch prints what   *)
(* passes and asks again from its cursor, through answers that are lost.   *)
(*                                                                         *)
(* A watch is of one print or of all.  Sampling, the heartbeat, refusals   *)
(* and the signals that interrupt a watch are left out.                    *)
(***************************************************************************)
EXTENDS Integers, Sequences, FiniteSets

CONSTANTS
  MaxEvents, \* events ever stored
  Limit,     \* how many events one read answers
  Piece,     \* EXAMINED_PER_READ
  MaxLost    \* reads that are lost

ASSUME StreamConstants == {MaxEvents, MaxLost} \subseteq Nat /\ {Limit, Piece} \subseteq Nat \ {0}

\* The watched print's events and its end, which pass the caller's filters; the
\* printer's own events, which they drop; and those of another print.
Own == {"shown", "end"}
EventKinds == Own \union {"printer", "other"}
Nowhere == 0 \* no cursor; a position of the log is the identifier of the event there

VARIABLES
  log,     \* the events, in the order stored
  raising, \* whether an event was committed and its signal not raised yet
  unseen,  \* whether the signal was raised since the read marked it seen
  scoped,  \* whether the watch names the print, and
  after,   \* the event it was asked to start after, if one was
  watch,   \* the watch: "new", "asking", "reading", "failed", or why it ended
  cursor,  \* the last event it knows to be examined
  told,    \* whether an answer told it the print's end
  printed, \* the events it printed
  read,    \* the server's read: its stage, cursor, what passes, the end it tells
  late,    \* whether the read's deadline has passed
  lost
VARIABLES \* history
  first,     \* where an unscoped watch without a cursor was started
  overtaken, \* an own event came between the two reads that chose where to start
  blind,     \* an answer left the watch without a cursor
  outrun     \* a read that answered nothing told an end stored after it looked

asked == <<scoped, after>>
stream == <<log, raising, unseen, asked, watch, cursor, told, printed, read, late, lost, first,
            overtaken, blind, outrun>>
excuses == <<overtaken, blind, outrun>>

NoRead == [at |-> "none", cursor |-> Nowhere, passing |-> {}, ended |-> FALSE]
StreamInit ==
  /\ log = <<>> /\ raising = FALSE /\ unseen = FALSE /\ lost = 0
  /\ scoped \in BOOLEAN /\ after = Nowhere /\ watch = "new"
  /\ cursor = Nowhere /\ told = FALSE /\ printed = <<>> /\ read = NoRead /\ late = FALSE
  /\ first = -1 /\ overtaken = FALSE /\ blind = FALSE /\ outrun = FALSE

Ended == \E i \in DOMAIN log : log[i] = "end"
HasOwn == \E i \in DOMAIN log : log[i] \in Own

-----------------------------------------------------------------------------
(* The store's writers *)

StoreEvent(kind) ==
  /\ Len(log) < MaxEvents /\ (kind = "end" => ~Ended)
  /\ log' = Append(log, kind) /\ raising' = TRUE
  /\ UNCHANGED <<unseen, asked, watch, cursor, told, printed, read, late, lost, first, excuses>>

\* The signal, once the event is committed.
RaiseSignal ==
  /\ raising /\ raising' = FALSE /\ unseen' = TRUE
  /\ UNCHANGED <<log, asked, watch, cursor, told, printed, read, late, lost, first, excuses>>

-----------------------------------------------------------------------------
(* `follow`, the server's read *)

\* Where a read without a cursor starts: a print with events of its own is
\* replayed from the first of them.
StartsWhere ==
  /\ read.at = "starting"
  /\ read' = [read EXCEPT !.at = IF read.cursor # Nowhere \/ (scoped /\ HasOwn) THEN "marking" ELSE "newest"]
  /\ UNCHANGED <<log, raising, unseen, asked, watch, cursor, told, printed, late, lost, first, excuses>>

StartsAtNewest ==
  /\ read.at = "newest"
  /\ read' = [read EXCEPT !.at = "marking", !.cursor = Len(log)]
  /\ first' = IF first = -1 /\ ~scoped THEN Len(log) ELSE first
  /\ overtaken' = (overtaken \/ (scoped /\ HasOwn))
  /\ UNCHANGED <<log, raising, unseen, asked, watch, cursor, told, printed, late, lost, blind, outrun>>

MarksSeen ==
  /\ read.at = "marking" /\ unseen' = FALSE /\ read' = [read EXCEPT !.at = "examining"]
  /\ UNCHANGED <<log, raising, asked, watch, cursor, told, printed, late, lost, first, excuses>>

\* `stored_after`: what a read of the watch examines next, the printer's events
\* among the print's; a print's read without a cursor begins at its first event.
InScope(i) == scoped => log[i] # "other"
IsAfter(c, i) ==
  \/ c # Nowhere /\ i > c
  \/ c = Nowhere /\ (scoped => \E j \in 1 .. i : log[j] \in Own)
StoredAfter(c) == {i \in DOMAIN log : IsAfter(c, i) /\ InScope(i)}

\* The filters of the read, which always let the end through.
Passes(i) == log[i] # "printer"

\* The positions of events, in the order stored: the first n, and the last.
Leading(n, events) == {i \in events : Cardinality({j \in events : j <= i}) <= n}
Newest(events) == CHOOSE i \in events : \A j \in events : j <= i

\* `examine`: a piece of the log, up to the event that fills the answer.
Examine ==
  /\ read.at = "examining"
  /\ LET found == StoredAfter(read.cursor)
         piece == Leading(Piece, found)
         passing(i) == read.passing \union {j \in piece : j <= i /\ Passes(j)}
         filling == {i \in piece : Cardinality(passing(i)) = Limit}
         taken == {i \in piece : \A f \in filling : i <= f}
     IN read' = [read EXCEPT !.passing = @ \union {i \in taken : Passes(i)},
                             !.cursor = IF taken = {} THEN @ ELSE Newest(taken),
                             !.at = IF filling # {} \/ Cardinality(found) < Piece THEN "examined" ELSE @]
  /\ UNCHANGED <<log, raising, unseen, asked, watch, cursor, told, printed, late, lost, first, excuses>>

\* MUTANT of AnswersOrWaits: the signal is marked seen as the wait begins.
MarksAsItWaits ==
  /\ read.at = "examined"
  /\ \/ /\ read.passing # {} \/ late
        /\ read' = [read EXCEPT !.at = "ending"] /\ UNCHANGED unseen
     \/ read.passing = {} /\ ~late
        /\ read' = [read EXCEPT !.at = "waiting"] /\ unseen' = FALSE
  /\ UNCHANGED <<log, raising, asked, watch, cursor, told, printed, late, lost, first, excuses>>

AnswersOrWaits ==
  /\ read.at = "examined"
  /\ read' = [read EXCEPT !.at = IF read.passing # {} \/ late THEN "ending" ELSE "waiting"]
  /\ UNCHANGED <<log, raising, unseen, asked, watch, cursor, told, printed, late, lost, first, excuses>>

Wakes ==
  /\ read.at = "waiting" /\ (unseen \/ late) /\ read' = [read EXCEPT !.at = "marking"]
  /\ UNCHANGED <<log, raising, unseen, asked, watch, cursor, told, printed, late, lost, first, excuses>>

DeadlinePasses ==
  /\ read.at # "none" /\ ~late /\ late' = TRUE
  /\ UNCHANGED <<log, raising, unseen, asked, watch, cursor, told, printed, read, lost, first, excuses>>

\* The end is read after the events were: `ended`.
TellsEnd ==
  /\ read.at = "ending"
  /\ read' = [read EXCEPT !.at = "answered", !.ended = scoped /\ Ended]
  /\ outrun' = (outrun \/ (scoped /\ read.passing = {}
                           /\ \E i \in DOMAIN log : log[i] = "end" /\ IsAfter(read.cursor, i)))
  /\ UNCHANGED <<log, raising, unseen, asked, watch, cursor, told, printed, late, lost, first, overtaken, blind>>

-----------------------------------------------------------------------------
(* The watch *)

WatchBegins(a) ==
  /\ watch = "new" /\ watch' = "asking" /\ after' = a /\ cursor' = a
  /\ UNCHANGED <<log, raising, unseen, scoped, told, printed, read, late, lost, first, excuses>>

\* Once the end is told a read waits for nothing.
Asks ==
  /\ watch = "asking" /\ watch' = "reading"
  /\ read' = [NoRead EXCEPT !.at = "starting", !.cursor = cursor] /\ late' = told
  /\ UNCHANGED <<log, raising, unseen, asked, cursor, told, printed, lost, first, excuses>>

\* What of an answer is printed: what passes, as far as the print's end.
EndIsIn(passing) == scoped /\ \E i \in passing : log[i] = "end"
Shown(passing) == {i \in passing : EndIsIn(passing) => \E e \in passing : log[e] = "end" /\ i <= e}
InStoredOrder(events) ==
  CHOOSE s \in [1 .. Cardinality(events) -> events] : \A k, l \in DOMAIN s : k < l => s[k] < s[l]

\* MUTANT of EndsWith: the stream ends at the end's own event alone.
EndsAtItsEvent == EndIsIn(read.passing)
\* `take`: the stream ends at the print's end, or with nothing answered once it
\* is told.
EndsWith == EndIsIn(read.passing) \/ ((told \/ read.ended) /\ read.passing = {})

TakesAnswer ==
  /\ watch = "reading" /\ read.at = "answered"
  /\ printed' = printed \o InStoredOrder(Shown(read.passing))
  /\ told' = (told \/ read.ended)
  /\ cursor' = IF read.cursor = Nowhere THEN cursor ELSE read.cursor
  /\ blind' = (blind \/ (cursor' = Nowhere /\ ~scoped))
  /\ watch' = IF EndsWith THEN "print_ended" ELSE "asking"
  /\ read' = NoRead /\ late' = FALSE
  /\ UNCHANGED <<log, raising, unseen, asked, lost, first, overtaken, outrun>>

\* The server goes away, or the answer does; a watch without a cursor then
\* begins anew.
ReadIsLost ==
  /\ watch = "reading" /\ lost < MaxLost /\ lost' = lost + 1
  /\ watch' = "failed" /\ read' = NoRead /\ late' = FALSE
  /\ first' = IF cursor = Nowhere THEN -1 ELSE first
  /\ UNCHANGED <<log, raising, unseen, asked, cursor, told, printed, excuses>>

RetriesOrGivesUp ==
  /\ watch = "failed" /\ watch' \in {"asking", "unreachable"}
  /\ UNCHANGED <<log, raising, unseen, asked, cursor, told, printed, read, late, lost, first, excuses>>

Serve == StartsWhere \/ StartsAtNewest \/ MarksSeen \/ Examine \/ AnswersOrWaits \/ Wakes \/ TellsEnd
Follow == Asks \/ TakesAnswer \/ RetriesOrGivesUp

StreamNext ==
  \/ \E kind \in EventKinds : StoreEvent(kind)
  \/ RaiseSignal
  \/ Serve \/ DeadlinePasses
  \/ \E a \in {Nowhere} \union DOMAIN log : WatchBegins(a)
  \/ Follow \/ ReadIsLost

\* The server serves its reads, time passes, and the watch is scheduled.
StreamFairness == WF_stream(Serve) /\ WF_stream(DeadlinePasses) /\ WF_stream(Follow)

-----------------------------------------------------------------------------
(* Properties *)

\* The events a watch owes: those after the one it was asked to start after, or
\* from the print's first on, or after the newest as it began.
Owed ==
  {i \in DOMAIN log :
     /\ InScope(i) /\ Passes(i)
     /\ CASE after # Nowhere -> i > after
          [] after = Nowhere /\ scoped -> \E j \in 1 .. i : log[j] \in Own
          [] after = Nowhere /\ ~scoped -> first # -1 /\ i > first}

TheEnd == CHOOSE i \in DOMAIN log : log[i] = "end"
PrintedTo(position) == \A i \in Owed : i <= position => \E k \in DOMAIN printed : printed[k] = i

\* Whatever is stored while a read looks, waits, answers or is lost, the watch
\* prints every event it owes up to its cursor, once and in the order stored
\* (server's events.rs: "The cursor is the last event examined") -- unless an
\* event of the print came between the two reads that choose where to start, or
\* an empty log left a watch of every print without a cursor.
NothingSkipped ==
  /\ \A k \in 1 .. Len(printed) - 1 : printed[k] < printed[k + 1]
  /\ ~overtaken /\ ~blind /\ ~outrun /\ watch \in {"asking", "print_ended"} =>
       PrintedTo(IF watch = "asking" THEN cursor ELSE TheEnd)
  /\ scoped /\ after = Nowhere =>
       \A k \in DOMAIN printed : log[printed[k]] = "end" => k = Len(printed)

\* A read that waits has examined everything that passes, or its wake is on the
\* way (events.rs: "an event stored between the read and the wait is one the
\* wait wakes for").
NoMissedWake ==
  read.at = "waiting" /\ ~unseen /\ ~raising =>
    \A i \in StoredAfter(read.cursor) : ~Passes(i)

\* A watch passes no event by: what its cursor is past was printed, and what a
\* read waits for wakes it.
StreamInv == NothingSkipped /\ NoMissedWake

\* The watch of a print that has ended ends, whatever it was asked to start
\* after and whichever reads are lost (printobserver's watch.rs: "Every stream
\* ends saying why").
TheEndEndsTheWatch ==
  (Ended /\ scoped /\ watch # "new") ~> watch \in {"print_ended", "unreachable"}

\* What watch.rs 22-26 says of every watch: "every passing event stored before
\* the end is printed before the ending".  Said here of a watch whose start was
\* not chosen across the print's first event: the server's choice of where to
\* start is another matter, and what is left is what a read tells of the end.
PrintedBeforeTheEnd ==
  watch = "print_ended" /\ ~overtaken => PrintedTo(TheEnd - 1)
=============================================================================
