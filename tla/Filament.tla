------------------------------ MODULE Filament ------------------------------
(***************************************************************************)
(* What one print takes from the spools that fed it (printobserver-core:   *)
(* accounting.rs, spools.rs, the settlements of closing.rs and events.rs). *)
(*                                                                         *)
(* One print on one tool.  `feeder` is the truth: which spool fed each     *)
(* unit.  Everything the server knows it has from positions it reads, from *)
(* the printer's signals, and from an operator who says truly, if late,    *)
(* which spool is on the tool.  A change of spool happens while the        *)
(* printer waits at its filament change, and the printer prints on only    *)
(* once the signal has been handled: it waits for a person.                *)
(*                                                                         *)
(* Every write to the ledger reads it under the one `spool_writes` lock,   *)
(* so it is one step; what was read before the lock was taken is not.      *)
(***************************************************************************)
EXTENDS FilamentLedger, FiniteSets

CONSTANTS
  Units,      \* how many units the whole file feeds
  MaxChanges, \* how many filament changes the file holds
  MaxCrashes, \* how often the server dies
  MaxCommands, \* how many spool commands are carried out
  First       \* the spool on the tool, and in the ledger, as the print starts

ASSUME FilamentConstants == {Units, MaxChanges, MaxCrashes, MaxCommands} \subseteq Nat /\ First \in Spools

Changes == 1 .. MaxChanges

VARIABLES
  machine,  \* "printing", "changing", or how the job ended: "done" or "stopped"
  feeder,   \* feeder[u]: the spool that fed unit u
  on,       \* the spool that is truly on the tool, or None
  changes,  \* how many filament changes there have been
  ledger,   \* what the store holds of the print's filament
  position, \* the last position recorded, or None
  seen,     \* whether this process saw the job run
  signal,   \* signal[c]: how far handling the c-th change's signal has come
  closing,  \* what a close-out in progress has read, or None
  ended,    \* whether the print's record is ended
  crashes, commands, \* how often the server died, and spool commands were carried out
  told,     \* history: whether the ledger has been told of the last change of spool
  spoken,   \* history: the filament change the operator last loaded a spool at
  excused   \* history: a read or a signal failed or came after the settlement,
            \* or a change of spool was not told in time, or a tool the ledger shows
            \* empty, with no change of its last spool to confirm, fed

filament == <<machine, feeder, on, changes, ledger, position, seen, signal, closing, ended,
              crashes, commands, told, spoken, excused>>
job    == <<machine, feeder, on, changes>>
server == <<position, seen, signal, closing, ended, crashes, commands>>
truth  == <<told, spoken, excused>>

Fed == Len(feeder)
FedBy(s, units) == Cardinality({u \in 1 .. units : feeder[u] = s})
Unsignalled == [at |-> "none", position |-> None, fresh |-> FALSE]

FilamentInit ==
  /\ machine = "printing" /\ feeder = <<>> /\ on = First /\ changes = 0
  /\ ledger = NewLedger(First)
  /\ position = None /\ seen = FALSE
  /\ signal = [c \in Changes |-> Unsignalled]
  /\ closing = None /\ ended = FALSE /\ crashes = 0 /\ commands = 0
  /\ told = TRUE /\ spoken = 0 /\ excused = FALSE

-----------------------------------------------------------------------------
(* The printer and the person at it (external) *)

FeedUnit ==
  /\ machine = "printing" /\ Fed < Units /\ on # None
  /\ feeder' = Append(feeder, on)
  /\ excused' = (excused \/ (ledger.loaded = None /\ ~HoldsChangeMark(ledger, LastSpool(ledger))))
  /\ UNCHANGED <<machine, on, changes, ledger, server, told, spoken>>

ReachChange ==
  /\ machine = "printing" /\ changes < MaxChanges
  /\ machine' = "changing" /\ changes' = changes + 1
  /\ signal' = [signal EXCEPT ![changes + 1].at = "sent"]
  /\ UNCHANGED <<feeder, on, ledger, position, seen, closing, ended, crashes, commands, truth>>

\* Another spool is put on the tool, or the one there taken off it.
SwapSpool ==
  /\ machine = "changing" /\ signal[changes].at # "sent"
  /\ on' \in (Spools \union {None}) \ {on}
  /\ excused' = (excused \/ ~told \/ spoken # changes - 1) /\ told' = FALSE
  /\ UNCHANGED <<spoken, machine, feeder, changes, ledger, server>>

PrintOn ==
  /\ machine = "changing" /\ signal[changes].at = "over"
  /\ machine' = "printing"
  /\ UNCHANGED <<feeder, on, changes, ledger, server, truth>>

JobStops ==
  /\ machine \in {"printing", "changing"}
  /\ machine' \in (IF machine = "printing" /\ Fed = Units THEN {"done"} ELSE {"stopped"})
  /\ UNCHANGED <<feeder, on, changes, ledger, server, truth>>

-----------------------------------------------------------------------------
(* Reading the printer *)

\* What a position read comes to: the job's position while it runs, recorded as
\* it is read, or the last one recorded.
Runs == machine \in {"printing", "changing"}
ReadNow == /\ Runs /\ position' = Fed /\ seen' = TRUE
NotRead == UNCHANGED <<position, seen>>

\* A read of the job that records where the print is (a watch, a look).
ObservePosition ==
  /\ ~ended /\ ReadNow
  /\ UNCHANGED <<job, ledger, signal, closing, ended, crashes, commands, truth>>

\* `handle_signal` up to the lock: an ended or settled print is left alone.
ReadSignal(c) ==
  /\ signal[c].at = "sent"
  /\ IF ended \/ ledger.settled
       THEN signal' = [signal EXCEPT ![c].at = "over"] /\ NotRead /\ UNCHANGED excused
       ELSE \/ /\ ReadNow /\ UNCHANGED excused
               /\ signal' = [signal EXCEPT ![c] = [at |-> "read", position |-> Fed, fresh |-> TRUE]]
            \/ /\ NotRead /\ excused' = TRUE
               /\ signal' = [signal EXCEPT ![c] = [at |-> "read", position |-> position, fresh |-> FALSE]]
  /\ UNCHANGED <<job, ledger, closing, ended, crashes, commands, told, spoken>>

\* `feed_to`: what the tool fed of the open segment up to a position.
Feed(l, to) == IF to = None THEN 0 ELSE to - AlreadyFed(l)

\* MUTANT of Signalled: a second signal charges the spool a change has left.
SignalledAgain(l, c) ==
  LET length == Feed(l, signal[c].position) IN
  IF l.loaded = None THEN l
  ELSE Marked(IF length <= 0 THEN l ELSE Charged(l, OpenSegment(l), l.loaded, length),
              l.loaded, IF signal[c].fresh THEN Change ELSE ChangePosition)

\* The spool on the tool is charged up to the signal's position, or the segment
\* held when a change before has left that spool in doubt, and it is marked.
Signalled(l, c) ==
  LET length == Feed(l, signal[c].position) IN
  IF l.loaded = None THEN l
  ELSE Marked(IF length <= 0 THEN l
              ELSE IF HoldsChangeMark(l, l.loaded) THEN Pended(l, OpenSegment(l), length)
              ELSE Charged(l, OpenSegment(l), l.loaded, length),
              l.loaded, IF signal[c].fresh THEN Change ELSE ChangePosition)

\* `handle_signal` under the lock.
WriteSignal(c) ==
  /\ signal[c].at = "read"
  /\ signal' = [signal EXCEPT ![c] = [Unsignalled EXCEPT !.at = "over"]]
  /\ ledger' = Signalled(ledger, c)
  /\ excused' = (excused \/ ledger.settled \/ spoken = c)
  /\ UNCHANGED <<job, position, seen, closing, ended, crashes, commands, told, spoken>>

-----------------------------------------------------------------------------
(* The operator's commands, each under the lock *)

Commanded == commands < MaxCommands /\ commands' = commands + 1

\* `close_segment`, with the print running now: the open segment, up to the
\* position read, is the outgoing spool's, or after an unconfirmed change the
\* incoming one's -- or nobody's yet when there is none.
SegmentClosed(l, judged, outgoing, incoming, to) ==
  LET length == Feed(l, to) IN
  IF length <= 0 THEN l
  ELSE IF ~HoldsChangeMark(l, judged) THEN Charged(l, OpenSegment(l), outgoing, length)
  ELSE IF incoming = None THEN l
  ELSE Charged(l, OpenSegment(l), incoming, length)

\* What a command of an open, unsettled print charges up to: the position read
\* now or recorded, if the file can be read that far.
Charging(P(_), excuse) ==
  IF ended \/ ledger.settled THEN P(None) /\ NotRead /\ UNCHANGED excused
  ELSE \/ ReadNow /\ P(Fed) /\ excused' = (excused \/ excuse)
       \/ NotRead /\ P(position) /\ excused' = (excused \/ excuse \/ Runs)
       \/ NotRead /\ P(None) /\ excused' = TRUE

\* A load onto the tool: what it holds is taken; the spool there already is
\* confirmed, and another charges the open segment and takes the tool from it.
Loaded(l, s, to) ==
  LET taken == PendingTaken(l, s) IN
  IF l.loaded = s THEN Cleared(taken, s, ClearedByConfirming)
  ELSE LET closed == SegmentClosed(taken, Judged(l), l.loaded, s, to)
       IN [(IF l.loaded = None THEN closed ELSE Cleared(closed, l.loaded, ClearedBySwap))
             EXCEPT !.loaded = s]

\* Two ways a change still unconfirmed is misjudged: its spool is put back on the
\* tool, in the place of another or of none, and keeps its mark (a swap clears the
\* outgoing spool's, and not one left by a position nobody could read); or it is
\* taken off with another, or none, the last one charged.
MarkedBack(s) == HoldsChangeMark(ledger, s)
MarkLost(s) == HoldsChangeMark(ledger, s) /\ LastSpool(ledger) # s

LoadSpool(s) ==
  /\ s = on /\ s \notin ledger.retired
  /\ ledger.loaded = s => (\E n \in DOMAIN ledger.segments : IsHeld(ledger.segments[n]))
                            \/ HoldsChangeMark(ledger, s)
  /\ IF ledger.loaded = s THEN ledger' = Loaded(ledger, s, None) /\ NotRead /\ UNCHANGED excused
     ELSE Charging(LAMBDA to : ledger' = Loaded(ledger, s, to), MarkedBack(s))
  /\ told' = TRUE /\ spoken' = changes
  /\ UNCHANGED <<job, signal, closing, ended, crashes>> /\ Commanded

\* An unload, or a retirement of the spool on the tool: charged first.
Unloaded(l, s, to) == [SegmentClosed(l, s, s, None, to) EXCEPT !.loaded = None]

UnloadSpool(s) ==
  /\ ledger.loaded = s /\ on # s
  /\ Charging(LAMBDA to : ledger' = Unloaded(ledger, s, to), MarkLost(s))
  /\ told' = (on = None)
  /\ UNCHANGED <<job, signal, closing, ended, crashes, spoken>> /\ Commanded

RetireSpool(s) ==
  /\ s \notin ledger.retired /\ on # s
  /\ IF ledger.loaded = s
       THEN /\ Charging(LAMBDA to : ledger' = [Unloaded(ledger, s, to) EXCEPT !.retired = @ \union {s}], MarkLost(s))
            /\ told' = (on = None)
       ELSE /\ ledger' = [ledger EXCEPT !.retired = @ \union {s}]
            /\ NotRead /\ UNCHANGED <<told, spoken, excused>>
  /\ UNCHANGED <<job, signal, closing, ended, crashes, spoken>> /\ Commanded

\* A correction to what the spool truly holds: it takes what its tool holds.
AdjustSpool(s) ==
  /\ s \notin ledger.retired
  /\ LET taken == IF ledger.loaded = s THEN PendingTaken(ledger, s) ELSE ledger
     IN ledger' = [Cleared(taken, s, ClearedByAdjusting) EXCEPT !.spent[s] = FedBy(s, Fed)]
  /\ excused' = (excused \/ ~ledger.settled \/ ~told)
  /\ UNCHANGED <<job, position, seen, signal, closing, ended, crashes, told, spoken>> /\ Commanded

-----------------------------------------------------------------------------
(* Closing the print out *)

\* What a close-out may find once the job is over: only a job that ran to its
\* end reads as finished, and only one is on the file's record as a success,
\* which is looked up for a stop this process did not see coming.
Evidence ==
  [job : {None} \union [file : {"file"}, complete : {machine = "done"}, size : {Units},
                        position : {Fed}, printer_error : BOOLEAN],
   file : {None, "file"}, size : {None, Units},
   completed_since : {FALSE, machine = "done" /\ ~seen},
   cancelled_here : {FALSE, machine = "stopped"},
   state : {"operational", "error"},
   pushes : [firmware_error : BOOLEAN, gap : BOOLEAN, reset : BOOLEAN]]

\* `closing`: what is read before the lock is taken; the file's lengths, or how
\* far it extrudes, may not be readable.
ReadClosing ==
  /\ ~ended /\ ~Runs /\ ~ledger.settled /\ closing = None
  /\ \E rule \in {ChargeRule(Outcome(e)) : e \in Evidence}, readable \in BOOLEAN :
       /\ closing' =
            [total |-> IF ~readable THEN None
                      ELSE IF rule = "slicer_estimate" THEN Units ELSE position,
             watched |-> seen \/ rule = "slicer_estimate"]
       /\ excused' = (excused \/ (~readable /\ ~told))
  /\ UNCHANGED <<job, ledger, position, seen, signal, ended, crashes, commands, told, spoken>>

\* `closing_writes`, and the settlement they are one write with.
Settled(l, c) ==
  LET doubted == IF c.total = None \/ ~c.watched THEN Marked(l, l.loaded, Uncharged) ELSE l
      remainder == c.total - AlreadyFed(l)
      charged == CASE c.total = None -> doubted
                   [] c.total # None /\ remainder <= 0 -> doubted
                   [] OTHER -> IF HoldsChangeMark(l, Judged(l))
                                 THEN Pended(doubted, OpenSegment(l), remainder)
                                 ELSE Charged(doubted, OpenSegment(l), l.loaded, remainder)
  IN [charged EXCEPT !.settled = TRUE]

\* MUTANT of SettledOnce: the store does not look for a settlement.
SettledEachTime(l, c) == Settled(l, c)

\* `settle_print`: a print that is settled already is left as it is.
SettledOnce(l, c) == IF l.settled THEN l ELSE Settled(l, c)

WriteClosing ==
  /\ closing # None
  /\ ledger' = SettledOnce(ledger, closing) /\ closing' = None
  /\ UNCHANGED <<job, position, seen, signal, ended, crashes, commands, truth>>

\* A close-out that finds the print settled only ends it.
EndPrint ==
  /\ ledger.settled /\ ~ended
  /\ ended' = TRUE
  /\ UNCHANGED <<job, ledger, position, seen, signal, closing, crashes, commands, truth>>

\* `close_by_operator`: settled with no charge, no pend and no mark.
OperatorCloses ==
  /\ ~ended /\ ~Runs /\ ~ledger.settled
  /\ ledger' = [ledger EXCEPT !.settled = TRUE]
  /\ excused' = TRUE
  /\ UNCHANGED <<job, server, told, spoken>>

\* The server dies: what it had read and what it had seen are gone.
Crash ==
  /\ crashes < MaxCrashes /\ ~ended
  /\ crashes' = crashes + 1 /\ seen' = FALSE /\ closing' = None
  /\ signal' = [c \in Changes |-> IF signal[c].at = "read" THEN [Unsignalled EXCEPT !.at = "over"] ELSE signal[c]]
  /\ excused' = (excused \/ \E c \in Changes : signal[c].at = "read")
  /\ UNCHANGED <<job, ledger, position, ended, commands, told, spoken>>

-----------------------------------------------------------------------------
FilamentNext ==
  \/ FeedUnit \/ ReachChange \/ SwapSpool \/ PrintOn \/ JobStops
  \/ ObservePosition
  \/ \E c \in Changes : ReadSignal(c) \/ WriteSignal(c)
  \/ \E s \in Spools : LoadSpool(s) \/ UnloadSpool(s) \/ RetireSpool(s) \/ AdjustSpool(s)
  \/ ReadClosing \/ WriteClosing \/ EndPrint \/ OperatorCloses
  \/ Crash

-----------------------------------------------------------------------------
(* Properties *)

FilamentTypeOK ==
  /\ feeder \in Seq(Spools) /\ Fed <= Units
  /\ on \in Spools \union {None} /\ ledger.loaded \in Spools \union {None}
  /\ ledger.segments \in Seq([to : Spools \union {None, Held}, length : 1 .. Units])
  /\ \A s \in Spools : ledger.marks[s] \subseteq Marks /\ ledger.spent[s] \in Nat
  /\ position \in {None} \union 0 .. Units

\* What a print's segments were charged, held or lost comes to no more than the
\* printer fed, whatever was signalled, loaded, read late or replayed after a
\* crash (accounting.rs: "whatever is replayed after a crash debits nothing
\* twice").
NothingTwice == AlreadyFed(ledger) <= Fed

\* Once a print is settled, and nothing of it is still held, a spool no mark
\* doubts has been debited for what it truly fed: at least what it fed up to the
\* last position recorded, and nothing another spool fed -- provided each read
\* was answered and each change of spool was told (accounting.rs: the segments,
\* the marks and what is held after an unconfirmed change).
UnmarkedIsTrue ==
  ledger.settled /\ ~excused /\ told /\ (\A n \in DOMAIN ledger.segments : ~IsHeld(ledger.segments[n]))
    => \A s \in Spools : ledger.marks[s] = {} =>
         /\ position # None => FedBy(s, position) <= ledger.spent[s]
         /\ ledger.spent[s] <= FedBy(s, Fed)

\* What a print is charged is what it fed: no unit of it twice, and to no spool
\* that is not marked but the one that fed it.
LedgerInv == NothingTwice /\ UnmarkedIsTrue

\* After its settlement a print charges nothing more, whichever close-out was
\* late: what it held may still be taken by a spool, but only a signal that was
\* read before the settlement and written after it adds a segment, and nothing
\* changes the length of one (ledger.rs: `settle`; accounting.rs:1215 looks for
\* the settlement before the lock).
SettlementIsFinal ==
  [][ledger.settled =>
       /\ ledger'.settled
       /\ AlreadyFed(ledger') = AlreadyFed(ledger)
            \/ \E c \in Changes : signal[c].at = "read" /\ signal'[c].at = "over"
       /\ \A n \in DOMAIN ledger.segments :
            /\ ledger'.segments[n].length = ledger.segments[n].length
            /\ IsHeld(ledger.segments[n]) \/ ledger'.segments[n] = ledger.segments[n]]_filament

\* A spool newly put on the tool is in no doubt over a filament change of this
\* print: "a filament change was signalled and nobody has said which spool is now
\* loaded" (records/spool.rs, on the mark), and the operator has just said.
ALoadEndsTheHolding ==
  [][ledger'.loaded \notin {ledger.loaded, None} => ~HoldsChangeMark(ledger', ledger'.loaded)]_filament
=============================================================================
