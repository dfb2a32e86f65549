---------------------------- MODULE AgentSessions ----------------------------
(***************************************************************************)
(* The conversations an agent is in about one print: the ledger the agent  *)
(* port keeps of them on disk (printobserver-oneharness: turn.rs,          *)
(* ledger.rs), the store's record of the latest one, and its opening and   *)
(* close in the print's history (printobserver-core: events.rs,            *)
(* closing.rs).                                                            *)
(*                                                                         *)
(* A turn holds the print's turn while it runs, reads the ledger, runs the *)
(* agent, and writes the whole ledger back; what it says of the store it   *)
(* says with the turn let go.  A print is closed by a close-out, under the *)
(* turn, or by an operator, with no turn.  `fs::write` empties the file    *)
(* and then fills it, so a death or a reader in between finds it empty.    *)
(*                                                                         *)
(* Whether the printer's job is over is left open: closes come at any      *)
(* time.  Left out: the prompt, the run's permissions, the assessment.     *)
(***************************************************************************)
EXTENDS Naturals, Sequences, FiniteSets

CONSTANTS
  Identities,  \* the harness identities the server may be configured with
  MaxTurns,    \* how many turns the print has
  MaxDeaths,   \* how often the server dies
  MaxRefused,  \* how often the store or the file system refuses a write
  Nobody       \* no identity, no holder, no record

ASSUME SessionConstants ==
  /\ Nobody \notin Identities
  /\ MaxTurns \in Nat /\ MaxDeaths \in Nat /\ MaxRefused \in Nat

VARIABLES
  disk,      \* the print's ledger: whole, blank or torn
  harness,   \* the identity each session was created on, in the harness's store
  identity,  \* the configured identity
  row,       \* the store's one session of the print
  opened,    \* the sessions whose opening is in the history
  closings,  \* how many closes of a session are in the history
  ended,     \* whether the print has ended, and who ended it
  endTurn,   \* the turn on a failed print's end: "none", "due" or "taken"
  keeper,    \* who holds the print's turn
  at,        \* where each task is
  turnsRun, deaths, refused,
  shut,      \* history: the sessions a written ledger has shown closed
  crossed    \* history: whether a close ran beside a turn or another close

sessions == <<disk, harness, identity, row, opened, closings, ended, endTurn, keeper,
              at, turnsRun, deaths, refused, shut, crossed>>

Closers == {"close-out", "operator"}
Workers == {"turn"} \union Closers
Names == 1 .. 2 * MaxTurns + 1

\* On disk a session is its name, a place in the print's sequence, with the
\* identity it ran on; the turns are the sessions they ran in.
NoLedger == [text |-> "whole", list |-> <<>>, ran |-> {}]
Blank == [NoLedger EXCEPT !.text = "blank"]
Torn == [NoLedger EXCEPT !.text = "torn"]
Away == [pc |-> "idle", ledger |-> NoLedger, name |-> 0, created |-> FALSE]

SessionsInit ==
  /\ disk = NoLedger /\ harness = [n \in Names |-> Nobody] /\ identity \in Identities
  /\ row = Nobody /\ opened = {} /\ closings = 0
  /\ ended = Nobody /\ endTurn = "none" /\ keeper = Nobody
  /\ at = [w \in Workers |-> Away]
  /\ turnsRun = 0 /\ deaths = 0 /\ refused = 0 /\ shut = {} /\ crossed = FALSE

Now(w, pc) == at[w].pc = pc
GoesTo(w, pc) == at' = [at EXCEPT ![w].pc = pc]
BecomesIdle(w) == at' = [at EXCEPT ![w] = Away]

-----------------------------------------------------------------------------
(***************************************************************************)
(* The ledger.                                                             *)
(***************************************************************************)
IsOpen(ledger) == /\ ledger.list # <<>>
                  /\ ~ledger.list[Len(ledger.list)].closed

\* `agrees_with_itself`: the sessions are named by their place, and each turn is
\* of one of them.
Agrees(ledger) == /\ \A i \in DOMAIN ledger.list : ledger.list[i].name = i
                  /\ ledger.ran \subseteq DOMAIN ledger.list

\* `PrintLedger::read`: a text that is no ledger, or one that does not agree, is
\* refused; with no file there are no sessions.
Readable == disk.text = "whole" /\ Agrees(disk)

\* `name_after_current`.
AfterCurrent(ledger) == Len(ledger.list) + 1

\* MUTANT of ForNextTurn: the current session, closed or not.
ForNextTurnAnyway(ledger) ==
  IF ledger.list # <<>> THEN ledger.list[Len(ledger.list)].name ELSE AfterCurrent(ledger)

\* `session_for_next_turn`: the current one while it is open, or the next.
ForNextTurn(ledger) ==
  IF IsOpen(ledger) THEN ledger.list[Len(ledger.list)].name ELSE AfterCurrent(ledger)

\* `close_current`.
CurrentClosed(ledger) ==
  IF IsOpen(ledger) THEN [ledger EXCEPT !.list[Len(ledger.list)].closed = TRUE] ELSE ledger

\* `record_session` and `record_turn`: the open session of that name, or a new
\* one at the end, is of the identity that answered, and the turn ran in it.
WithTurn(ledger, name) ==
  LET of == [name |-> name, by |-> identity, closed |-> FALSE]
      known == {i \in DOMAIN ledger.list :
                  ledger.list[i].name = name /\ ~ledger.list[i].closed}
  IN [ledger EXCEPT
        !.list = IF known = {} THEN Append(@, of)
                 ELSE [i \in DOMAIN @ |-> IF i \in known THEN of ELSE @[i]],
        !.ran = @ \union {name}]

\* `PrintLedger::write`, after its directory is there: the file is emptied ...
Empties(w) ==
  /\ at[w].pc \in {"saves", "saves close"}
  /\ disk' = Blank
  /\ GoesTo(w, IF Now(w, "saves") THEN "fills" ELSE "fills close")
  /\ UNCHANGED <<harness, identity, row, opened, closings, ended, endTurn, keeper,
                 turnsRun, deaths, refused, shut, crossed>>

\* ... and filled from its beginning, over what another writer put there since.
Filled(w) == {at[w].ledger} \union (IF disk = Blank THEN {} ELSE {Torn})
ShownClosed(ledger) ==
  {ledger.list[i].name : i \in {j \in DOMAIN ledger.list : ledger.list[j].closed}}

-----------------------------------------------------------------------------
(***************************************************************************)
(* A turn (`supervise`, `take_turn`, `record`).                            *)
(***************************************************************************)
\* The print's turn is taken, for a print that has not ended or on its end.
TurnBegins ==
  /\ Now("turn", "idle") /\ keeper = Nobody /\ turnsRun < MaxTurns
  /\ ended = Nobody \/ endTurn = "due"
  /\ keeper' = "turn" /\ turnsRun' = turnsRun + 1
  /\ endTurn' = IF ended = Nobody THEN endTurn ELSE "taken"
  /\ crossed' = (crossed \/ \E c \in Closers : ~Now(c, "idle"))
  /\ GoesTo("turn", "reads")
  /\ UNCHANGED <<disk, harness, identity, row, opened, closings, ended, deaths, refused, shut>>

\* The turn fails: the print's turn is let go and the failure recorded.
TurnFails ==
  /\ at["turn"].pc \in {"reads", "runs", "runs again", "saves", "saves close"}
  /\ Now("turn", "reads") => ~Readable
  /\ IF at["turn"].pc \in {"saves", "saves close"} THEN refused < MaxRefused /\ refused' = refused + 1
                             ELSE UNCHANGED refused
  /\ keeper' = Nobody /\ BecomesIdle("turn")
  /\ UNCHANGED <<disk, harness, identity, row, opened, closings, ended, endTurn, turnsRun,
                 deaths, shut, crossed>>

\* The ledger is read, and names the session the turn runs in.
ReadsLedger ==
  /\ Now("turn", "reads") /\ Readable
  /\ at' = [at EXCEPT !["turn"].pc = "runs", !["turn"].ledger = disk,
                      !["turn"].name = ForNextTurn(disk)]
  /\ UNCHANGED <<disk, harness, identity, row, opened, closings, ended, endTurn, keeper,
                 turnsRun, deaths, refused, shut, crossed>>

\* The agent is run. The harness creates the session or continues it; what it
\* reports may still be refused (`TurnFails`), with the session created.
Runs ==
  /\ at["turn"].pc \in {"runs", "runs again"}
  /\ LET n == at["turn"].name IN
     /\ harness[n] \in {Nobody, identity}
     /\ harness' = [harness EXCEPT ![n] = identity]
     /\ at' = [at EXCEPT !["turn"].pc = "ran", !["turn"].created = harness[n] = Nobody]
  /\ UNCHANGED <<disk, identity, row, opened, closings, ended, endTurn, keeper,
                 turnsRun, deaths, refused, shut, crossed>>

\* The report is taken and the turn written into the ledger read, or it is
\* refused as another's.
Reported ==
  /\ Now("turn", "ran")
  /\ \/ /\ at' = [at EXCEPT !["turn"].pc = "saves",
                    !["turn"].ledger = WithTurn(at["turn"].ledger, at["turn"].name)]
        /\ UNCHANGED keeper
     \/ BecomesIdle("turn") /\ keeper' = Nobody
  /\ UNCHANGED <<disk, harness, identity, row, opened, closings, ended, endTurn,
                 turnsRun, deaths, refused, shut, crossed>>

\* The harness has the session of another identity: the current session is
\* closed, and the turn will run in the one after it.
Conflicts ==
  /\ Now("turn", "runs") /\ harness[at["turn"].name] \notin {Nobody, identity}
  /\ LET closed == CurrentClosed(at["turn"].ledger) IN
     at' = [at EXCEPT !["turn"].pc = "saves close", !["turn"].ledger = closed,
                      !["turn"].name = AfterCurrent(closed)]
  /\ UNCHANGED <<disk, harness, identity, row, opened, closings, ended, endTurn, keeper,
                 turnsRun, deaths, refused, shut, crossed>>

\* What the turn saved is on disk. A turn that only closed a session runs again;
\* one that has run lets the print's turn go, and was answered or failed.
TurnFills ==
  /\ at["turn"].pc \in {"fills", "fills close"}
  /\ disk' \in Filled("turn")
  /\ shut' = shut \union ShownClosed(disk')
  /\ \/ /\ Now("turn", "fills close")
        /\ GoesTo("turn", "runs again") /\ UNCHANGED keeper
     \/ /\ Now("turn", "fills")
        /\ \/ GoesTo("turn", "answered")
           \/ BecomesIdle("turn")
        /\ keeper' = Nobody
  /\ UNCHANGED <<harness, identity, row, opened, closings, ended, endTurn,
                 turnsRun, deaths, refused, crossed>>

\* An answered turn writes down that it opened its session ...
NotesOpening ==
  /\ Now("turn", "answered") /\ at["turn"].created
  /\ opened' = opened \union {at["turn"].name}
  /\ at' = [at EXCEPT !["turn"].created = FALSE]
  /\ UNCHANGED <<disk, harness, identity, row, closings, ended, endTurn, keeper,
                 turnsRun, deaths, refused, shut, crossed>>

\* ... and the session, over whatever the store had for the print.
PutsSession ==
  /\ Now("turn", "answered") /\ ~at["turn"].created
  /\ row' = [name |-> at["turn"].name, closed |-> FALSE]
  /\ BecomesIdle("turn")
  /\ UNCHANGED <<disk, harness, identity, opened, closings, ended, endTurn, keeper,
                 turnsRun, deaths, refused, shut, crossed>>

-----------------------------------------------------------------------------
(***************************************************************************)
(* The close of a print (`close_out_print`, `close_by_operator`,           *)
(* `close_session_of`).                                                    *)
(***************************************************************************)
\* A close-out is made under the print's turn, an operator's under none.
BeginsClose(c) ==
  /\ Now(c, "idle") /\ ended = Nobody
  /\ IF c = "close-out" THEN keeper = Nobody /\ keeper' = c ELSE UNCHANGED keeper
  /\ crossed' = (crossed \/ \E w \in Workers \ {c} : ~Now(w, "idle"))
  /\ GoesTo(c, IF c = "close-out" THEN "ends" ELSE "shuts")
  /\ UNCHANGED <<disk, harness, identity, row, opened, closings, ended, endTurn,
                 turnsRun, deaths, refused, shut>>

\* The print is ended: by a close-out first, by an operator's close last.
Ends(c) ==
  /\ Now(c, "ends")
  /\ ended' = c
  /\ IF c = "close-out" THEN GoesTo(c, "shuts") ELSE BecomesIdle(c)
  /\ UNCHANGED <<disk, harness, identity, row, opened, closings, endTurn, keeper,
                 turnsRun, deaths, refused, shut, crossed>>

\* `close_session`: the ledger is read and its current session closed; one that
\* cannot be read or written costs the close nothing.
Shuts(c) ==
  /\ Now(c, "shuts")
  /\ \/ /\ Readable
        /\ at' = [at EXCEPT ![c].pc = "saves", ![c].ledger = CurrentClosed(disk)]
     \/ ~Readable /\ GoesTo(c, "looks")
  /\ UNCHANGED <<disk, harness, identity, row, opened, closings, ended, endTurn, keeper,
                 turnsRun, deaths, refused, shut, crossed>>

CloseFills(c) ==
  /\ Now(c, "fills")
  /\ disk' \in Filled(c)
  /\ shut' = shut \union ShownClosed(disk')
  /\ GoesTo(c, "looks")
  /\ UNCHANGED <<harness, identity, row, opened, closings, ended, endTurn, keeper,
                 turnsRun, deaths, refused, crossed>>

\* The close of the session is over: a close-out tells of the end and lets the
\* turn go, an operator's close ends the print.
Closed(c) ==
  IF c = "operator" THEN "ends" ELSE "tells"

\* The store's session is read. With none there is nothing to close.
ReadsRow(c) ==
  /\ Now(c, "looks")
  /\ at' = [at EXCEPT ![c].pc = CASE row = Nobody -> Closed(c)
                                 [] row # Nobody -> IF row.closed THEN "asks" ELSE "puts",
                     ![c].name = IF row = Nobody THEN 0 ELSE row.name]
  /\ UNCHANGED <<disk, harness, identity, row, opened, closings, ended, endTurn, keeper,
                 turnsRun, deaths, refused, shut, crossed>>

\* An open one is written closed, as it was read.
PutsClosed(c) ==
  /\ Now(c, "puts")
  /\ row' = [name |-> at[c].name, closed |-> TRUE]
  /\ GoesTo(c, "asks")
  /\ UNCHANGED <<disk, harness, identity, opened, closings, ended, endTurn, keeper,
                 turnsRun, deaths, refused, shut, crossed>>

\* The history is asked whether it has a close, and is given one if not.
AsksHistory(c) ==
  /\ Now(c, "asks")
  /\ GoesTo(c, IF closings = 0 THEN "notes" ELSE Closed(c))
  /\ UNCHANGED <<disk, harness, identity, row, opened, closings, ended, endTurn, keeper,
                 turnsRun, deaths, refused, shut, crossed>>

NotesClosing(c) ==
  /\ Now(c, "notes")
  /\ closings' = closings + 1
  /\ GoesTo(c, Closed(c))
  /\ UNCHANGED <<disk, harness, identity, row, opened, ended, endTurn, keeper,
                 turnsRun, deaths, refused, shut, crossed>>

\* `follow_up_end`: a failed end is due a turn, any other is not.
TellsOfEnd ==
  /\ Now("close-out", "tells")
  /\ endTurn' \in {endTurn, "due"}
  /\ keeper' = Nobody /\ BecomesIdle("close-out")
  /\ UNCHANGED <<disk, harness, identity, row, opened, closings, ended,
                 turnsRun, deaths, refused, shut, crossed>>

-----------------------------------------------------------------------------
\* The store refuses a write, or the file system a close's: the latter costs the
\* close nothing, and whoever made any other stops where it is.
Refused(w) ==
  /\ refused < MaxRefused
  /\ \/ /\ w \in Closers /\ Now(w, "saves")
        /\ GoesTo(w, "looks") /\ UNCHANGED keeper
     \/ /\ at[w].pc \in {"answered", "ends", "looks", "puts", "asks", "notes"}
        /\ BecomesIdle(w)
        /\ keeper' = IF keeper = w THEN Nobody ELSE keeper
  /\ refused' = refused + 1
  /\ UNCHANGED <<disk, harness, identity, row, opened, closings, ended, endTurn,
                 turnsRun, deaths, shut, crossed>>

\* The server dies and is started again, perhaps configured otherwise. What
\* waited for a turn on the print's end was in memory.
Dies ==
  /\ deaths < MaxDeaths /\ deaths' = deaths + 1
  /\ at' = [w \in Workers |-> Away] /\ keeper' = Nobody
  /\ identity' \in Identities
  /\ endTurn' = IF endTurn = "due" THEN "none" ELSE endTurn
  /\ UNCHANGED <<disk, harness, row, opened, closings, ended, turnsRun, refused, shut, crossed>>

TurnGoesOn == \/ ReadsLedger \/ Runs \/ Reported \/ Conflicts \/ TurnFails
              \/ TurnFills \/ NotesOpening \/ PutsSession
CloseGoesOn(c) == \/ Ends(c) \/ Shuts(c) \/ CloseFills(c) \/ ReadsRow(c) \/ PutsClosed(c)
                  \/ AsksHistory(c) \/ NotesClosing(c)

SessionsNext ==
  \/ TurnBegins \/ TurnGoesOn
  \/ \E c \in Closers : BeginsClose(c) \/ CloseGoesOn(c)
  \/ TellsOfEnd
  \/ \E w \in Workers : Empties(w) \/ Refused(w)
  \/ Dies

SessionsSpec == SessionsInit /\ [][SessionsNext]_sessions

-----------------------------------------------------------------------------
(***************************************************************************)
(* What holds.                                                             *)
(***************************************************************************)
\* ledger.rs 183-190, what "a ledger this build wrote is always true of": in the
\* middle of whatever turns, closes, deaths and changes of identity, a ledger
\* written whole is never refused when it is read, has no session open but the
\* last, and has each under the identity the harness holds it for.
LedgerAgrees ==
  disk.text = "whole" =>
    /\ Agrees(disk)
    /\ \A i \in DOMAIN disk.list :
         /\ disk.list[i].by = harness[i]
         /\ disk.list[i].closed \/ i = Len(disk.list)

\* closing.rs 176-179, "each half is written once however often this is asked":
\* with closes one after another, whatever write is refused and wherever the
\* server dies, the history has one close of the print's session at most.
ClosedOnce == crossed \/ closings <= 1

\* turn.rs 311-313 and ledger.rs 271-280: a session the ledger has shown closed
\* is never open again, nor does a turn run in it, across restarts and a
\* harness that refuses it; as long as no close runs beside a turn.
ClosedStaysClosed ==
  crossed \/ \A n \in shut :
    /\ disk.text = "whole" => disk.list[n].closed
    /\ at["turn"].pc \in {"runs", "runs again", "ran", "answered"} => at["turn"].name # n

\* The three, of one print's sessions.
SessionsInv == LedgerAgrees /\ ClosedOnce /\ ClosedStaysClosed

-----------------------------------------------------------------------------
(***************************************************************************)
(* What the documentation says and the code does not keep.                 *)
(***************************************************************************)
\* command-surface.md 527, of an operator's close: "The record's end, its
\* `print_ended` and its closed session are read back".  Said with nothing in
\* flight, and no turn due on the end.
OperatorsCloseIsReadBack ==
  ended = "operator" /\ (\A w \in Workers : Now(w, "idle"))
    => row = Nobody \/ row.closed
=============================================================================
