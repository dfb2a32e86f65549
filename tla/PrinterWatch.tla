---------------------------- MODULE PrinterWatch ----------------------------
(***************************************************************************)
(* What the watch holds in memory between its reads (printobserver-core:   *)
(* watch.rs, with the close-out of events.rs it follows up): the reset the *)
(* printer pushed during a print, the unattended window after an           *)
(* unfinished ending, and what the store refused and the next round is to  *)
(* write.  A read closes a print out under the resolution of prints and an *)
(* agent's turn under none, the push handler runs beside both, and a       *)
(* watch round beside all three.                                           *)
(*                                                                         *)
(* The push channel is open throughout, the printer reports no error, and  *)
(* the turn an activity claims is left out.                                *)
(***************************************************************************)
EXTENDS Integers, FiniteSets

CONSTANTS
  MaxRuns,       \* jobs, each a print of its own
  MaxIdleResets, \* resets of an idle printer
  MaxRefusals,   \* what the store refuses
  MaxRestarts    \* restarts of the server

ASSUME WatchConstants == {MaxRuns, MaxIdleResets, MaxRefusals, MaxRestarts} \subseteq Nat

Prints == 1 .. MaxRuns
Closers == {"read", "turn", "round"} \* the round follows up only what it was left
NoPrint == 0
Quiet == "quiet"
NoWindow == [print |-> NoPrint, recorded |-> Quiet]
NoClose == [stage |-> "none", print |-> NoPrint]

VARIABLES
  job,      \* the print whose job the machine runs, or NoPrint
  begun,    \* the jobs it began
  cause,    \* how each stopped: "running", "completed", "cancelled" or "reset"
  record,   \* each print's record: "none", "open", "settled" or "ended"
  outcome,  \* what its settlement says of it
  wire,     \* resets pushed and not yet taken
  writing,  \* a reset is being written down
  reset,    \* `PushFacts.reset`
  pending_resets,
  closing,  \* each close-out, or follow-up, in flight
  window,   \* `unattended`: its print and the activity last recorded
  pending_ends,
  round     \* the watch's round: its stage, the ends it has taken, what it saw
VARIABLES \* bounds and history
  idle_resets, refusals, restarts,
  pushed,   \* the resets ever pushed, less those a restart forgot
  resets,   \* the resets written down
  claims,   \* the turns claimed on each print's end
  written,  \* the activities written down, of each print
  blurred,  \* the prints a reset not theirs may be taken for, or theirs not reach
  forgotten,\* the ends a restart forgot
  replaced  \* a window was replaced while an activity of the one before was written

machine == <<job, begun, cause>>
kept == <<reset, pending_resets, window, pending_ends>>
bounds == <<idle_resets, refusals, restarts>>
watch == <<machine, record, outcome, wire, writing, kept, closing, round, bounds, pushed, resets, claims,
           written, blurred, forgotten, replaced>>

NoRound == [stage |-> "none", ends |-> {}, print |-> NoPrint, saw |-> Quiet]
WatchInit ==
  /\ job = NoPrint /\ begun = 0 /\ cause = [p \in Prints |-> "running"]
  /\ record = [p \in Prints |-> "none"] /\ outcome = [p \in Prints |-> "none"]
  /\ wire = 0 /\ writing = FALSE /\ reset = FALSE /\ pending_resets = 0
  /\ closing = [c \in Closers |-> NoClose] /\ window = NoWindow /\ pending_ends = {} /\ round = NoRound
  /\ idle_resets = 0 /\ refusals = 0 /\ restarts = 0 /\ pushed = 0 /\ resets = 0
  /\ claims = [p \in Prints |-> 0] /\ written = {} /\ blurred = {} /\ forgotten = {} /\ replaced = FALSE

\* The store answers, or refuses while it may.
Answered == refusals' = refusals
Refused == refusals < MaxRefusals /\ refusals' = refusals + 1

OpenRecords == {p \in Prints : record[p] = "open"}

-----------------------------------------------------------------------------
(* The printer (external) *)

JobStarts ==
  /\ job = NoPrint /\ begun < MaxRuns /\ begun' = begun + 1 /\ job' = begun + 1
  /\ UNCHANGED <<cause, record, outcome, wire, writing, kept, closing, round, bounds, pushed, resets,
                 claims, written, blurred, forgotten, replaced>>

\* A reset blurs every open print but the one it stopped.
Reset(p) ==
  /\ wire' = wire + 1 /\ pushed' = pushed + 1
  /\ blurred' = blurred \union (OpenRecords \ {p})

JobStops(how) ==
  /\ job # NoPrint /\ cause' = [cause EXCEPT ![job] = how] /\ job' = NoPrint
  /\ IF how = "reset" THEN Reset(job) ELSE UNCHANGED <<wire, pushed, blurred>>
  /\ UNCHANGED <<begun, record, outcome, writing, kept, closing, round, bounds, resets, claims, written,
                 forgotten, replaced>>

IdleReset ==
  /\ job = NoPrint /\ idle_resets < MaxIdleResets /\ idle_resets' = idle_resets + 1
  /\ Reset(NoPrint)
  /\ UNCHANGED <<machine, record, outcome, writing, kept, closing, round, refusals, restarts, resets,
                 claims, written, forgotten, replaced>>

-----------------------------------------------------------------------------
(* `note_push`: sets the flag, and writes the reset down *)

\* One push is taken at a time, and what the read of the running print answers
\* is only the wording of what is written.
PushSetsTheFlag ==
  /\ ~writing /\ wire > 0 /\ wire' = wire - 1 /\ writing' = TRUE /\ reset' = TRUE
  /\ UNCHANGED <<machine, record, outcome, pending_resets, window, pending_ends, closing, round, bounds,
                 pushed, resets, claims, written, blurred, forgotten, replaced>>

PushWrites ==
  /\ writing /\ writing' = FALSE
  /\ \/ Answered /\ resets' = resets + 1 /\ UNCHANGED pending_resets
     \/ Refused /\ pending_resets' = pending_resets + 1 /\ UNCHANGED resets
  /\ UNCHANGED <<machine, record, outcome, wire, reset, window, pending_ends, closing, round, idle_resets,
                 restarts, pushed, claims, written, blurred, forgotten, replaced>>

-----------------------------------------------------------------------------
(* Reads that find a job running *)

\* MUTANT of PushesAtStart: a print keeps what was pushed before it.
PushesBefore == reset
\* `record_print_started` forgets the pushes.
PushesAtStart == FALSE

\* The open prints whose own reset is forgotten with the rest, and the running
\* one, which an earlier reset is still to reach.
Erased == IF reset THEN OpenRecords ELSE {}

Adopts ==
  /\ job # NoPrint /\ record[job] = "none" /\ closing["read"] = NoClose
  /\ \A p \in Prints : record[p] \in {"open", "settled"} => closing["turn"].print = p
  /\ record' = [record EXCEPT ![job] = "open"]
  /\ reset' = PushesAtStart /\ window' = NoWindow
  /\ blurred' = blurred \union Erased \union (IF wire > 0 THEN {job} ELSE {})
  /\ UNCHANGED <<machine, outcome, wire, writing, pending_resets, pending_ends, closing, round, bounds,
                 pushed, resets, claims, written, forgotten, replaced>>

\* An alert or a start that opens the job's print settles no other, and leaves
\* the window to the next read.
OpensUnread ==
  /\ job # NoPrint /\ record[job] = "none" /\ closing["read"] = NoClose
  /\ record' = [record EXCEPT ![job] = "open"] /\ reset' = PushesAtStart
  /\ blurred' = blurred \union Erased \union (IF wire > 0 THEN {job} ELSE {})
  /\ UNCHANGED <<machine, outcome, wire, writing, pending_resets, window, pending_ends, closing, round,
                 bounds, pushed, resets, claims, written, forgotten, replaced>>

\* `note_job_running`.
FindsRunning ==
  /\ job # NoPrint /\ record[job] = "open" /\ closing["read"] = NoClose /\ window # NoWindow
  /\ window' = NoWindow
  /\ UNCHANGED <<machine, record, outcome, wire, writing, reset, pending_resets, pending_ends, closing, round,
                 bounds, pushed, resets, claims, written, blurred, forgotten, replaced>>

-----------------------------------------------------------------------------
(* `close_out_print` *)

CloseBegins(c, p) ==
  /\ c # "round" /\ closing[c] = NoClose /\ \A d \in Closers : closing[d].print # p
  /\ record[p] \in {"open", "settled"} /\ job # p
  /\ closing' = [closing EXCEPT ![c] = [stage |-> "settling", print |-> p]]
  /\ UNCHANGED <<machine, record, outcome, wire, writing, kept, round, bounds, pushed, resets, claims, written,
                 blurred, forgotten, replaced>>

\* `settle_filament` waits for the reset that may still arrive, and no longer
\* than its grace; a print settled before is not settled again.
CloseSettles(c) ==
  LET p == closing[c].print IN
  /\ closing[c].stage = "settling"
  /\ \/ Answered /\ closing' = [closing EXCEPT ![c].stage = "ending"]
        /\ IF record[p] = "open"
             THEN /\ outcome' = [outcome EXCEPT ![p] = IF cause[p] = "completed" THEN "completed"
                                                       ELSE IF reset THEN "interrupted" ELSE "cancelled"]
                  /\ record' = [record EXCEPT ![p] = "settled"]
                  /\ blurred' = IF cause[p] = "reset" /\ ~reset /\ wire > 0 THEN blurred \union {p} ELSE blurred
             ELSE UNCHANGED <<outcome, record, blurred>>
     \/ Refused /\ closing' = [closing EXCEPT ![c] = NoClose] /\ UNCHANGED <<outcome, record, blurred>>
  /\ UNCHANGED <<machine, wire, writing, kept, round, idle_resets, restarts, pushed, resets, claims, written,
                 forgotten, replaced>>

CloseEndsRecord(c) ==
  /\ closing[c].stage = "ending"
  /\ record' = [record EXCEPT ![closing[c].print] = "ended"]
  /\ closing' = [closing EXCEPT ![c].stage = "following"]
  /\ UNCHANGED <<machine, outcome, wire, writing, kept, round, bounds, pushed, resets, claims, written, blurred,
                 forgotten, replaced>>

-----------------------------------------------------------------------------
(* `after_close_out`, at a close-out (`follow_up_end`) or retried by a round *)

\* MUTANT of Owed: what the store refuses is dropped.
OwedNoMore(p) == pending_ends
Owed(p) == pending_ends \union {p}

\* Forgets the pushes, and reads how the print ended; a print begun since loses
\* a reset of its own.
FollowForgets(c) ==
  LET p == closing[c].print IN
  /\ closing[c].stage = "following"
  /\ reset' = FALSE
  /\ blurred' = blurred \union Erased
  /\ \/ Answered /\ UNCHANGED pending_ends
        /\ IF outcome[p] = "interrupted"
             THEN closing' = [closing EXCEPT ![c].stage = "opening"] /\ UNCHANGED window
             ELSE closing' = [closing EXCEPT ![c] = NoClose] /\ window' = NoWindow
     \/ Refused /\ pending_ends' = Owed(p) /\ closing' = [closing EXCEPT ![c] = NoClose] /\ UNCHANGED window
  /\ UNCHANGED <<machine, record, outcome, wire, writing, pending_resets, round, idle_resets, restarts, pushed,
                 resets, claims, written, forgotten, replaced>>

\* Opens the window anew, and claims the print's agent a turn on its end.
FollowOpens(c) ==
  LET p == closing[c].print IN
  /\ closing[c].stage = "opening" /\ closing' = [closing EXCEPT ![c] = NoClose]
  /\ window' = [print |-> p, recorded |-> Quiet]
  /\ \/ Answered /\ claims' = [claims EXCEPT ![p] = @ + 1] /\ UNCHANGED pending_ends
     \/ Refused /\ pending_ends' = Owed(p) /\ UNCHANGED claims
  /\ replaced' = (replaced \/ round.stage \in {"writing", "marking"})
  /\ UNCHANGED <<machine, record, outcome, wire, writing, reset, pending_resets, round, idle_resets, restarts,
                 pushed, resets, written, blurred, forgotten>>

-----------------------------------------------------------------------------
(* `watch_printer`: the round *)

\* `catch_up`: the resets the store refused, and then the ends.
RoundCatchesUp ==
  /\ round = NoRound
  /\ \/ Answered /\ resets' = resets + pending_resets /\ pending_resets' = 0
     \/ pending_resets > 0 /\ Refused /\ UNCHANGED <<resets, pending_resets>>
  /\ round' = [NoRound EXCEPT !.stage = "ends", !.ends = pending_ends] /\ pending_ends' = {}
  /\ UNCHANGED <<machine, record, outcome, wire, writing, reset, window, closing, idle_resets, restarts, pushed,
                 claims, written, blurred, forgotten, replaced>>

RoundFollows(p) ==
  /\ round.stage = "ends" /\ p \in round.ends /\ closing["round"] = NoClose
  /\ round' = [round EXCEPT !.ends = @ \ {p}]
  /\ closing' = [closing EXCEPT !["round"] = [stage |-> "following", print |-> p]]
  /\ UNCHANGED <<machine, record, outcome, wire, writing, kept, bounds, pushed, resets, claims, written, blurred,
                 forgotten, replaced>>

\* `watch_unattended` takes the window it found, once its reads found no job.
RoundLooks ==
  /\ round.stage = "ends" /\ round.ends = {} /\ closing["round"] = NoClose
  /\ round' = IF window # NoWindow /\ job = NoPrint
                THEN [round EXCEPT !.stage = "looking", !.print = window.print] ELSE NoRound
  /\ UNCHANGED <<machine, record, outcome, wire, writing, kept, closing, bounds, pushed, resets, claims, written,
                 blurred, forgotten, replaced>>

\* No activity ends the one under way.
Compared(saw) == IF saw = Quiet THEN [window EXCEPT !.recorded = Quiet] ELSE window

\* What the heaters and the head show, against the window if it is still that
\* print's.
RoundCompares ==
  /\ round.stage = "looking"
  /\ IF window.print # round.print THEN round' = NoRound /\ UNCHANGED window
     ELSE \E saw \in {Quiet, "active"} :
            /\ window' = Compared(saw)
            /\ round' = IF saw \in {Quiet, window.recorded} THEN NoRound
                        ELSE [round EXCEPT !.stage = "writing", !.saw = saw]
  /\ UNCHANGED <<machine, record, outcome, wire, writing, reset, pending_resets, pending_ends, closing, bounds,
                 pushed, resets, claims, written, blurred, forgotten, replaced>>

RoundWrites ==
  /\ round.stage = "writing"
  /\ \/ Answered /\ round' = [round EXCEPT !.stage = "marking"]
        /\ written' = written \union {<<round.print, round.saw>>}
     \/ Refused /\ round' = NoRound /\ UNCHANGED written
  /\ UNCHANGED <<machine, record, outcome, wire, writing, kept, closing, idle_resets, restarts, pushed, resets,
                 claims, blurred, forgotten, replaced>>

\* Whatever window is open by then.
RoundMarks ==
  /\ round.stage = "marking" /\ round' = NoRound
  /\ window' = IF window = NoWindow THEN window ELSE [window EXCEPT !.recorded = round.saw]
  /\ UNCHANGED <<machine, record, outcome, wire, writing, reset, pending_resets, pending_ends, closing, bounds,
                 pushed, resets, claims, written, blurred, forgotten, replaced>>

-----------------------------------------------------------------------------
(* A restart forgets everything but the records *)

Unanswered == {p \in Prints : record[p] = "ended" /\ claims[p] = 0}

ServerRestarts ==
  /\ restarts < MaxRestarts /\ restarts' = restarts + 1
  /\ writing' = FALSE /\ reset' = FALSE /\ pending_resets' = 0 /\ window' = NoWindow /\ pending_ends' = {}
  /\ closing' = [c \in Closers |-> NoClose] /\ round' = NoRound
  /\ pushed' = resets + wire
  /\ blurred' = blurred \union OpenRecords /\ forgotten' = forgotten \union Unanswered
  /\ UNCHANGED <<machine, record, outcome, wire, idle_resets, refusals, resets, claims, written, replaced>>

WatchNext ==
  \/ JobStarts \/ IdleReset \/ \E how \in {"completed", "cancelled", "reset"} : JobStops(how)
  \/ PushSetsTheFlag \/ PushWrites
  \/ Adopts \/ OpensUnread \/ FindsRunning
  \/ \E c \in Closers :
       \/ \E p \in Prints : CloseBegins(c, p)
       \/ CloseSettles(c) \/ CloseEndsRecord(c) \/ FollowForgets(c) \/ FollowOpens(c)
  \/ RoundCatchesUp \/ \E p \in Prints : RoundFollows(p)
  \/ RoundLooks \/ RoundCompares \/ RoundWrites \/ RoundMarks \/ ServerRestarts

-----------------------------------------------------------------------------
(* Properties *)

\* A print is settled as interrupted exactly when a reset stopped it, whatever
\* resets came before it and however pushes and close-outs interleave -- unless
\* its reset outlasted the grace it is given, a reset of an idle printer crossed
\* its start or its end, or another print's follow-up came while it ran
\* (watch.rs: "what a print's run pushed is kept for its whole run").
ResetsReachTheirPrint ==
  \A p \in Prints \ blurred :
    outcome[p] # "none" => (outcome[p] = "interrupted" <=> cause[p] = "reset")

\* Every reset pushed is written down once, and every unfinished ending gives
\* its print's agent one turn, however often the store refuses: what is not yet
\* answered is in flight or kept for the next round, until a restart forgets it
\* (watch.rs: "Each still refused is kept for the round after").
Following(p) ==
  \/ p \in pending_ends \union round.ends
  \/ \E c \in Closers : closing[c].print = p /\ closing[c].stage \in {"following", "opening"}
KeptUntilAnswered ==
  /\ pushed = resets + pending_resets + wire + (IF writing THEN 1 ELSE 0)
  /\ \A p \in Prints \ forgotten :
       record[p] = "ended" /\ outcome[p] = "interrupted" => claims[p] = IF Following(p) THEN 0 ELSE 1

\* An activity the window remembers was written down, of the window's own print,
\* so none the store refused is passed over (watch.rs: "Remembered only once it
\* is written down") -- unless the window was replaced during the write.
RememberedIsWritten ==
  replaced \/ window.recorded = Quiet \/ <<window.print, window.recorded>> \in written

\* What the store refuses is owed until it is answered, and nothing else is.
KeptUntilWritten == KeptUntilAnswered /\ RememberedIsWritten
=============================================================================
