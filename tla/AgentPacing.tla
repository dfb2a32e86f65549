----------------------------- MODULE AgentPacing -----------------------------
(***************************************************************************)
(* How long the agent waits between two changes of the machine             *)
(* (printobserver-core: since_last_agent_action, recorded_agent_action and *)
(* note_agent_action of supervisor.rs, ClockReading of clock.rs, the       *)
(* interval of decision.rs), over restarts and a wall clock that is        *)
(* stepped.                                                                *)
(*                                                                         *)
(* One print and one request at a time.  `time` is true time in seconds:   *)
(* the clock nothing steps reads the time since the process started, the   *)
(* wall clock reads `time + wall`.                                         *)
(***************************************************************************)
EXTENDS ActionPolicy

CONSTANTS
  MaxTime,     \* how many seconds pass
  MaxSkew,     \* how far the wall clock is stepped either way
  MaxRestarts  \* how often the server is restarted

ASSUME PacingConstants == {MaxTime, MaxSkew, MaxRestarts} \subseteq Nat

VARIABLES
  time,     \* true time
  wall,     \* how far the wall clock is ahead of it
  started,  \* Supervisor.started: the true time, and what the wall clock read
  known,    \* last_agent_action[print]: NotAsked, Unchanged, or the last change
  recorded, \* the newest change the history holds: when, and how far ahead the wall clock was
  change,   \* how far a change is: "none", "reached" the machine, "requested" or "noted"
  dated,    \* what the history's request of that change is dated by
  restarts,
  last,     \* history: the true time of the last change that reached the machine
  settled,  \* history: the true time the last change was noted, or the server started
  excused   \* history: the last change is lost, or a wall clock stepped ahead dates it too early

pacing == <<time, wall, started, known, recorded, change, dated, restarts, last, settled,
            excused>>

Never == [time |-> NoChange, wall |-> 0]           \* the history holds no change
NotAsked == [seen_at |-> NoChange, already |-> -1] \* the history has not been read
Unchanged == [seen_at |-> NoChange, already |-> 0] \* it was, and held no change

PacingInit ==
  /\ time = 0 /\ wall = 0
  /\ started = [at |-> 0, wall |-> 0]
  /\ known = NotAsked /\ recorded = Never
  /\ change = "none" /\ dated = Never /\ restarts = 0
  /\ last = NoChange /\ settled = 0 /\ excused = FALSE

\* `Clock::elapsed`, which begins with the process.
Elapsed == time - started.at

\* MUTANT of AlreadyWaited: a change dated after the start is waited for.
AlreadyWaitedUnclamped == started.wall - (recorded.time + recorded.wall)

\* MUTANT of AlreadyWaited: what is left is counted on a clock that has run on.
AlreadyWaitedTwice ==
  LET at == recorded.time + recorded.wall IN
  IF started.wall > at THEN time + wall - at ELSE 0

\* How long the newest change of the history had been made as the supervisor
\* started: one dated later than that was made as it started.
AlreadyWaited ==
  LET at == recorded.time + recorded.wall IN
  IF started.wall > at THEN started.wall - at ELSE 0

\* `since_last_agent_action`: what is known of the last change, read from the
\* history the first time it is asked for, and how long ago that was.
Known == IF known # NotAsked THEN known
         ELSE IF recorded = Never THEN Unchanged
         ELSE [seen_at |-> 0, already |-> AlreadyWaited]
Since == IF Known = Unchanged THEN NoChange ELSE (Elapsed - Known.seen_at) + Known.already

\* What policy says to a resume the agent asks for now.
Verdict == Decide([kind |-> "resume", class |-> "agent", print |-> "open", state |-> "paused", since |-> Since])

\* The agent asks to change the machine: policy decides, and what it accepts
\* reaches the machine.
AskChange ==
  /\ change = "none"
  /\ known' = Known
  /\ IF Verdict = "accepted" THEN change' = "reached" /\ last' = time /\ excused' = FALSE
                           ELSE UNCHANGED <<change, last, excused>>
  /\ UNCHANGED <<time, wall, started, recorded, dated, restarts, settled>>

\* The history gets the request, dated by the wall clock.
RecordRequested ==
  /\ change = "reached" /\ change' = "requested"
  /\ dated' = [time |-> time, wall |-> wall]
  /\ UNCHANGED <<time, wall, started, known, recorded, restarts, last, settled, excused>>

\* `note_agent_action`.
NoteAgentAction ==
  /\ change = "requested" /\ change' = "noted"
  /\ known' = [seen_at |-> Elapsed, already |-> 0] /\ settled' = time
  /\ UNCHANGED <<time, wall, started, recorded, dated, restarts, last, excused>>

\* The history gets that it was carried out, without which a later start does
\* not count it.
RecordExecuted ==
  /\ change = "noted" /\ change' = "none"
  /\ recorded' = dated /\ dated' = Never
  /\ UNCHANGED <<time, wall, started, known, restarts, last, settled, excused>>

Second ==
  /\ time < MaxTime /\ time' = time + 1
  /\ UNCHANGED <<wall, started, known, recorded, change, dated, restarts, last, settled, excused>>

\* The host's time synchronisation steps the wall clock (external).
StepWall ==
  /\ wall' \in (-MaxSkew .. MaxSkew) \ {wall}
  /\ UNCHANGED <<time, started, known, recorded, change, dated, restarts, last, settled, excused>>

\* The server dies and starts: a change it had not finished recording is lost.
Restart ==
  /\ restarts < MaxRestarts /\ restarts' = restarts + 1
  /\ started' = [at |-> time, wall |-> time + wall]
  /\ known' = NotAsked /\ change' = "none" /\ dated' = Never /\ settled' = time
  /\ excused' = (excused \/ change # "none" \/ (recorded # Never /\ wall > recorded.wall))
  /\ UNCHANGED <<time, wall, recorded, last>>

PacingNext ==
  \/ AskChange \/ RecordRequested \/ NoteAgentAction \/ RecordExecuted
  \/ Second \/ StepWall \/ Restart

-----------------------------------------------------------------------------
(* Properties *)

\* Between two changes of the agent the whole interval passes, however the wall
\* clock is stepped while the server runs and across any restart -- but for a
\* change a crash kept out of the history, and a clock stepped ahead across the
\* restart.
NeverTooEarly ==
  change = "none" /\ Verdict = "accepted" /\ last # NoChange /\ ~excused => time - last >= Interval

\* No stepped clock and no restart holds the agent back longer than the interval
\* after its change was noted or the server started (supervisor.rs:512).
NeverHeldLonger ==
  change = "none" /\ Verdict = "min_interval_not_elapsed" => time - settled < Interval

\* The two: the agent is held back for the interval, neither less nor more.
TheIntervalIsKept == NeverTooEarly /\ NeverHeldLonger
=============================================================================
