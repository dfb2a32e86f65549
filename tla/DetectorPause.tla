---------------------------- MODULE DetectorPause ----------------------------
(***************************************************************************)
(* A print the detector paused, and the resume an agent's adjustment of it *)
(* earns (printobserver-core: detector.rs, `request_action` and            *)
(* `follow_the_detectors_pause` of actions.rs, `receive_event` and         *)
(* `run_supervision` of events.rs, the expiry thread of supervisor.rs).    *)
(*                                                                         *)
(* One print.  The detector pauses it and says so; requests of the agent   *)
(* and of the operator go through policy to the printer and are followed   *)
(* only once they are written down; and the resume is taken by whichever   *)
(* comes first of the turn's end and the expiry thread, which then ask for *)
(* it as everybody asks.  An agent's request may outlive its turn.         *)
(*                                                                         *)
(* Left out: restarts, after which no pause is held, and recoveries, which *)
(* refuse a resume while one is open.                                      *)
(***************************************************************************)
EXTENDS ActionPolicy, FiniteSets

CONSTANTS
  Requests,  \* the requests of the agent and of the operator
  Asks,      \* Asks[r]: what request r may be, each a pair of who asks and for what
  MaxAlerts, \* how often the detector pauses the print
  MaxTurns,  \* how many turns are driven for a reason other than an alert
  None

ASSUME PauseConstants ==
  /\ Asks \in [Requests -> SUBSET ({"agent", "operator"} \X Kinds)]
  /\ MaxAlerts \in Nat /\ MaxTurns \in Nat
  /\ None \notin Requests /\ Requests \intersect {"turn", "thread"} = {}

Takers == {"turn", "thread"} \* who takes an earned resume
Askers == Requests \union Takers
Alerts == 1 .. MaxAlerts
Pauses == [detection : Alerts, adjusted : SUBSET Requests, due : BOOLEAN]

VARIABLES
  machine,  \* what a read of the printer shows
  ended,    \* whether the print's record has an end
  closing,  \* whether a close-out has forgotten the pause and not ended the print
  alerts,   \* how often the detector has paused the print
  signal,   \* signal[g]: how far the receipt of the g-th pause's event is
  pause,    \* detector_pauses[print]
  ask,      \* ask[x]: how far x's request is, what it is, and the state its snapshot shows
  taken,    \* taken[x]: the pause taker x removed
  driver,   \* "idle", or what the driver of the print's turns is doing
  waiting,  \* whether the inbox holds what no turn has taken
  leaving,  \* whether a driver that found the print ended has yet to forget
  turns,    \* how many turns were driven for a reason other than an alert
  resumes,  \* history: resumes[r]: how often adjustment r earned a resume
  alone     \* history: whether the pause held last was left alone

vars == <<machine, ended, closing, alerts, signal, pause, ask, taken,
          driver, waiting, leaving, turns, resumes, alone>>
print  == <<machine, ended, closing>>
drives == <<driver, waiting, leaving, turns>>
detect == <<alerts, signal>>
history == <<resumes, alone>>

Unasked == [at |-> "new", what |-> None, state |-> Unread]
Over == [at |-> "over", what |-> None, state |-> Unread]

What(x) == IF x \in Takers THEN {<<"system", "resume">>} ELSE Asks[x]
Class(x) == ask[x].what[1]
Kind(x) == ask[x].what[2]

Init ==
  /\ machine = "printing" /\ ended = FALSE /\ closing = FALSE
  /\ alerts = 0 /\ signal = [g \in Alerts |-> "unsent"]
  /\ pause = None
  /\ ask = [x \in Askers |-> Unasked]
  /\ taken = [x \in Takers |-> None]
  /\ driver = "idle" /\ waiting = FALSE /\ leaving = FALSE /\ turns = 0
  /\ resumes = [r \in Requests |-> 0] /\ alone = FALSE

-----------------------------------------------------------------------------
(* The printer and the detector *)

\* The detector sees a failure and pauses the job (external).
DetectorPauses ==
  /\ machine = "printing" /\ alerts < MaxAlerts
  /\ machine' = "paused" /\ alerts' = alerts + 1
  /\ signal' = [signal EXCEPT ![alerts + 1] = "sent"]
  /\ UNCHANGED <<ended, closing, pause, ask, taken, drives, history>>

\* The job reaches its end (external).
JobEnds ==
  /\ machine = "printing" /\ machine' = "operational"
  /\ UNCHANGED <<ended, closing, detect, pause, ask, taken, drives, history>>

\* The grace of the pause held runs out (external).
GraceRunsOut ==
  /\ pause # None /\ pause.adjusted # {} /\ ~pause.due
  /\ pause' = [pause EXCEPT !.due = TRUE]
  /\ UNCHANGED <<print, detect, ask, taken, drives, history>>

-----------------------------------------------------------------------------
(* The receipt of the event that says the detector paused the print *)

\* The print's record is read, and its end leaves the event at that.
ReceiveEvent(g) ==
  /\ signal[g] = "sent"
  /\ signal' = [signal EXCEPT ![g] = IF ended THEN "over" ELSE "received"]
  /\ UNCHANGED <<print, alerts, pause, ask, taken, drives, history>>

\* `note_detector_pause`: a pause already held keeps what it was adjusted by.
NoteDetectorPause(g) ==
  /\ signal[g] = "received"
  /\ signal' = [signal EXCEPT ![g] = "noted"]
  /\ pause' = IF pause = None THEN [detection |-> g, adjusted |-> {}, due |-> FALSE]
              ELSE [pause EXCEPT !.detection = g]
  /\ alone' = FALSE
  /\ UNCHANGED <<print, alerts, ask, taken, drives, resumes>>

\* `claim_or_hand_over`.
ClaimOrHandOver(g) ==
  /\ signal[g] = "noted"
  /\ signal' = [signal EXCEPT ![g] = "over"]
  /\ IF driver = "idle" THEN driver' = "claimed" /\ UNCHANGED waiting
                        ELSE waiting' = TRUE /\ UNCHANGED driver
  /\ UNCHANGED <<print, alerts, pause, ask, taken, leaving, turns, history>>

-----------------------------------------------------------------------------
(* A request, from its snapshot until what it follows *)

\* Whoever asks, asks: a run of the agent while its print's turn is held, the
\* operator at any time, and a taker once it has taken the pause.
MayAsk(x, class) ==
  CASE class = "system" -> taken[x] # None
    [] class = "agent" -> driver = "turn"
    [] OTHER -> TRUE

\* The snapshot is read, or the printer does not answer.
ReadSnapshot(x) ==
  /\ ask[x].at = "new"
  /\ \E what \in What(x), state \in {machine, Unread} :
       /\ MayAsk(x, what[1])
       /\ ask' = [ask EXCEPT ![x] = [at |-> "read", what |-> what, state |-> state]]
  /\ UNCHANGED <<print, detect, pause, taken, drives, history>>

\* What policy decides x on; the agent may or may not have to wait.
Asked(x, since) ==
  [kind |-> Kind(x), class |-> Class(x), print |-> IF ended THEN "ended" ELSE "open",
   state |-> ask[x].state, since |-> since, adjustable |-> "feedrate", value |-> 1,
   bounds |-> [a \in {"feedrate"} |-> [min |-> 1, max |-> 1]]]

\* What the machine is left in by a change the printer takes.
After(kind) == CASE kind = "resume" -> "printing"
                 [] kind = "cancel" -> "operational"
                 [] OTHER -> machine

\* Policy decides on what was read, and an accepted change is asked of the
\* printer, which takes it if it can, or refuses it.
Issue(x) ==
  /\ ask[x].at = "read"
  /\ \/ /\ \E since \in {0, NoChange} : Decide(Asked(x, since)) = "accepted"
        /\ ChangesTheMachine(Kind(x)) => machine \in ValidFrom(Kind(x))
        /\ machine' = After(Kind(x))
        /\ ask' = [ask EXCEPT ![x].at = "issued"]
        /\ UNCHANGED taken
     \/ /\ ask' = [ask EXCEPT ![x] = IF x \in Takers THEN Unasked ELSE Over]
        /\ taken' = [y \in Takers |-> IF y = x THEN None ELSE taken[y]]
        /\ UNCHANGED machine
  /\ UNCHANGED <<ended, closing, detect, pause, drives, history>>

\* MUTANT of Followed: a failure acknowledged with `stop` leaves the pause held.
FollowedWithoutStop(x) ==
  IF pause = None \/ Kind(x) \in {"resume", "cancel"} THEN None
  ELSE IF Class(x) = "agent" /\ Adjusts(Kind(x)) /\ ask[x].state = "paused"
         THEN [pause EXCEPT !.adjusted = @ \union {x}, !.due = FALSE]
  ELSE pause

\* An acknowledgement (the agent's, with `stop`), or anybody's word that moves
\* the print on, leaves the pause alone.
LeavesAlone(x) ==
  (Class(x) = "agent" /\ Kind(x) = "acknowledge") \/ Kind(x) \in {"resume", "cancel"}

\* `follow_the_detectors_pause`: what x does to the pause, by the snapshot read
\* before it was decided.
Followed(x) ==
  IF pause = None \/ LeavesAlone(x) THEN None
  ELSE IF Class(x) = "agent" /\ Adjusts(Kind(x)) /\ ask[x].state = "paused"
         THEN [pause EXCEPT !.adjusted = @ \union {x}, !.due = FALSE]
  ELSE pause

\* The request has been written down: the agent's interval starts again, and
\* the pause follows.
Follow(x) ==
  /\ ask[x].at = "issued"
  /\ ask' = [ask EXCEPT ![x] = IF x \in Takers THEN [@ EXCEPT !.at = "followed"] ELSE Over]
  /\ pause' = Followed(x)
  /\ alone' = (alone \/ (pause # None /\ x \notin Takers /\ LeavesAlone(x)))
  /\ UNCHANGED <<print, detect, taken, drives, resumes>>

-----------------------------------------------------------------------------
(* The resume a pause earned *)

Removed(x) ==
  /\ taken' = [taken EXCEPT ![x] = pause]
  /\ pause' = None
  /\ resumes' = [r \in Requests |-> IF r \in pause.adjusted THEN resumes[r] + 1 ELSE resumes[r]]

\* MUTANT of ResumeDue: what is due is read, and not removed.
ResumeDueAndKeep ==
  /\ taken["thread"] = None /\ pause # None /\ pause.due
  /\ taken' = [taken EXCEPT !["thread"] = pause]
  /\ resumes' = [r \in Requests |-> IF r \in pause.adjusted THEN resumes[r] + 1 ELSE resumes[r]]
  /\ UNCHANGED <<print, detect, pause, ask, drives, alone>>

\* MUTANT of ResumeDue: the grace only runs out in a turn, whose end resumes.
ResumeDueInTurn ==
  /\ taken["thread"] = None /\ pause # None /\ pause.due /\ driver = "turn"
  /\ Removed("thread")
  /\ UNCHANGED <<print, detect, ask, drives, alone>>

\* `resume_due_detector_pauses` of the expiry thread.
ResumeDue ==
  /\ taken["thread"] = None /\ pause # None /\ pause.due
  /\ Removed("thread")
  /\ UNCHANGED <<print, detect, ask, drives, alone>>

\* `resume_adjusted_detector_pause` as the driver's turn ends.
ResumeAdjusted ==
  /\ driver = "ended"
  /\ driver' = "resuming"
  /\ IF pause # None /\ pause.adjusted # {} THEN Removed("turn")
                                            ELSE UNCHANGED <<taken, pause, resumes>>
  /\ UNCHANGED <<print, detect, ask, waiting, leaving, turns, alone>>

\* The resume was carried out, and the detector is told.
ClearDetection(x) ==
  /\ ask[x].at = "followed"
  /\ taken' = [taken EXCEPT ![x] = None]
  /\ ask' = [ask EXCEPT ![x] = Unasked]
  /\ UNCHANGED <<print, detect, pause, drives, history>>

-----------------------------------------------------------------------------
(* The driver of the print's turns, and the print's end *)

\* An event other than the detector's claims the inbox, or is handed over.
AnotherEvent ==
  /\ ~ended /\ turns < MaxTurns /\ turns' = turns + 1
  /\ IF driver = "idle" THEN driver' = "claimed" /\ UNCHANGED waiting
                        ELSE waiting' = TRUE /\ UNCHANGED driver
  /\ UNCHANGED <<print, detect, pause, ask, taken, leaving, history>>

\* The print's turn is taken and its record read: an ended print has no turn,
\* and its inbox is released.
BeginTurn ==
  /\ driver = "claimed" /\ ~closing
  /\ IF ended THEN driver' = "idle" /\ waiting' = FALSE /\ leaving' = TRUE
              ELSE driver' = "turn" /\ UNCHANGED <<waiting, leaving>>
  /\ UNCHANGED <<print, detect, pause, ask, taken, turns, history>>

\* MUTANT of ForgetAsEnded: a driver that found the print ended just leaves.
LeaveAsEnded ==
  /\ leaving /\ leaving' = FALSE
  /\ UNCHANGED <<print, detect, pause, ask, taken, driver, waiting, turns, history>>

\* The driver that found the print ended forgets its pause.
ForgetAsEnded ==
  /\ leaving /\ leaving' = FALSE /\ pause' = None
  /\ UNCHANGED <<print, detect, ask, taken, driver, waiting, turns, history>>

EndTurn ==
  /\ driver = "turn" /\ driver' = "ended"
  /\ UNCHANGED <<print, detect, pause, ask, taken, waiting, leaving, turns, history>>

\* The turn's resume, if it took one, is over: `next_or_release`.
NextOrRelease ==
  /\ driver = "resuming" /\ taken["turn"] = None
  /\ driver' = IF waiting THEN "claimed" ELSE "idle"
  /\ waiting' = FALSE
  /\ UNCHANGED <<print, detect, pause, ask, taken, leaving, turns, history>>

\* `close_out_print`, with the print's turn held, in two steps: the pause is
\* forgotten, and later on the print ended.
CloseOut ==
  /\ machine = "operational" /\ ~ended /\ ~closing /\ driver # "turn"
  /\ closing' = TRUE /\ pause' = None
  /\ UNCHANGED <<machine, ended, detect, ask, taken, drives, history>>
EndPrint ==
  /\ closing /\ closing' = FALSE /\ ended' = TRUE
  /\ UNCHANGED <<machine, detect, pause, ask, taken, drives, history>>

Next ==
  \/ DetectorPauses \/ JobEnds \/ GraceRunsOut
  \/ \E g \in Alerts : ReceiveEvent(g) \/ NoteDetectorPause(g) \/ ClaimOrHandOver(g)
  \/ \E x \in Askers : ReadSnapshot(x) \/ Issue(x) \/ Follow(x)
  \/ \E x \in Takers : ClearDetection(x)
  \/ ResumeDue \/ ResumeAdjusted
  \/ AnotherEvent \/ BeginTurn \/ ForgetAsEnded \/ EndTurn \/ NextOrRelease
  \/ CloseOut \/ EndPrint

\* Every task the server runs goes on, the clock moves, a turn ends (its
\* harness times out), and the expiry thread polls for ever.
Fairness ==
  /\ WF_vars(GraceRunsOut) /\ WF_vars(ResumeDue)
  /\ WF_vars(ResumeAdjusted) /\ WF_vars(BeginTurn) /\ WF_vars(ForgetAsEnded)
  /\ WF_vars(EndTurn) /\ WF_vars(NextOrRelease) /\ WF_vars(EndPrint)
  /\ \A g \in Alerts : WF_vars(ReceiveEvent(g) \/ NoteDetectorPause(g) \/ ClaimOrHandOver(g))
  /\ \A x \in Askers : WF_vars(Issue(x) \/ Follow(x))
  /\ \A x \in Takers : WF_vars(ReadSnapshot(x)) /\ WF_vars(ClearDetection(x))

Spec == Init /\ [][Next]_vars /\ Fairness

-----------------------------------------------------------------------------
(* Properties *)

AskRecords == [at : {"new", "read", "issued", "followed", "over"},
               what : {None} \union (Classes \X Kinds), state : States \union {Unread}]

\* Every variable holds a value of its kind.
PauseTypeOK ==
  /\ machine \in States /\ ended \in BOOLEAN /\ closing \in BOOLEAN
  /\ alerts \in 0 .. MaxAlerts
  /\ signal \in [Alerts -> {"unsent", "sent", "received", "noted", "over"}]
  /\ pause \in Pauses \union {None}
  /\ ask \in [Askers -> AskRecords]
  /\ taken \in [Takers -> Pauses \union {None}]
  /\ driver \in {"idle", "claimed", "turn", "ended", "resuming"}
  /\ waiting \in BOOLEAN /\ leaving \in BOOLEAN /\ alone \in BOOLEAN
  /\ turns \in 0 .. MaxTurns /\ resumes \in [Requests -> Nat]

\* "No resume without an adjustment" (detector.rs:60), and none twice: of the
\* turn's end and the expiry thread only one removes a pause, so every resume
\* was earned by an adjustment, and an adjustment earns at most one.
OneResumeEach ==
  /\ \A r \in Requests : resumes[r] <= 1
  /\ \A x \in Takers : taken[x] # None => taken[x].adjusted # {}

\* What keeps it: an adjustment a pause holds has been followed and has earned
\* no resume yet, and a resume is due only of a pause that was adjusted.
PauseInv ==
  /\ PauseTypeOK /\ OneResumeEach
  /\ \A r \in Requests : resumes[r] > 0 => ask[r].at = "over"
  /\ pause # None =>
       /\ pause.due => pause.adjusted # {}
       /\ \A r \in pause.adjusted : ask[r].at = "over" /\ resumes[r] = 0

\* Once the agent said to stop, or somebody else moved the print on, and the
\* pause followed, no resume is taken until the detector pauses the print anew
\* (detector.rs:29): whichever adjustments are still in flight.
LeftAlone == [][\A x \in Takers : taken'[x] # taken[x] /\ taken'[x] # None => ~alone]_vars

\* A resume that was earned comes: the pause is taken, or left for a person.
EarnedResumeComes == (pause # None /\ pause.adjusted # {}) ~> (pause = None)

\* Whatever order an alert's receipt and the print's end come in, the pause of
\* an ended print is not held for ever: the turn the alert claims forgets it.
EndedPauseIsForgotten == (ended /\ pause # None) ~> (pause = None)
=============================================================================
