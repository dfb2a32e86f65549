----------------------------- MODULE PushChannel -----------------------------
(***************************************************************************)
(* The printer's push channel, from the socket to core (printobserver-     *)
(* octoprint: push.rs; printobserver-server: `pushing` and `Probe` of      *)
(* watch.rs; printobserver-core: `note_push_channel`, `forget_pushes` of   *)
(* watch.rs).  A thread reads the socket's frames into a queue it shares   *)
(* with one task, which notes each push and opens the channel anew when it *)
(* dropped; the position probe sends a command and reads its reply off the *)
(* lines the task keeps; core marks a gap where pushes may be missing.     *)
(*                                                                         *)
(* A push is a reset or the reply to a probe's command: errors go the way  *)
(* of resets, other lines are kept and passed over, and what a reset sets  *)
(* off is PrinterWatch's.  A lost connection, a close frame and a frame no *)
(* server may send end the socket alike.  The server does not stop.        *)
(***************************************************************************)
EXTENDS Integers, Sequences, Functions

CONSTANTS
  MaxPushes, \* what the printer pushes
  MaxDrops,  \* sockets that end
  MaxProbes, \* commands the probe sends
  KeptLines  \* KEPT_LINES

ASSUME PushConstants == {MaxPushes, MaxDrops, MaxProbes} \subseteq Nat /\ KeptLines \in Nat \ {0}

Pushes == 1 .. MaxPushes
ResetPush == 0  \* what a push is of: a reset, or the command it replies to
NoPush == 0 \* what a frame completes, when no message

VARIABLES
  pushLog,  \* what each push so far is of
  replied, \* the commands the printer has replied to
  socket,  \* "closed", "open" or "broken"
  frames,  \* the frames on it, not yet read
  unfinished,   \* the thread has the beginning of a message
  queue, ended, waker, \* what the thread and the task share
  task,    \* "down", "opening", "polling", "parked" or "noting"
  hand,    \* the push the task took
  open, lines, \* what the task and the probe share
  probe,   \* "idle", "open", "taken" or "waiting"
  commands, \* the commands sent
  channel, \* what core was told of the channel: "unknown", "open" or "down"
  gap,     \* `PushFacts.gap`
  drops
VARIABLES \* history
  sent,    \* the pushes the socket delivered, or is still to
  noted,   \* the pushes handed to core or kept
  missed,  \* a push was lost since core last forgot them, with the channel reported on
  answers, \* the commands whose replies the probe answered
  givenUp  \* a command was given up on

host == <<pushLog, replied, socket, frames>>
shared == <<queue, ended, waker>>
core == <<channel, gap>>
probing == <<probe, commands, answers, givenUp>>
passing == <<host, unfinished, shared, task, hand, core, drops, sent, noted, missed>> \* all but the probe's
push == <<passing, open, lines, probing>>

PushInit ==
  /\ pushLog = <<>> /\ replied = 0 /\ socket = "closed" /\ frames = <<>> /\ unfinished = FALSE
  /\ queue = <<>> /\ ended = FALSE /\ waker = FALSE /\ task = "down" /\ hand = NoPush
  /\ open = FALSE /\ lines = <<>> /\ probe = "idle" /\ commands = 0
  /\ channel = "unknown" /\ gap = FALSE /\ drops = 0
  /\ sent = {} /\ noted = <<>> /\ missed = FALSE /\ answers = <<>> /\ givenUp = FALSE

-----------------------------------------------------------------------------
(* The printer's host (external) *)

Whole(n) == <<[op |-> "text", last |-> TRUE, of |-> n]>>
\* A message in two frames, with a ping between them.
Fragments(n) == <<[op |-> "text", last |-> FALSE, of |-> NoPush], [op |-> "ping", last |-> TRUE, of |-> NoPush],
                  [op |-> "continuation", last |-> TRUE, of |-> n]>>
CloseFrame == [op |-> "close", last |-> TRUE, of |-> NoPush]
PushesOn(wire) == {wire[i].of : i \in DOMAIN wire} \ {NoPush}

\* A push reaches nobody when no socket is open, and is not sent again.
HostPushes(what) ==
  LET n == Len(pushLog) + 1 IN
  /\ n <= MaxPushes /\ pushLog' = Append(pushLog, what)
  /\ IF socket = "open"
       THEN /\ \E message \in {Whole(n), Fragments(n)} : frames' = frames \o message
            /\ sent' = sent \union {n} /\ UNCHANGED missed
       ELSE missed' = (missed \/ channel # "unknown") /\ UNCHANGED <<frames, sent>>
  /\ UNCHANGED <<socket, unfinished, shared, task, hand, open, lines, probing, core, drops, noted>>

HostResets == HostPushes(ResetPush) /\ UNCHANGED replied
HostReplies == replied < commands /\ replied' = replied + 1 /\ HostPushes(replied')

\* The socket ends, with or without what was still on its way.
SocketEnds ==
  /\ socket = "open" /\ socket' = "broken" /\ drops < MaxDrops /\ drops' = drops + 1
  /\ \E n \in 0 .. Len(frames) :
       LET cut == PushesOn(SubSeq(frames, n + 1, Len(frames))) IN
       /\ frames' = Append(SubSeq(frames, 1, n), CloseFrame)
       /\ sent' = sent \ cut
       /\ missed' = (missed \/ (cut # {} /\ channel # "unknown"))
  /\ UNCHANGED <<pushLog, replied, unfinished, shared, task, hand, open, lines, probing, core, noted>>

-----------------------------------------------------------------------------
(* The reading thread *)

\* MUTANT of EndsMessage: a ping between a message's fragments ends it.
EndsMessageOnAny(frame) == frame.last
EndsMessage(frame) == frame.last /\ frame.op \in {"text", "continuation"}

\* `hand_over` takes the waker and wakes it.
Woken == IF waker THEN "polling" ELSE task

HandOver(pushes, over) ==
  /\ queue' = queue \o pushes /\ ended' = (ended \/ over)
  /\ waker' = FALSE /\ task' = Woken

\* A continuation of nothing, or a message begun inside an unfinished one, ends
\* the reading as a close does.
ThreadReads ==
  /\ frames # <<>> /\ ~ended /\ frames' = Tail(frames)
  /\ LET frame == Head(frames) IN
     IF \/ frame.op = "close"
        \/ frame.op = "continuation" /\ ~unfinished
        \/ frame.op = "text" /\ unfinished
       THEN HandOver(<<>>, TRUE) /\ UNCHANGED unfinished
     ELSE IF EndsMessage(frame) /\ (unfinished \/ frame.op = "text")
       THEN HandOver(IF frame.of = NoPush THEN <<>> ELSE <<frame.of>>, FALSE) /\ unfinished' = FALSE
     ELSE unfinished' = (unfinished \/ frame.op = "text") /\ UNCHANGED <<shared, task>>
  /\ UNCHANGED <<pushLog, replied, socket, hand, open, lines, probing, core, drops, sent, noted, missed>>

-----------------------------------------------------------------------------
(* `pushing`, the task *)

\* The socket is open and its thread reads before core is told.
TaskConnects ==
  /\ task = "down" /\ task' = "opening"
  /\ socket' = "open" /\ frames' = <<>> /\ unfinished' = FALSE
  /\ queue' = <<>> /\ ended' = FALSE /\ waker' = FALSE
  /\ UNCHANGED <<pushLog, replied, hand, open, lines, probing, core, drops, sent, noted, missed>>

\* `note_push_channel` of a channel that is down marks the gap.
TaskIsRefused ==
  /\ task = "down" /\ open' = FALSE /\ channel' = "down" /\ gap' = TRUE
  /\ UNCHANGED <<host, unfinished, shared, task, hand, lines, probing, drops, sent, noted, missed>>

TaskOpens ==
  /\ task = "opening" /\ task' = "polling" /\ open' = TRUE /\ channel' = "open"
  /\ UNCHANGED <<host, unfinished, shared, hand, lines, probing, gap, drops, sent, noted, missed>>

\* What was read is taken before the end is.
Over == queue = <<>> /\ ended

\* `poll_next`, under the shared lock.
TaskTakes ==
  /\ task = "polling" /\ ~Over /\ queue # <<>>
  /\ hand' = Head(queue) /\ queue' = Tail(queue) /\ task' = "noting"
  /\ UNCHANGED <<host, unfinished, ended, waker, open, lines, probing, core, drops, sent, noted, missed>>

TaskParks ==
  /\ task = "polling" /\ queue = <<>> /\ ~ended
  /\ waker' = TRUE /\ task' = "parked"
  /\ UNCHANGED <<host, unfinished, queue, ended, hand, open, lines, probing, core, drops, sent, noted, missed>>

\* `Terminal::keep`, the oldest line going past KEPT_LINES.
Keep(line) == LET all == Append(lines, line) IN
              IF Len(all) > KeptLines THEN Tail(all) ELSE all

\* A reset is awaited while it is noted; a line is kept.
TaskNotes ==
  /\ task = "noting" /\ task' = "polling" /\ hand' = NoPush /\ noted' = Append(noted, hand)
  /\ lines' = IF pushLog[hand] = ResetPush THEN lines ELSE Keep(pushLog[hand])
  /\ UNCHANGED <<host, unfinished, shared, open, probing, core, drops, sent, missed>>

\* The stream answers its end, and is dropped.
TaskDrops ==
  /\ task = "polling" /\ Over /\ task' = "down"
  /\ open' = FALSE /\ channel' = "down" /\ gap' = TRUE
  /\ socket' = "closed"
  /\ UNCHANGED <<pushLog, replied, frames, unfinished, shared, hand, lines, probing, drops, sent, noted, missed>>

-----------------------------------------------------------------------------
(* `Probe::position` *)

\* With the channel down it asks nothing.
ProbeLooks ==
  /\ probe = "idle" /\ commands < MaxProbes /\ open /\ probe' = "open"
  /\ UNCHANGED <<passing, open, lines, commands, answers, givenUp>>

\* MUTANT of LinesTaken: the lines are read and left.
LinesLeft == lines
\* `Terminal::take`.
LinesTaken == <<>>

ProbeTakes ==
  /\ probe = "open" /\ probe' = "taken" /\ lines' = LinesTaken
  /\ UNCHANGED <<passing, open, commands, answers, givenUp>>

\* A command that failed may have reached the printer.
ProbeSends ==
  /\ probe = "taken"
  /\ \/ commands' = commands + 1 /\ probe' = "waiting" /\ UNCHANGED givenUp
     \/ commands' = commands + 1 /\ probe' = "idle" /\ givenUp' = TRUE
     \/ probe' = "idle" /\ UNCHANGED <<commands, givenUp>>
  /\ UNCHANGED <<passing, open, lines, answers>>

ProbeFinds ==
  /\ probe = "waiting" /\ lines # <<>> /\ probe' = "idle"
  /\ answers' = Append(answers, Head(lines)) /\ lines' = LinesTaken
  /\ UNCHANGED <<passing, open, commands, givenUp>>

\* POSITION_WAIT is over.
ProbeGivesUp ==
  /\ probe = "waiting" /\ probe' = "idle" /\ givenUp' = TRUE
  /\ UNCHANGED <<passing, open, lines, commands, answers>>

-----------------------------------------------------------------------------
(* Core *)

\* MUTANT of GapForgotten: a print begins with no gap.
GapForgottenAlways == FALSE
\* `forget_pushes`, as a print starts or its close-out has read the pushes.
GapForgotten == channel # "open"

CoreForgets ==
  /\ gap' = GapForgotten /\ missed' = FALSE
  /\ UNCHANGED <<host, unfinished, shared, task, hand, open, lines, probing, channel, drops, sent, noted>>

TaskActs == TaskConnects \/ TaskIsRefused \/ TaskOpens \/ TaskTakes \/ TaskParks \/ TaskNotes \/ TaskDrops
PushNext ==
  \/ HostResets \/ HostReplies \/ SocketEnds \/ ThreadReads \/ TaskActs
  \/ ProbeLooks \/ ProbeTakes \/ ProbeSends \/ ProbeFinds \/ ProbeGivesUp \/ CoreForgets

-----------------------------------------------------------------------------
(* Properties *)

InHand == IF hand = NoPush THEN <<>> ELSE <<hand>>
Came == noted \o InHand \o queue
InOrder(numbers) == \A i, j \in DOMAIN numbers : i < j => numbers[i] < numbers[j]

\* What the socket delivers has come, in the order pushed, or is on its frames.
NotedInOrder ==
  /\ InOrder(Came)
  /\ Range(Came) \union PushesOn(frames) = sent
  /\ \A i \in DOMAIN Came, n \in PushesOn(frames) : Came[i] < n
  /\ \A i, j \in DOMAIN frames :
       i < j /\ NoPush \notin {frames[i].of, frames[j].of} => frames[i].of < frames[j].of

WakerIsLeft == task = "parked" => waker /\ queue = <<>> /\ ~ended

\* Each push the socket delivers is noted once and in the order pushed, and none
\* is passed over between the frames and core: not by a ping between a message's
\* fragments, by the socket's end with pushes still queued, nor by a task that
\* waits while they are (push.rs: "a ping or pong between a message's fragments
\* is final in itself, not for the message").
PushesInOrder == NotedInOrder /\ WakerIsLeft

\* A push lost during a print is told as a gap at its close-out, once the end of
\* the socket that lost it has been told (watch.rs: "The push channel was down at
\* some point, so what it pushed is not the whole of what happened") -- unless
\* it was lost before anything was reported on the channel.
LossIsTold == missed => gap \/ (channel = "open" /\ socket = "broken")

\* No reply answers two probes, nor an older one after a newer, and a probe is
\* answered its own command's reply -- unless one before it was given up on,
\* whose reply may come late.
PositionsMoveOn ==
  /\ InOrder(answers)
  /\ givenUp \/ probe = "waiting" \/ answers = [i \in 1 .. commands |-> i]
=============================================================================
