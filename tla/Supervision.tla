----------------------------- MODULE Supervision -----------------------------
(***************************************************************************)
(* What reaches the agent of one print, and when the print is ended        *)
(* (printobserver-core: events.rs, inbox.rs, observation.rs, look.rs,      *)
(* the close-out of listing.rs and its follow-up in watch.rs).             *)
(*                                                                         *)
(* An event about the print claims its inbox and drives turns on it, or is *)
(* handed to whoever drives them already.  Every driver takes the print's  *)
(* turn (TurnLocks) around each of its agent's turns, and around the       *)
(* close-out it makes of a print it saw was over; a read that finds the    *)
(* print over closes it out only if no turn holds it.  A driver is         *)
(* identified by the arrival that claimed the inbox for it.                *)
(*                                                                         *)
(* Left out: the operator's close, what the agent asks of the machine, and *)
(* restarts, after which no inbox is left.                                 *)
(***************************************************************************)
EXTENDS Naturals, Sequences, FiniteSets

CONSTANTS
  NAlerts,      \* how many alerts about the print are received
  Observations, \* the periodic observations of the print
  Looks,        \* the looks anybody takes of the print
  MaxFailures,  \* how often the store may fail a step that it fails
  End,          \* the event the close-out writes, when its end needs a turn
  Reader,       \* whoever reads the printer: a listing, a status, a watch
  Nobody

ASSUME SupervisionConstants == NAlerts \in Nat /\ MaxFailures \in Nat

Alerts == 1 .. NAlerts  \* numbered as they reach the inbox
ASSUME Distinct ==
  /\ Observations \intersect Alerts = {} /\ End \notin Alerts \union Observations
  /\ Reader \notin Alerts \union Observations \union {End}
  /\ Nobody \notin Alerts \union Observations \union {End, Reader}

Arrivals == Alerts \union Observations \union {End}
Actors == Arrivals \union {Reader}

VARIABLES
  open,     \* whether the print's record has no end
  over,     \* whether the printer shows the print's job over
  busy,     \* whether the inbox is claimed
  pending,  \* what the inbox holds for the turn that runs, oldest first
  holder,   \* the task that holds the print's turn
  pc,       \* where each task is
  on,       \* on[t]: what the driver's turn is on; the last is its arrival
  verdict,  \* verdict[t]: what the driver's last turn came to
  hand,     \* hand[l]: what a look took and has not delivered
  given,    \* history: given[a]: how many turns and looks a was delivered to
  failures  \* how often the store has failed

inbox == <<busy, pending>>
job   == <<open, over>>
supervision == <<open, over, busy, pending, holder, pc, on, verdict, hand, given, failures>>

SupervisionInit ==
  /\ open = TRUE /\ over = FALSE
  /\ busy = FALSE /\ pending = <<>>
  /\ holder = Nobody
  /\ pc = [t \in Actors |-> "new"]
  /\ on = [t \in Actors |-> <<>>]
  /\ verdict = [t \in Actors |-> "none"]
  /\ hand = [l \in Looks |-> <<>>]
  /\ given = [a \in Arrivals |-> 0]
  /\ failures = 0

In(s) == {s[i] : i \in DOMAIN s}
Is(t, where) == pc[t] = where
To(t, where) == pc' = [pc EXCEPT ![t] = where]
Delivered(s) == [a \in Arrivals |-> IF a \in In(s) THEN given[a] + 1 ELSE given[a]]
Fails == failures < MaxFailures /\ failures' = failures + 1

-----------------------------------------------------------------------------
(***************************************************************************)
(* What arrives.                                                           *)
(***************************************************************************)
\* The printer's job ends.
JobIsOver ==
  /\ ~over /\ over' = TRUE
  /\ UNCHANGED <<open, inbox, holder, pc, on, verdict, hand, given, failures>>

\* An alert is correlated with the print; nothing comes of it when the print
\* has ended by then.
Resolve(a) ==
  /\ a \in Alerts /\ Is(a, "new")
  /\ To(a, IF open THEN "resolved" ELSE "done")
  /\ UNCHANGED <<job, inbox, holder, on, verdict, hand, given, failures>>

\* The print is listed to be observed, unless it has ended or the printer, when
\* it answers, shows its job over.
List(o) ==
  /\ o \in Observations /\ Is(o, "new")
  /\ \E terminal \in {over, FALSE} :
       To(o, IF open /\ ~terminal THEN "resolved" ELSE "done")
  /\ UNCHANGED <<job, inbox, holder, on, verdict, hand, given, failures>>

\* MUTANT of ClaimOrHandOver: a busy inbox is claimed all the same.
ClaimAlways(a) ==
  /\ busy' = TRUE /\ To(a, "claimed") /\ on' = [on EXCEPT ![a] = <<a>>]
  /\ UNCHANGED pending

\* `claim_or_hand_over`.
ClaimOrHandOver(a) ==
  \/ /\ ~busy
     /\ busy' = TRUE /\ To(a, "claimed") /\ on' = [on EXCEPT ![a] = <<a>>]
     /\ UNCHANGED pending
  \/ /\ busy
     /\ pending' = Append(pending, a) /\ To(a, "handed")
     /\ UNCHANGED <<busy, on>>

\* An alert claims the inbox or is handed over.
Claim(a) ==
  /\ a \in Alerts /\ Is(a, "resolved")
  /\ \A b \in 1 .. a - 1 : pc[b] \notin {"new", "resolved"}
  /\ ClaimOrHandOver(a)
  /\ UNCHANGED <<job, holder, verdict, hand, given, failures>>

\* An observation claims an idle inbox, and nothing else.
ClaimIfIdle(o) ==
  /\ o \in Observations /\ Is(o, "resolved")
  /\ IF busy THEN To(o, "done") /\ UNCHANGED busy
             ELSE To(o, "writing") /\ busy' = TRUE
  /\ UNCHANGED <<job, pending, holder, on, verdict, hand, given, failures>>

\* MUTANT of NextOrRelease: the inbox is released whatever is waiting in it.
ReleaseAnyway(t) ==
  /\ busy' = FALSE /\ pending' = <<>> /\ To(t, "done")
  /\ UNCHANGED on

\* `next_or_release`: what no turn and no look took is the next turn's.
NextOrRelease(t) ==
  \/ /\ pending = <<>>
     /\ busy' = FALSE /\ To(t, "done")
     /\ UNCHANGED <<pending, on>>
  \/ /\ pending # <<>>
     /\ on' = [on EXCEPT ![t] = pending] /\ pending' = <<>> /\ To(t, "claimed")
     /\ UNCHANGED busy

\* The observation is written down and given a turn; one that could not be
\* leaves the turn to what was handed over meanwhile.
WriteObservation(o) ==
  /\ Is(o, "writing")
  /\ \/ /\ To(o, "claimed") /\ on' = [on EXCEPT ![o] = <<o>>]
        /\ UNCHANGED <<inbox, failures>>
     \/ Fails /\ NextOrRelease(o)
  /\ UNCHANGED <<job, holder, verdict, hand, given>>

-----------------------------------------------------------------------------
(***************************************************************************)
(* A look, which takes what waits and delivers it once written down.       *)
(***************************************************************************)
\* MUTANT of WaitAndTake: what a look takes stays in the inbox.
TakeACopy(l) ==
  /\ hand[l] = <<>> /\ pending # <<>>
  /\ hand' = [hand EXCEPT ![l] = pending]
  /\ UNCHANGED <<job, inbox, holder, pc, on, verdict, given, failures>>

\* `wait_and_take`: all that waits, at once.
WaitAndTake(l) ==
  /\ hand[l] = <<>> /\ pending # <<>>
  /\ hand' = [hand EXCEPT ![l] = pending] /\ pending' = <<>>
  /\ UNCHANGED <<job, busy, holder, pc, on, verdict, given, failures>>

\* The look is written down.
Deliver(l) ==
  /\ hand[l] # <<>>
  /\ given' = Delivered(hand[l]) /\ hand' = [hand EXCEPT ![l] = <<>>]
  /\ UNCHANGED <<job, inbox, holder, pc, on, verdict, failures>>

\* MUTANT of PutBack: what was taken goes behind what arrived since.
PutBackLast(l) ==
  /\ hand[l] # <<>> /\ Fails
  /\ pending' = IF busy THEN pending \o hand[l] ELSE pending
  /\ hand' = [hand EXCEPT ![l] = <<>>]
  /\ UNCHANGED <<job, busy, holder, pc, on, verdict, given>>

\* The look could not be written down: what it took goes back first, if there
\* is a turn for it to go back to.
PutBack(l) ==
  /\ hand[l] # <<>> /\ Fails
  /\ pending' = IF busy THEN hand[l] \o pending ELSE pending
  /\ hand' = [hand EXCEPT ![l] = <<>>]
  /\ UNCHANGED <<job, busy, holder, pc, on, verdict, given>>

-----------------------------------------------------------------------------
(***************************************************************************)
(* A driver: `run_supervision`, and `supervise` for each of its turns.     *)
(***************************************************************************)
\* The driver comes to hold the print's turn.
TakeTurn(t) ==
  /\ Is(t, "claimed") /\ holder = Nobody
  /\ holder' = t /\ To(t, "held")
  /\ UNCHANGED <<job, inbox, on, verdict, hand, given, failures>>

ConcernsItsEnd(a) == a = End
Event(t) == on[t][Len(on[t])]

\* MUTANT of MayRun: the print is taken as it was when the event was received.
MayRunAsReceived(t) == TRUE

\* A print that has ended is given no turn but on its end.
MayRun(t) == open \/ ConcernsItsEnd(Event(t))

\* The print is read as it now stands, the printer is read (or does not
\* answer), and the agent's turn begins on everything the driver holds.
RunTurn(t) ==
  /\ Is(t, "held") /\ MayRun(t)
  /\ \E terminal \in {over, FALSE} :
       verdict' = [verdict EXCEPT ![t] = IF terminal /\ open THEN "terminal" ELSE "ran"]
  /\ given' = Delivered(on[t])
  /\ To(t, "running")
  /\ UNCHANGED <<job, inbox, holder, on, hand, failures>>

Drops(t, as) ==
  /\ holder' = Nobody /\ To(t, "returned") /\ on' = [on EXCEPT ![t] = <<>>]
  /\ verdict' = [verdict EXCEPT ![t] = as]

SkipTurn(t) ==
  /\ Is(t, "held") /\ ~MayRun(t)
  /\ Drops(t, "ended")
  /\ UNCHANGED <<job, inbox, hand, given, failures>>

\* The agent's turn returns, and what it came to is recorded.
TurnReturns(t) ==
  /\ Is(t, "running")
  /\ Drops(t, verdict[t])
  /\ UNCHANGED <<job, inbox, hand, given, failures>>

\* The store fails what the turn begins from, or records of it.
TurnErrs(t) ==
  /\ pc[t] \in {"held", "running"} /\ Fails
  /\ Drops(t, "error")
  /\ UNCHANGED <<job, inbox, hand, given>>

\* MUTANT of Release: what was claimed stays claimed.
ReleaseNothing == UNCHANGED inbox

\* `release`: the inbox is let go, and anything waiting with it.
Release == busy' = FALSE /\ pending' = <<>>

\* What the driver does about its turn.
Continue(t) ==
  /\ Is(t, "returned") /\ verdict[t] = "ran"
  /\ NextOrRelease(t)
  /\ UNCHANGED <<job, holder, verdict, hand, given, failures>>

GiveUp(t) ==
  /\ Is(t, "returned") /\ verdict[t] \in {"ended", "error"}
  /\ Release /\ To(t, "done")
  /\ UNCHANGED <<job, holder, on, verdict, hand, given, failures>>

GoAndClose(t) ==
  /\ Is(t, "returned") /\ verdict[t] = "terminal"
  /\ Release /\ To(t, "closing")
  /\ UNCHANGED <<job, holder, on, verdict, hand, given, failures>>

-----------------------------------------------------------------------------
(***************************************************************************)
(* The close-out, by the driver that saw the print over or by a read.      *)
(***************************************************************************)
TakeTurnToClose(t) ==
  /\ t # Reader /\ Is(t, "closing") /\ holder = Nobody
  /\ holder' = t /\ To(t, "ending")
  /\ UNCHANGED <<job, inbox, on, verdict, hand, given, failures>>

\* A read finds the job over and the print open.
FindOver ==
  /\ Is(Reader, "new") /\ over /\ open
  /\ To(Reader, "closing")
  /\ UNCHANGED <<job, inbox, holder, on, verdict, hand, given, failures>>

\* MUTANT of TryToClose: the read closes a print whatever turn holds it.
CloseAnyway ==
  /\ Is(Reader, "closing")
  /\ holder' = Reader /\ To(Reader, "ending")
  /\ UNCHANGED <<job, inbox, on, verdict, hand, given, failures>>

\* It leaves alone a print that a turn holds.
TryToClose ==
  /\ Is(Reader, "closing")
  /\ \/ holder = Nobody /\ holder' = Reader /\ To(Reader, "ending")
     \/ holder # Nobody /\ UNCHANGED holder /\ To(Reader, "new")
  /\ UNCHANGED <<job, inbox, on, verdict, hand, given, failures>>

\* A close-out that is done with; a read may find the print over again.
Left(t) == IF t = Reader THEN "new" ELSE "done"

\* `close_out_print` ends a print that is open still, and leaves one that has
\* ended as it ended.
EndPrint(t) ==
  /\ Is(t, "ending")
  /\ \/ open /\ open' = FALSE /\ To(t, "following") /\ UNCHANGED holder
     \/ ~open /\ UNCHANGED open /\ To(t, Left(t)) /\ holder' = Nobody
  /\ UNCHANGED <<over, inbox, on, verdict, hand, given, failures>>

\* The store fails the close-out, which leaves the print to the next read.
CloseErrs(t) ==
  /\ Is(t, "ending") /\ Fails
  /\ To(t, Left(t)) /\ holder' = Nobody
  /\ UNCHANGED <<job, inbox, on, verdict, hand, given>>

\* The end claims the inbox or is handed over, once the close-out is done with.
ClaimForTheEnd(left) ==
  \/ /\ ~busy /\ busy' = TRUE
     /\ pc' = [left EXCEPT ![End] = "claimed"]
     /\ on' = [on EXCEPT ![End] = <<End>>] /\ UNCHANGED pending
  \/ /\ busy /\ pending' = Append(pending, End)
     /\ pc' = [left EXCEPT ![End] = "handed"]
     /\ UNCHANGED <<busy, on>>

\* `follow_up_end`: an end that was a failure or an interruption claims the
\* agent a turn on it, with the print's turn held still; one the store will not
\* answer for is kept for the watch's next round; any other end claims nothing.
FollowUp(t) ==
  /\ Is(t, "following")
  /\ LET left == [pc EXCEPT ![t] = Left(t)] IN
     \/ ClaimForTheEnd(left) /\ UNCHANGED failures
     \/ Fails /\ pc' = [left EXCEPT ![End] = "resolved"] /\ UNCHANGED <<inbox, on>>
     \/ pc' = left /\ UNCHANGED <<inbox, on, failures>>
  /\ holder' = Nobody
  /\ UNCHANGED <<job, verdict, hand, given>>

\* `catch_up`: the watch's next round follows up the end that was kept.
CatchUp ==
  /\ Is(End, "resolved")
  /\ \/ ClaimForTheEnd(pc)
     \/ To(End, "done") /\ UNCHANGED <<inbox, on>>
  /\ UNCHANGED <<job, holder, verdict, hand, given, failures>>

Drive(t) ==
  \/ TakeTurn(t) \/ RunTurn(t) \/ SkipTurn(t) \/ TurnReturns(t)
  \/ Continue(t) \/ GiveUp(t) \/ GoAndClose(t)
  \/ TakeTurnToClose(t) \/ EndPrint(t) \/ FollowUp(t)

SupervisionNext ==
  \/ JobIsOver
  \/ \E a \in Arrivals :
       Resolve(a) \/ List(a) \/ Claim(a) \/ ClaimIfIdle(a) \/ WriteObservation(a)
  \/ \E l \in Looks : WaitAndTake(l) \/ Deliver(l) \/ PutBack(l)
  \/ \E t \in Actors : Drive(t) \/ TurnErrs(t) \/ CloseErrs(t)
  \/ FindOver \/ TryToClose \/ CatchUp

SupervisionSpec == SupervisionInit /\ [][SupervisionNext]_supervision

\* Whatever has been claimed is driven on: an agent's turn is bounded by its
\* timeout, and every task is a future that its runtime polls.  Nothing obliges
\* an alert to come, a job to end, or a step to fail.  A driver waiting for the
\* turn waits for finitely many others, none of which comes back for it.
SupervisionFairness ==
  /\ \A t \in Actors : WF_supervision(Drive(t))
  /\ \A a \in Arrivals : WF_supervision(WriteObservation(a)) /\ WF_supervision(Claim(a))
  /\ WF_supervision(CatchUp) /\ WF_supervision(TryToClose)
  /\ \A l \in Looks : WF_supervision(Deliver(l))

SupervisionFairSpec == SupervisionSpec /\ SupervisionFairness

-----------------------------------------------------------------------------
(***************************************************************************)
(* What holds.                                                             *)
(***************************************************************************)
Places == {"new", "resolved", "handed", "writing", "claimed", "held", "running",
           "returned", "closing", "ending", "following", "done"}

SupervisionTypeOK ==
  /\ open \in BOOLEAN /\ over \in BOOLEAN /\ busy \in BOOLEAN
  /\ pending \in Seq(Arrivals)
  /\ holder \in Actors \union {Nobody}
  /\ pc \in [Actors -> Places]
  /\ on \in [Actors -> Seq(Arrivals)]
  /\ verdict \in [Actors -> {"none", "ran", "ended", "terminal", "error"}]
  /\ hand \in [Looks -> Seq(Arrivals)]
  /\ given \in [Arrivals -> Nat] /\ failures \in Nat

Drives(t) == pc[t] \in {"writing", "claimed", "held", "running", "returned"}
HoldsTurn(t) == pc[t] \in {"held", "running", "ending", "following"}

\* inbox.rs 3-8: the inbox is claimed exactly while one task drives turns on
\* it, and only a claimed inbox keeps anything waiting.
OneDriver ==
  /\ \A t, u \in Actors : Drives(t) /\ Drives(u) => t = u
  /\ busy <=> \E t \in Actors : Drives(t)
  /\ ~busy => pending = <<>>

\* inbox.rs 3, "one agent per print at a time", and events.rs 651, "the caller
\* holds the print's turn": whoever runs the agent or closes the print out is
\* the one that holds its turn, though a driver on its way to close the print
\* has let the inbox go and another drives already.
TheTurnIsHeld == \A t \in Actors : HoldsTurn(t) <=> holder = t

SupervisionInv == SupervisionTypeOK /\ OneDriver /\ TheTurnIsHeld

\* events.rs 392-398 and listing.rs 458: an agent runs for a print that has
\* ended only on its end, and no close-out ends a print under a turn that
\* found it open.
TurnsAreOfOpenPrints ==
  \A t \in Actors : Is(t, "running") => open \/ ConcernsItsEnd(Event(t))

GivenOnce == \A a \in Arrivals : given[a] <= 1

InOrder(s) == \A i, j \in DOMAIN s : i < j /\ s[i] \in Alerts /\ s[j] \in Alerts => s[i] < s[j]

\* Two looks that fail put back out of order when the one that took first fails first.
OneLookFails == failures <= 1 \/ \A l, m \in Looks : l = m

OldestFirst ==
  OneLookFails => \A s \in {pending} \union {on[t] : t \in Actors} \union {hand[l] : l \in Looks} :
                    InOrder(s)

\* Whatever arrived is delivered to one turn or look and no other, through
\* hand-overs, looks that fail and turns that follow, a print's end too although
\* several tasks set out to close it; and what waits is delivered in the order
\* it arrived, also when a look puts it back (inbox.rs 106-111, "ahead of
\* anything that arrived since"), as long as no two looks fail.
GivenOnceInOrder == GivenOnce /\ OldestFirst

\* inbox.rs 3-8: an alert that reached the inbox of a print reaches its agent,
\* unless the print ends first or the store fails somebody.
EveryAlertReachesTheAgent ==
  \A a \in Alerts :
    pc[a] \in {"claimed", "handed"} ~> (given[a] > 0 \/ ~open \/ failures > 0)

\* Through refusals, ends and failures of the store, an inbox that was claimed
\* comes free, so the print's next event is given a turn.
TheInboxComesFree == busy ~> ~busy

-----------------------------------------------------------------------------
\* inbox.rs 6-8, "nothing that arrived is lost", and watch.rs 16-19, a print
\* that was interrupted or failed "gives the print's agent a turn on its
\* `print_ended`": once claimed or handed
\* over, the end is waiting, in somebody's hands, or delivered.
TheEndIsNotLost ==
  pc[End] \in {"claimed", "handed"} =>
    \/ given[End] > 0
    \/ End \in In(pending)
    \/ \E t \in Actors : End \in In(on[t])
    \/ \E l \in Looks : End \in In(hand[l])
=============================================================================
