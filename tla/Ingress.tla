------------------------------- MODULE Ingress -------------------------------
(***************************************************************************)
(* The endpoint a failure detector posts to (printobserver-server:         *)
(* ingress.rs): a post is answered before its body is handled.  A bounded  *)
(* channel stands between the endpoint and the worker; a post that finds   *)
(* no room waits for it as long as the answer's bound, and one without the *)
(* secret is written down and refused.  The worker writes bodies down one  *)
(* at a time and has the turn a body claims run apart.                     *)
(*                                                                         *)
(* What a body says and what its turn does is Supervision's.  A panic of   *)
(* the writing counts as a body that claims no turn, as in a release       *)
(* build.                                                                  *)
(***************************************************************************)
EXTENDS Integers, Sequences, FiniteSets

CONSTANTS
  MaxPosts, \* posts ever made
  Depth     \* QUEUE_DEPTH

ASSUME IngressConstants == MaxPosts \in Nat /\ Depth \in Nat \ {0}

Posts == 1 .. MaxPosts \* in the order they come
NoPost == 0

VARIABLES
  arrived,   \* how many posts have come
  answer,    \* of each: "none", "taken", "refused", "unauthorized", or "gone" as the poster is
  senders,   \* the posts waiting for room, first come first
  admitted,  \* those that have a place in the channel, and have not sent yet
  recording, \* those without the secret that are being written down
  room,      \* the places of the channel that are free
  bodies,    \* the bodies in the channel
  worker,    \* the post whose body is being written down, or NoPost
  stuck,     \* whether that writing never comes back
  turns,     \* the posts whose turns run
  completed, \* what the worker counts as finished
  serving    \* "serving", "stopping" or "stopped"
VARIABLES \* history
  sent,   \* the posts whose bodies went into the channel, in that order
  written \* those whose bodies were written down, or refused in the writing

endpoint == <<arrived, answer, senders, admitted, recording, room>>
handling == <<worker, stuck, turns, completed, written>>
ingress == <<endpoint, bodies, handling, serving, sent>>

IngressInit ==
  /\ arrived = 0 /\ answer = [p \in Posts |-> "none"] /\ senders = <<>> /\ admitted = {}
  /\ recording = {} /\ room = Depth /\ bodies = <<>> /\ worker = NoPost
  /\ stuck = FALSE /\ turns = {} /\ completed = 0 /\ serving = "serving"
  /\ sent = <<>> /\ written = <<>>

\* A place let go is the first waiting post's; the others keep theirs.
LetPlaceGo(others) ==
  \/ /\ senders # <<>> /\ senders' = Tail(senders)
     /\ admitted' = others \union {Head(senders)} /\ UNCHANGED room
  \/ senders = <<>> /\ admitted' = others /\ room' = room + 1 /\ UNCHANGED senders

-----------------------------------------------------------------------------
(* `receive`, one post *)

Arrives(p) == serving = "serving" /\ p = arrived + 1 /\ arrived' = p

WithSecret(p) ==
  /\ Arrives(p)
  /\ \/ room > 0 /\ room' = room - 1 /\ admitted' = admitted \union {p} /\ UNCHANGED senders
     \/ room = 0 /\ senders' = Append(senders, p) /\ UNCHANGED <<room, admitted>>
  /\ UNCHANGED <<answer, recording, bodies, handling, serving, sent>>

WithoutSecret(p) ==
  /\ Arrives(p) /\ recording' = recording \union {p}
  /\ UNCHANGED <<answer, senders, admitted, room, bodies, handling, serving, sent>>

Answers(p, how) == answer' = [answer EXCEPT ![p] = how]

Sends(p) ==
  /\ p \in admitted /\ admitted' = admitted \ {p}
  /\ bodies' = Append(bodies, p) /\ sent' = Append(sent, p) /\ Answers(p, "taken")
  /\ UNCHANGED <<arrived, senders, recording, room, handling, serving>>

\* A post that waits for room waits no more.
Leaves(p) ==
  \E i \in DOMAIN senders :
    /\ senders[i] = p
    /\ senders' = SubSeq(senders, 1, i - 1) \o SubSeq(senders, i + 1, Len(senders))

\* The bound passes while the post waits for room. One that has a place sends:
\* the send is looked at before the bound is.
GivesUp(p) ==
  /\ Leaves(p) /\ Answers(p, "refused")
  /\ UNCHANGED <<arrived, admitted, recording, room, bodies, handling, serving, sent>>

\* The store comes back, with the post written down or with an error. The bound
\* does not cut this short: the store appends in one go, on the thread that would
\* look at the bound.
Refuses(p) ==
  /\ p \in recording /\ recording' = recording \ {p} /\ Answers(p, "unauthorized")
  /\ UNCHANGED <<arrived, senders, admitted, room, bodies, handling, serving, sent>>

\* The poster goes away; a post that waits goes with it, and a place it had is
\* let go.
PosterGoes(p) ==
  /\ \/ Leaves(p) /\ UNCHANGED <<admitted, room>>
     \/ p \in admitted /\ LetPlaceGo(admitted \ {p})
  /\ Answers(p, "gone")
  /\ UNCHANGED <<arrived, recording, bodies, handling, serving, sent>>

-----------------------------------------------------------------------------
(* The worker *)

Receives ==
  /\ serving # "stopped" /\ worker = NoPost /\ bodies # <<>>
  /\ worker' = Head(bodies) /\ bodies' = Tail(bodies) /\ LetPlaceGo(admitted)
  /\ UNCHANGED <<arrived, answer, recording, stuck, turns, completed, written, serving, sent>>

\* The writing never comes back: the store, or the snapshot's host, holds it.
Sticks ==
  /\ worker # NoPost /\ ~stuck /\ stuck' = TRUE
  /\ UNCHANGED <<endpoint, bodies, worker, turns, completed, written, serving, sent>>

\* MUTANT of Handles: a body that claims a turn is counted as the turn begins.
HandlesAndCounts ==
  /\ serving # "stopped" /\ worker # NoPost /\ ~stuck
  /\ worker' = NoPost /\ written' = Append(written, worker)
  /\ completed' = completed + 1 /\ turns' \in {turns, turns \union {worker}}
  /\ UNCHANGED <<endpoint, bodies, stuck, serving, sent>>

\* MUTANT of Handles: the worker waits for the turn of the body before.
HandlesBetweenTurns ==
  /\ serving # "stopped" /\ worker # NoPost /\ ~stuck /\ turns = {}
  /\ worker' = NoPost /\ written' = Append(written, worker)
  /\ \/ completed' = completed + 1 /\ UNCHANGED turns
     \/ turns' = turns \union {worker} /\ UNCHANGED completed
  /\ UNCHANGED <<endpoint, bodies, stuck, serving, sent>>

\* A body is written down; the turn it claimed, if it did, runs apart.
Handles ==
  /\ serving # "stopped" /\ worker # NoPost /\ ~stuck
  /\ worker' = NoPost /\ written' = Append(written, worker)
  /\ \/ completed' = completed + 1 /\ UNCHANGED turns
     \/ turns' = turns \union {worker} /\ UNCHANGED completed
  /\ UNCHANGED <<endpoint, bodies, stuck, serving, sent>>

TurnReturns(p) ==
  /\ p \in turns /\ serving # "stopped" /\ turns' = turns \ {p} /\ completed' = completed + 1
  /\ UNCHANGED <<endpoint, bodies, worker, stuck, written, serving, sent>>

-----------------------------------------------------------------------------
(* `Running::stop`: what is being answered is answered, then the process ends
   and what the channel still holds is lost. *)

StopsServing ==
  /\ serving = "serving" /\ serving' = "stopping"
  /\ UNCHANGED <<endpoint, bodies, handling, sent>>

Stops ==
  /\ serving = "stopping" /\ senders = <<>> /\ admitted = {} /\ recording = {}
  /\ serving' = "stopped"
  /\ UNCHANGED <<endpoint, bodies, handling, sent>>

IngressNext ==
  \/ \E p \in Posts : WithSecret(p) \/ WithoutSecret(p) \/ Sends(p) \/ GivesUp(p) \/ Refuses(p)
                      \/ PosterGoes(p) \/ TurnReturns(p)
  \/ Receives \/ Sticks \/ Handles
  \/ StopsServing \/ Stops

\* The runtime polls a post that has a place and the worker that has a body, and
\* time passes. A turn may run for ever, and a writing may stick.
IngressFairness ==
  /\ WF_ingress(\E p \in Posts : Sends(p)) /\ WF_ingress(\E p \in Posts : GivesUp(p))
  /\ WF_ingress(Receives) /\ WF_ingress(Handles)

-----------------------------------------------------------------------------
(* Properties *)

InHand == IF worker = NoPost THEN <<>> ELSE <<worker>>
Told(how) == {p \in Posts : answer[p] = how}

\* What was sent is written down in that order, each once, whatever posts wait,
\* give up or go away in between; and the one a poster was told is taken is sent.
WrittenAsSent ==
  /\ sent = written \o InHand \o bodies
  /\ \A p \in Posts : answer[p] = "taken" <=> \E i \in DOMAIN sent : sent[i] = p

\* A place is never lost nor given twice: a full channel frees up with its worker.
PlacesAreKept ==
  /\ room + Cardinality(admitted) + Len(bodies) = Depth
  /\ senders # <<>> => room = 0

\* `completions` counts what is finished: a body whose turn still runs is not.
CountedWhenFinished == completed + Cardinality(turns) = Len(written)

IngressInv == WrittenAsSent /\ PlacesAreKept /\ CountedWhenFinished

\* However long turns run, every post with the secret comes to be answered, and
\* every body taken to be written down unless the writing sticks or the server
\* stops (ingress.rs: "an alert for another print is written down and supervised
\* while the first turn ... is still waiting"). Posts are bounded and stay answered.
PostsMoveOn ==
  <>[] /\ \A p \in 1 .. arrived : answer[p] # "none" \/ p \in recording
       /\ (\A i \in DOMAIN sent : \E j \in DOMAIN written : written[j] = sent[i])
            \/ stuck \/ serving = "stopped"
=============================================================================
