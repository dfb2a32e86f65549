-------------------------- MODULE Supervision_proofs --------------------------
(***************************************************************************)
(* That one task drives the turns of a print's inbox, that whoever runs    *)
(* the agent or closes the print out holds its turn, that no agent runs    *)
(* for a print that has ended but on its end, and that whatever arrives is *)
(* delivered once and waits in order: for any number of alerts,            *)
(* observations, looks and failures of the store.                          *)
(***************************************************************************)
EXTENDS Supervision, TLAPS

\* The end comes to the inbox once: of an end, and after it was followed up.
EndOnce ==
  /\ pc[End] # "new" => ~open
  /\ \A t \in Actors : Is(t, "following") => ~open /\ pc[End] = "new"

Control == OneDriver /\ TheTurnIsHeld /\ EndOnce
SupervisionIInv == SupervisionTypeOK /\ Control /\ TurnsAreOfOpenPrints

LEMMA NamesDiffer ==
  /\ Reader \notin Arrivals /\ Nobody \notin Actors
  /\ Alerts \subseteq Arrivals /\ Observations \subseteq Arrivals
  /\ End \in Arrivals /\ Arrivals \subseteq Actors /\ Reader \in Actors
  /\ End \notin Alerts /\ End \notin Observations /\ End # Reader
  BY Distinct DEF Actors, Arrivals

LEMMA SupervisionInitial == SupervisionInit => SupervisionIInv
<1> SUFFICES ASSUME SupervisionInit PROVE SupervisionIInv OBVIOUS
<1> USE NamesDiffer DEF SupervisionInit
<1>1. SupervisionTypeOK
  <2>1. <<>> \in Seq(Arrivals) OBVIOUS
  <2> QED BY <2>1 DEF SupervisionTypeOK, Places
<1>2. \A t \in Actors : ~Drives(t) /\ ~HoldsTurn(t) /\ ~Is(t, "running") /\ ~Is(t, "following")
  BY DEF Drives, HoldsTurn, Is
<1>3. Control BY <1>2 DEF Control, OneDriver, TheTurnIsHeld, EndOnce
<1>4. TurnsAreOfOpenPrints BY <1>2 DEF TurnsAreOfOpenPrints
<1> QED BY <1>1, <1>3, <1>4 DEF SupervisionIInv

-----------------------------------------------------------------------------
(* Types *)

\* What is delivered is counted.
LEMMA DeliveredTyped ==
  ASSUME SupervisionTypeOK, NEW s PROVE Delivered(s) \in [Arrivals -> Nat]
  BY DEF SupervisionTypeOK, Delivered

\* An update of where a task is.
LEMMA ToTyped ==
  ASSUME SupervisionTypeOK, NEW t, NEW where \in Places, To(t, where)
  PROVE pc' \in [Actors -> Places]
  BY DEF SupervisionTypeOK, To

LEMMA InboxTyped ==
  ASSUME SupervisionTypeOK, NEW t \in Actors, NextOrRelease(t)
  PROVE /\ pc' \in [Actors -> Places] /\ busy' \in BOOLEAN
        /\ pending' \in Seq(Arrivals) /\ on' \in [Actors -> Seq(Arrivals)]
<1>1. CASE pending = <<>> /\ busy' = FALSE /\ To(t, "done") /\ UNCHANGED <<pending, on>>
  BY <1>1, ToTyped DEF SupervisionTypeOK, Places
<1>2. CASE /\ on' = [on EXCEPT ![t] = pending] /\ pending' = <<>> /\ To(t, "claimed")
           /\ UNCHANGED busy
  BY <1>2, ToTyped DEF SupervisionTypeOK, Places
<1> QED BY <1>1, <1>2 DEF NextOrRelease

LEMMA EndClaimTyped ==
  ASSUME SupervisionTypeOK, NEW left \in [Actors -> Places], ClaimForTheEnd(left)
  PROVE /\ pc' \in [Actors -> Places] /\ busy' \in BOOLEAN
        /\ pending' \in Seq(Arrivals) /\ on' \in [Actors -> Seq(Arrivals)]
<1> USE NamesDiffer
<1>1. pending \in Seq(Arrivals) /\ on \in [Actors -> Seq(Arrivals)] /\ busy \in BOOLEAN
  BY DEF SupervisionTypeOK
<1>2. <<End>> \in Seq(Arrivals) /\ Append(pending, End) \in Seq(Arrivals)
  BY <1>1
<1>3. End \in Actors /\ {"claimed", "handed"} \subseteq Places BY DEF Places
<1>4. pc' \in [Actors -> Places] BY <1>3 DEF ClaimForTheEnd
<1>5. busy' \in BOOLEAN /\ pending' \in Seq(Arrivals) BY <1>1, <1>2 DEF ClaimForTheEnd
<1>6. on' \in [Actors -> Seq(Arrivals)] BY <1>1, <1>2 DEF ClaimForTheEnd
<1> QED BY <1>4, <1>5, <1>6

\* What arrives.
LEMMA ArrivalTyped ==
  ASSUME SupervisionTypeOK, NEW a \in Arrivals,
         Resolve(a) \/ List(a) \/ Claim(a) \/ ClaimIfIdle(a) \/ WriteObservation(a)
  PROVE SupervisionTypeOK'
<1> USE NamesDiffer DEF SupervisionTypeOK, job, inbox
<1>1. CASE Resolve(a) BY <1>1 DEF Resolve, To, Places
<1>2. CASE List(a) BY <1>2 DEF List, To, Places
<1>3. CASE Claim(a)
  <2>1. <<a>> \in Seq(Arrivals) /\ Append(pending, a) \in Seq(Arrivals) OBVIOUS
  <2>2. a \in Actors /\ {"claimed", "handed"} \subseteq Places BY DEF Places
  <2>3. pc' \in [Actors -> Places] BY <1>3, <2>2 DEF Claim, ClaimOrHandOver, To
  <2>4. busy' \in BOOLEAN /\ pending' \in Seq(Arrivals) BY <1>3, <2>1 DEF Claim, ClaimOrHandOver
  <2>5. on' \in [Actors -> Seq(Arrivals)] BY <1>3, <2>1 DEF Claim, ClaimOrHandOver
  <2> QED BY <1>3, <2>3, <2>4, <2>5 DEF Claim
<1>4. CASE ClaimIfIdle(a) BY <1>4 DEF ClaimIfIdle, To, Places
<1>5. CASE WriteObservation(a)
  <2>1. CASE To(a, "claimed") /\ on' = [on EXCEPT ![a] = <<a>>] /\ UNCHANGED <<inbox, failures>>
    BY <1>5, <2>1 DEF WriteObservation, To, Places
  <2>2. CASE Fails /\ NextOrRelease(a)
    BY <1>5, <2>2, InboxTyped DEF WriteObservation, Fails
  <2> QED BY <1>5, <2>1, <2>2 DEF WriteObservation
<1> QED BY <1>1, <1>2, <1>3, <1>4, <1>5

LEMMA LookTyped ==
  ASSUME SupervisionTypeOK, NEW l \in Looks, WaitAndTake(l) \/ Deliver(l) \/ PutBack(l)
  PROVE SupervisionTypeOK'
<1>1. CASE WaitAndTake(l) BY <1>1 DEF WaitAndTake, SupervisionTypeOK, job
<1>2. CASE Deliver(l)
  <2>1. given' \in [Arrivals -> Nat] BY <1>2, DeliveredTyped DEF Deliver
  <2> QED BY <1>2, <2>1 DEF Deliver, SupervisionTypeOK, job, inbox
<1>3. CASE PutBack(l)
  <2>1. pending' \in Seq(Arrivals) BY <1>3 DEF PutBack, SupervisionTypeOK
  <2> QED BY <1>3, <2>1 DEF PutBack, Fails, SupervisionTypeOK, job
<1> QED BY <1>1, <1>2, <1>3

\* A driver's turn.
LEMMA TurnTyped ==
  ASSUME SupervisionTypeOK, NEW t \in Actors,
         \/ TakeTurn(t) \/ RunTurn(t) \/ SkipTurn(t) \/ TurnReturns(t) \/ TurnErrs(t)
         \/ Continue(t) \/ GiveUp(t) \/ GoAndClose(t)
  PROVE SupervisionTypeOK'
<1>1. CASE TakeTurn(t) BY <1>1, ToTyped DEF TakeTurn, SupervisionTypeOK, Places, job, inbox
<1>2. CASE RunTurn(t)
  <2>1. given' \in [Arrivals -> Nat] BY <1>2, DeliveredTyped DEF RunTurn
  <2>2. verdict' \in [Actors -> {"none", "ran", "ended", "terminal", "error"}]
    BY <1>2 DEF RunTurn, SupervisionTypeOK
  <2>3. pc' \in [Actors -> Places] BY <1>2, ToTyped DEF RunTurn, Places
  <2> QED BY <1>2, <2>1, <2>2, <2>3 DEF RunTurn, SupervisionTypeOK, job, inbox
<1>3. ASSUME NEW as \in {"none", "ran", "ended", "terminal", "error"}, Drops(t, as)
      PROVE /\ pc' \in [Actors -> Places] /\ on' \in [Actors -> Seq(Arrivals)] /\ holder' = Nobody
            /\ verdict' \in [Actors -> {"none", "ran", "ended", "terminal", "error"}]
  <2>1. pc' \in [Actors -> Places] BY <1>3, ToTyped DEF Drops, Places
  <2>2. <<>> \in Seq(Arrivals) OBVIOUS
  <2>3. on' \in [Actors -> Seq(Arrivals)] BY <1>3, <2>2 DEF Drops, SupervisionTypeOK
  <2>4. verdict' \in [Actors -> {"none", "ran", "ended", "terminal", "error"}]
    BY <1>3 DEF Drops, SupervisionTypeOK
  <2> QED BY <1>3, <2>1, <2>3, <2>4 DEF Drops
<1>4. CASE SkipTurn(t) BY <1>3, <1>4 DEF SkipTurn, SupervisionTypeOK, job, inbox
<1>5. CASE TurnReturns(t)
  <2>1. verdict[t] \in {"none", "ran", "ended", "terminal", "error"} BY DEF SupervisionTypeOK
  <2> QED BY <1>3, <1>5, <2>1 DEF TurnReturns, SupervisionTypeOK, job, inbox
<1>6. CASE TurnErrs(t) BY <1>3, <1>6 DEF TurnErrs, Fails, SupervisionTypeOK, job, inbox
<1>7. CASE Continue(t) BY <1>7, InboxTyped DEF Continue, SupervisionTypeOK, job
<1>0. ASSUME Release PROVE busy' \in BOOLEAN /\ pending' \in Seq(Arrivals)
  <2>1. <<>> \in Seq(Arrivals) OBVIOUS
  <2> QED BY <1>0, <2>1 DEF Release
<1>8. CASE GiveUp(t) BY <1>0, <1>8, ToTyped DEF GiveUp, SupervisionTypeOK, Places, job
<1>9. CASE GoAndClose(t) BY <1>0, <1>9, ToTyped DEF GoAndClose, SupervisionTypeOK, Places, job
<1> QED BY <1>1, <1>2, <1>4, <1>5, <1>6, <1>7, <1>8, <1>9

\* A close-out, and what follows it.
LEMMA CloseTyped ==
  ASSUME SupervisionTypeOK, NEW t \in Actors,
         \/ TakeTurnToClose(t) \/ EndPrint(t) \/ FollowUp(t) \/ CloseErrs(t)
         \/ FindOver \/ TryToClose \/ CatchUp
  PROVE SupervisionTypeOK'
<1> USE NamesDiffer
<1>1. CASE TakeTurnToClose(t)
  BY <1>1, ToTyped DEF TakeTurnToClose, SupervisionTypeOK, Places, job, inbox
<1>2. Left(t) \in Places BY DEF Left, Places
<1>3. CASE EndPrint(t) BY <1>2, <1>3 DEF EndPrint, To, SupervisionTypeOK, Places, inbox
<1>4. CASE CloseErrs(t) BY <1>2, <1>4 DEF CloseErrs, To, Fails, SupervisionTypeOK, job, inbox
<1>5. CASE FindOver BY <1>5 DEF FindOver, To, SupervisionTypeOK, Places, job, inbox
<1>6. CASE TryToClose BY <1>6 DEF TryToClose, To, SupervisionTypeOK, Places, job, inbox
<1>7. CASE FollowUp(t)
  <2> DEFINE left == [pc EXCEPT ![t] = Left(t)]
  <2>1. left \in [Actors -> Places] BY <1>2 DEF SupervisionTypeOK
  <2>2. CASE ClaimForTheEnd(left) /\ UNCHANGED failures
    BY <1>7, <2>1, <2>2, EndClaimTyped DEF FollowUp, SupervisionTypeOK, job
  <2>3. CASE Fails /\ pc' = [left EXCEPT ![End] = "resolved"] /\ UNCHANGED <<inbox, on>>
    <3>1. pc' \in [Actors -> Places] BY <2>1, <2>3 DEF Places
    <3>2. failures' \in Nat BY <2>3 DEF Fails, SupervisionTypeOK
    <3>3. UNCHANGED <<busy, pending, on>> BY <2>3 DEF inbox
    <3>4. holder' = Nobody /\ UNCHANGED <<open, over, verdict, hand, given>>
      BY <1>7 DEF FollowUp, job
    <3> QED BY <3>1, <3>2, <3>3, <3>4 DEF SupervisionTypeOK
  <2>4. CASE pc' = left /\ UNCHANGED <<inbox, on, failures>>
    BY <1>7, <2>1, <2>4 DEF FollowUp, SupervisionTypeOK, job, inbox
  <2> QED BY <1>7, <2>2, <2>3, <2>4 DEF FollowUp
<1>8. CASE CatchUp
  <2>1. pc \in [Actors -> Places] BY DEF SupervisionTypeOK
  <2>2. CASE ClaimForTheEnd(pc)
    BY <1>8, <2>1, <2>2, EndClaimTyped DEF CatchUp, SupervisionTypeOK, job
  <2>3. CASE To(End, "done") /\ UNCHANGED <<inbox, on>>
    BY <1>8, <2>3, ToTyped DEF CatchUp, SupervisionTypeOK, Places, job, inbox
  <2> QED BY <1>8, <2>2, <2>3 DEF CatchUp
<1> QED BY <1>1, <1>3, <1>4, <1>5, <1>6, <1>7, <1>8

-----------------------------------------------------------------------------
(* Who drives, and who holds the print's turn *)

Safe == Control /\ TurnsAreOfOpenPrints

\* Where everybody is after a step that moves one task.
LEMMA Moves ==
  ASSUME SupervisionTypeOK, NEW t \in Actors, NEW where, To(t, where)
  PROVE \A u \in Actors : pc'[u] = IF u = t THEN where ELSE pc[u]
  BY DEF SupervisionTypeOK, To

LEMMA Quiet ==
  ASSUME Safe, UNCHANGED <<open, busy, pending, holder, pc, on>>
  PROVE Safe'
  BY DEF Safe, Control, OneDriver, TheTurnIsHeld, EndOnce, TurnsAreOfOpenPrints,
         Drives, HoldsTurn, Is, Event, ConcernsItsEnd

\* A task that neither drives nor holds the turn, and moves to where it does not.
LEMMA MovesAside ==
  ASSUME SupervisionTypeOK, Safe, NEW t \in Actors \ {End}, NEW where,
         To(t, where), UNCHANGED <<open, busy, pending, holder, on>>,
         pc[t] \in {"new", "resolved", "closing", "done"},
         where \in {"new", "resolved", "closing", "done", "handed"}
  PROVE Safe'
<1> USE Moves, NamesDiffer
<1>1. OneDriver' BY DEF Safe, Control, OneDriver, Drives
<1>2. TheTurnIsHeld' BY DEF Safe, Control, TheTurnIsHeld, HoldsTurn
<1>3. EndOnce' BY DEF Safe, Control, EndOnce, Is
<1>4. TurnsAreOfOpenPrints' BY DEF Safe, TurnsAreOfOpenPrints, Is, Event, ConcernsItsEnd
<1> QED BY <1>1, <1>2, <1>3, <1>4 DEF Safe, Control

\* A driver that lets the inbox go or takes what waits in it.
LEMMA NextOrReleaseSafe ==
  ASSUME SupervisionTypeOK, Safe, NEW t \in Actors, NextOrRelease(t),
         pc[t] \in {"writing", "returned"}, UNCHANGED <<open, holder>>
  PROVE Safe'
<1> USE Moves, NamesDiffer
<1>0. busy \in BOOLEAN /\ on \in [Actors -> Seq(Arrivals)] BY DEF SupervisionTypeOK
<1>1. CASE pending = <<>> /\ busy' = FALSE /\ To(t, "done") /\ UNCHANGED <<pending, on>>
  <2>1. OneDriver' BY <1>1 DEF Safe, Control, OneDriver, Drives
  <2>2. TheTurnIsHeld' BY <1>1 DEF Safe, Control, TheTurnIsHeld, HoldsTurn
  <2>3. EndOnce' BY <1>1 DEF Safe, Control, EndOnce, Is
  <2>4. TurnsAreOfOpenPrints'
    BY <1>1 DEF Safe, TurnsAreOfOpenPrints, Is, Event, ConcernsItsEnd
  <2> QED BY <2>1, <2>2, <2>3, <2>4 DEF Safe, Control
<1>2. CASE /\ on' = [on EXCEPT ![t] = pending] /\ pending' = <<>> /\ To(t, "claimed")
           /\ UNCHANGED busy
  <2>1. OneDriver' BY <1>2 DEF Safe, Control, OneDriver, Drives
  <2>2. TheTurnIsHeld' BY <1>2 DEF Safe, Control, TheTurnIsHeld, HoldsTurn
  <2>3. EndOnce' BY <1>2 DEF Safe, Control, EndOnce, Is
  <2>4. TurnsAreOfOpenPrints'
    <3>1. /\ \A u \in Actors \ {t} : pc'[u] = pc[u] /\ on'[u] = on[u]
          /\ pc'[t] = "claimed"
      BY <1>0, <1>2
    <3> QED BY <3>1 DEF Safe, TurnsAreOfOpenPrints, Is, Event, ConcernsItsEnd
  <2> QED BY <2>1, <2>2, <2>3, <2>4 DEF Safe, Control
<1> QED BY <1>1, <1>2 DEF NextOrRelease

\* An idle inbox is claimed: nobody drove, so whoever claims it is alone.
LEMMA ClaimIsAlone ==
  ASSUME SupervisionTypeOK, Safe, NEW t \in Actors \ {End}, NEW where, To(t, where),
         pc[t] = "resolved", where \in {"claimed", "writing"}, ~busy, busy' = TRUE,
         UNCHANGED <<open, pending, holder>>,
         \A u \in Actors \ {t} : on'[u] = on[u]
  PROVE Safe'
<1> USE Moves, NamesDiffer
<1>1. OneDriver' BY DEF Safe, Control, OneDriver, Drives
<1>2. TheTurnIsHeld' BY DEF Safe, Control, TheTurnIsHeld, HoldsTurn
<1>3. EndOnce' BY DEF Safe, Control, EndOnce, Is
<1>4. TurnsAreOfOpenPrints' BY DEF Safe, TurnsAreOfOpenPrints, Is, Event, ConcernsItsEnd
<1> QED BY <1>1, <1>2, <1>3, <1>4 DEF Safe, Control

LEMMA ArrivalSafe ==
  ASSUME SupervisionTypeOK, Safe, NEW a \in Arrivals,
         Resolve(a) \/ List(a) \/ Claim(a) \/ ClaimIfIdle(a) \/ WriteObservation(a)
  PROVE Safe'
<1> USE NamesDiffer
<1>0. on \in [Actors -> Seq(Arrivals)] /\ busy \in BOOLEAN BY DEF SupervisionTypeOK
<1>1. CASE Resolve(a) BY <1>1, MovesAside DEF Resolve, job, inbox, Is
<1>2. CASE List(a) BY <1>2, MovesAside DEF List, job, inbox, Is
<1>3. CASE Claim(a)
  <2>0. a \in Actors \ {End} /\ pc[a] = "resolved" /\ UNCHANGED <<open, holder>>
    BY <1>3 DEF Claim, Is, job
  <2>1. CASE /\ ~busy /\ busy' = TRUE /\ To(a, "claimed") /\ on' = [on EXCEPT ![a] = <<a>>]
             /\ UNCHANGED pending
    <3>1. \A u \in Actors \ {a} : on'[u] = on[u] BY <1>0, <2>1
    <3> QED BY <2>0, <2>1, <3>1, ClaimIsAlone
  <2>2. CASE /\ busy /\ pending' = Append(pending, a) /\ To(a, "handed")
             /\ UNCHANGED <<busy, on>>
    <3> USE Moves
    <3>1. OneDriver' BY <2>0, <2>2 DEF Safe, Control, OneDriver, Drives
    <3>2. TheTurnIsHeld' BY <2>0, <2>2 DEF Safe, Control, TheTurnIsHeld, HoldsTurn
    <3>3. EndOnce' BY <2>0, <2>2 DEF Safe, Control, EndOnce, Is
    <3>4. TurnsAreOfOpenPrints'
      BY <2>0, <2>2 DEF Safe, TurnsAreOfOpenPrints, Is, Event, ConcernsItsEnd
    <3> QED BY <3>1, <3>2, <3>3, <3>4 DEF Safe, Control
  <2> QED BY <1>3, <2>1, <2>2 DEF Claim, ClaimOrHandOver
<1>4. CASE ClaimIfIdle(a)
  <2>0. a \in Actors \ {End} /\ pc[a] = "resolved" /\ UNCHANGED <<open, holder, pending, on>>
    BY <1>4 DEF ClaimIfIdle, Is, job
  <2>1. CASE busy /\ To(a, "done") /\ UNCHANGED busy BY <2>0, <2>1, MovesAside
  <2>2. CASE ~busy /\ To(a, "writing") /\ busy' = TRUE BY <2>0, <2>2, ClaimIsAlone
  <2> QED BY <1>4, <2>1, <2>2 DEF ClaimIfIdle
<1>5. CASE WriteObservation(a)
  <2>0. pc[a] = "writing" /\ UNCHANGED <<open, holder>> BY <1>5 DEF WriteObservation, Is, job
  <2>1. CASE Fails /\ NextOrRelease(a) BY <2>0, <2>1, NextOrReleaseSafe
  <2>2. CASE To(a, "claimed") /\ on' = [on EXCEPT ![a] = <<a>>] /\ UNCHANGED <<inbox, failures>>
    <3>0. /\ pc[a] = "writing" /\ UNCHANGED <<open, holder, busy, pending>>
          /\ \A u \in Actors : pc'[u] = IF u = a THEN "claimed" ELSE pc[u]
          /\ \A u \in Actors \ {a} : on'[u] = on[u]
      BY <1>0, <2>0, <2>2, Moves DEF inbox
    <3>1. OneDriver' BY <3>0 DEF Safe, Control, OneDriver, Drives
    <3>2. TheTurnIsHeld' BY <3>0 DEF Safe, Control, TheTurnIsHeld, HoldsTurn
    <3>3. EndOnce' BY <3>0 DEF Safe, Control, EndOnce, Is
    <3>4. TurnsAreOfOpenPrints'
      BY <3>0 DEF Safe, TurnsAreOfOpenPrints, Is, Event, ConcernsItsEnd
    <3> QED BY <3>1, <3>2, <3>3, <3>4 DEF Safe, Control
  <2> QED BY <1>5, <2>1, <2>2 DEF WriteObservation
<1> QED BY <1>1, <1>2, <1>3, <1>4, <1>5

\* A look leaves the inbox to whoever has claimed it, and puts nothing into a
\* free one.
LEMMA LookSafe ==
  ASSUME SupervisionTypeOK, Safe, NEW l \in Looks, WaitAndTake(l) \/ Deliver(l) \/ PutBack(l)
  PROVE Safe'
<1>0. busy \in BOOLEAN BY DEF SupervisionTypeOK
<1>1. UNCHANGED <<open, busy, holder, pc, on>> /\ (~busy /\ pending = <<>> => pending' = <<>>)
  BY DEF WaitAndTake, Deliver, PutBack, job, inbox
<1>2. OneDriver' BY <1>0, <1>1 DEF Safe, Control, OneDriver, Drives
<1>3. TheTurnIsHeld' BY <1>1 DEF Safe, Control, TheTurnIsHeld, HoldsTurn
<1>4. EndOnce' BY <1>1 DEF Safe, Control, EndOnce, Is
<1>5. TurnsAreOfOpenPrints' BY <1>1 DEF Safe, TurnsAreOfOpenPrints, Is, Event, ConcernsItsEnd
<1> QED BY <1>2, <1>3, <1>4, <1>5 DEF Safe, Control

\* A driver's turn begins when the print has an end only if it is on that end.
LEMMA TurnSafe ==
  ASSUME SupervisionTypeOK, Safe, NEW t \in Actors,
         \/ TakeTurn(t) \/ RunTurn(t) \/ SkipTurn(t) \/ TurnReturns(t) \/ TurnErrs(t)
         \/ Continue(t) \/ GiveUp(t) \/ GoAndClose(t)
  PROVE Safe'
<1> USE NamesDiffer, Moves
<1>0. on \in [Actors -> Seq(Arrivals)] /\ busy \in BOOLEAN BY DEF SupervisionTypeOK
<1>1. CASE TakeTurn(t)
  <2>0. /\ pc[t] = "claimed" /\ holder = Nobody /\ holder' = t /\ To(t, "held")
        /\ UNCHANGED <<open, busy, pending, on>>
    BY <1>1 DEF TakeTurn, Is, job, inbox
  <2>1. OneDriver' BY <2>0 DEF Safe, Control, OneDriver, Drives
  <2>2. TheTurnIsHeld' BY <2>0 DEF Safe, Control, TheTurnIsHeld, HoldsTurn
  <2>3. EndOnce' BY <2>0 DEF Safe, Control, EndOnce, Is
  <2>4. TurnsAreOfOpenPrints'
    BY <2>0 DEF Safe, TurnsAreOfOpenPrints, Is, Event, ConcernsItsEnd
  <2> QED BY <2>1, <2>2, <2>3, <2>4 DEF Safe, Control
<1>2. CASE RunTurn(t)
  <2>0. /\ pc[t] = "held" /\ MayRun(t) /\ To(t, "running")
        /\ UNCHANGED <<open, busy, pending, holder, on>>
    BY <1>2 DEF RunTurn, Is, job, inbox
  <2>1. OneDriver' BY <2>0 DEF Safe, Control, OneDriver, Drives
  <2>2. TheTurnIsHeld' BY <2>0 DEF Safe, Control, TheTurnIsHeld, HoldsTurn
  <2>3. EndOnce' BY <2>0 DEF Safe, Control, EndOnce, Is
  <2>4. TurnsAreOfOpenPrints'
    BY <2>0 DEF Safe, TurnsAreOfOpenPrints, Is, Event, ConcernsItsEnd, MayRun
  <2> QED BY <2>1, <2>2, <2>3, <2>4 DEF Safe, Control
<1>3. CASE SkipTurn(t) \/ TurnReturns(t) \/ TurnErrs(t)
  <2>0. /\ pc[t] \in {"held", "running"} /\ holder' = Nobody /\ To(t, "returned")
        /\ on' = [on EXCEPT ![t] = <<>>] /\ UNCHANGED <<open, busy, pending>>
    BY <1>3 DEF SkipTurn, TurnReturns, TurnErrs, Drops, Is, job, inbox
  <2>1. OneDriver' BY <2>0 DEF Safe, Control, OneDriver, Drives
  <2>2. TheTurnIsHeld' BY <2>0 DEF Safe, Control, TheTurnIsHeld, HoldsTurn
  <2>3. EndOnce' BY <2>0 DEF Safe, Control, EndOnce, Is
  <2>5. /\ \A u \in Actors \ {t} : pc'[u] = pc[u] /\ on'[u] = on[u]
        /\ pc'[t] = "returned"
    BY <1>0, <2>0
  <2>4. TurnsAreOfOpenPrints'
    BY <2>0, <2>5 DEF Safe, TurnsAreOfOpenPrints, Is, Event, ConcernsItsEnd
  <2> QED BY <2>1, <2>2, <2>3, <2>4 DEF Safe, Control
<1>4. CASE Continue(t)
  BY <1>4, NextOrReleaseSafe DEF Continue, Is, job
<1>5. CASE GiveUp(t) \/ GoAndClose(t)
  <2>0. /\ pc[t] = "returned" /\ busy' = FALSE /\ pending' = <<>>
        /\ To(t, "done") \/ To(t, "closing")
        /\ UNCHANGED <<open, holder, on>>
    BY <1>5 DEF GiveUp, GoAndClose, Release, Is, job
  <2>1. OneDriver' BY <2>0 DEF Safe, Control, OneDriver, Drives
  <2>2. TheTurnIsHeld' BY <2>0 DEF Safe, Control, TheTurnIsHeld, HoldsTurn
  <2>3. EndOnce' BY <2>0 DEF Safe, Control, EndOnce, Is
  <2>4. TurnsAreOfOpenPrints'
    BY <2>0 DEF Safe, TurnsAreOfOpenPrints, Is, Event, ConcernsItsEnd
  <2> QED BY <2>1, <2>2, <2>3, <2>4 DEF Safe, Control
<1> QED BY <1>1, <1>2, <1>3, <1>4, <1>5

\* The end claims a free inbox, or is handed to whoever has claimed it: no task
\* but the end's own changes what it does.
LEMMA EndClaimSafe ==
  ASSUME SupervisionTypeOK, NEW left \in [Actors -> Places], ClaimForTheEnd(left)
  PROVE /\ \A u \in Actors \ {End} : pc'[u] = left[u] /\ on'[u] = on[u]
        /\ \/ ~busy /\ busy' = TRUE /\ pc'[End] = "claimed" /\ UNCHANGED pending
           \/ busy /\ UNCHANGED <<busy, on>> /\ pc'[End] = "handed"
  BY NamesDiffer DEF SupervisionTypeOK, ClaimForTheEnd

\* Only the holder of the turn closes a print out, so nobody runs an agent as
\* it ends.
LEMMA EndPrintSafe ==
  ASSUME SupervisionTypeOK, Safe, NEW t \in Actors, EndPrint(t) PROVE Safe'
<1> USE NamesDiffer, Moves
<1>0. pc[t] = "ending" /\ UNCHANGED <<busy, pending, on>> BY DEF EndPrint, Is, inbox
<1>1. holder = t /\ \A u \in Actors : HoldsTurn(u) => u = t
  BY <1>0 DEF Safe, Control, TheTurnIsHeld, HoldsTurn
<1>2. CASE open /\ open' = FALSE /\ To(t, "following") /\ UNCHANGED holder
  <2>0. pc[End] = "new" /\ t # End BY <1>0, <1>2 DEF Safe, Control, EndOnce
  <2>1. OneDriver' BY <1>0, <1>1, <1>2, <2>0 DEF Safe, Control, OneDriver, Drives
  <2>2. TheTurnIsHeld' BY <1>0, <1>1, <1>2, <2>0 DEF Safe, Control, TheTurnIsHeld, HoldsTurn
  <2>3. EndOnce' BY <1>0, <1>1, <1>2, <2>0 DEF Safe, Control, EndOnce, Is, HoldsTurn
  <2>4. TurnsAreOfOpenPrints'
    BY <1>0, <1>1, <1>2, <2>0 DEF Safe, HoldsTurn, TurnsAreOfOpenPrints, Is, Event, ConcernsItsEnd
  <2> QED BY <2>1, <2>2, <2>3, <2>4 DEF Safe, Control
<1>3. CASE ~open /\ UNCHANGED open /\ To(t, Left(t)) /\ holder' = Nobody
  <2>0. Left(t) = IF t = Reader THEN "new" ELSE "done" BY DEF Left
  <2>1. OneDriver' BY <1>0, <1>1, <1>3, <2>0 DEF Safe, Control, OneDriver, Drives
  <2>2. TheTurnIsHeld' BY <1>0, <1>1, <1>3, <2>0 DEF Safe, Control, TheTurnIsHeld, HoldsTurn
  <2>3. EndOnce' BY <1>0, <1>1, <1>3, <2>0 DEF Safe, Control, EndOnce, Is
  <2>4. TurnsAreOfOpenPrints'
    BY <1>0, <1>1, <1>3, <2>0 DEF Safe, HoldsTurn, TurnsAreOfOpenPrints, Is, Event, ConcernsItsEnd
  <2> QED BY <2>1, <2>2, <2>3, <2>4 DEF Safe, Control
<1> QED BY <1>2, <1>3 DEF EndPrint

LEMMA FollowUpSafe ==
  ASSUME SupervisionTypeOK, Safe, NEW t \in Actors, FollowUp(t) PROVE Safe'
<1> DEFINE left == [pc EXCEPT ![t] = Left(t)]
<1>0. pc[t] = "following" /\ holder' = Nobody /\ UNCHANGED open BY DEF FollowUp, Is, job
<1>1. holder = t /\ \A u \in Actors : HoldsTurn(u) => u = t
  BY <1>0, NamesDiffer DEF Safe, Control, TheTurnIsHeld, HoldsTurn
<1>2. ~open /\ pc[End] = "new" /\ t # End
  BY <1>0 DEF Safe, Control, EndOnce, Is
<1>3. /\ left \in [Actors -> Places]
      /\ \A u \in Actors : left[u] = IF u = t THEN Left(t) ELSE pc[u]
  BY DEF SupervisionTypeOK, Left, Places
<1>4. Left(t) \in {"new", "done"} BY DEF Left
<1>5. /\ \A u \in Actors \ {End} : pc'[u] = left[u] /\ on'[u] = on[u]
      /\ \/ ~busy /\ busy' = TRUE /\ pc'[End] = "claimed" /\ UNCHANGED pending
         \/ busy /\ UNCHANGED <<busy, on>> /\ pc'[End] = "handed"
         \/ UNCHANGED <<busy, pending, on>> /\ pc'[End] \in {"new", "resolved"}
  <2>1. CASE ClaimForTheEnd(left) /\ UNCHANGED failures BY <1>3, <2>1, EndClaimSafe
  <2>2. CASE Fails /\ pc' = [left EXCEPT ![End] = "resolved"] /\ UNCHANGED <<inbox, on>>
    BY <1>3, <2>2, NamesDiffer DEF inbox
  <2>3. CASE pc' = left /\ UNCHANGED <<inbox, on, failures>>
    BY <1>2, <1>3, <2>3, NamesDiffer DEF inbox
  <2> QED BY <2>1, <2>2, <2>3 DEF FollowUp
<1> HIDE DEF left
<1>6. /\ \A u \in Actors \ {End, t} : pc'[u] = pc[u] /\ on'[u] = on[u]
      /\ pc'[t] \in {"new", "done"}
  BY <1>2, <1>3, <1>4, <1>5
<1> USE NamesDiffer, <1>0, <1>1, <1>2, <1>5, <1>6
<1>7. OneDriver' BY DEF Safe, Control, OneDriver, Drives
<1>8. TheTurnIsHeld' BY DEF Safe, Control, TheTurnIsHeld, HoldsTurn
<1>9. EndOnce' BY DEF Safe, Control, EndOnce, Is, HoldsTurn
<1>10. TurnsAreOfOpenPrints' BY DEF HoldsTurn, TurnsAreOfOpenPrints, Is
<1> QED BY <1>7, <1>8, <1>9, <1>10 DEF Safe, Control

\* The rest of the close-outs.
LEMMA CloseSafe ==
  ASSUME SupervisionTypeOK, Safe, NEW t \in Actors,
         TakeTurnToClose(t) \/ CloseErrs(t) \/ FindOver \/ TryToClose \/ CatchUp
  PROVE Safe'
<1> USE NamesDiffer, Moves
<1>1. CASE TakeTurnToClose(t)
  <2>0. /\ pc[t] = "closing" /\ holder = Nobody /\ holder' = t /\ To(t, "ending")
        /\ UNCHANGED <<open, busy, pending, on>>
    BY <1>1 DEF TakeTurnToClose, Is, job, inbox
  <2>1. OneDriver' BY <2>0 DEF Safe, Control, OneDriver, Drives
  <2>2. TheTurnIsHeld' BY <2>0 DEF Safe, Control, TheTurnIsHeld, HoldsTurn
  <2>3. EndOnce' BY <2>0 DEF Safe, Control, EndOnce, Is
  <2>4. TurnsAreOfOpenPrints'
    BY <2>0 DEF Safe, TurnsAreOfOpenPrints, Is, Event, ConcernsItsEnd
  <2> QED BY <2>1, <2>2, <2>3, <2>4 DEF Safe, Control
<1>2. CASE CloseErrs(t)
  <2>0. /\ pc[t] = "ending" /\ holder' = Nobody /\ To(t, Left(t))
        /\ Left(t) \in {"new", "done"} /\ (t = End => Left(t) = "done")
        /\ UNCHANGED <<open, busy, pending, on>>
    BY <1>2 DEF CloseErrs, Is, job, inbox, Left
  <2>1. OneDriver' BY <2>0 DEF Safe, Control, OneDriver, Drives
  <2>2. TheTurnIsHeld' BY <2>0 DEF Safe, Control, TheTurnIsHeld, HoldsTurn
  <2>3. EndOnce' BY <2>0 DEF Safe, Control, EndOnce, Is
  <2>4. TurnsAreOfOpenPrints'
    BY <2>0 DEF Safe, TurnsAreOfOpenPrints, Is, Event, ConcernsItsEnd
  <2> QED BY <2>1, <2>2, <2>3, <2>4 DEF Safe, Control
<1>3. CASE FindOver BY <1>3, MovesAside DEF FindOver, job, inbox, Is
<1>4. CASE TryToClose
  <2>1. CASE holder # Nobody
    BY <1>4, <2>1, MovesAside DEF TryToClose, job, inbox, Is
  <2>2. CASE holder = Nobody
    <3>0. /\ pc[Reader] = "closing" /\ holder' = Reader /\ To(Reader, "ending")
          /\ UNCHANGED <<open, busy, pending, on>>
      BY <1>4, <2>2 DEF TryToClose, Is, job, inbox
    <3>1. OneDriver' BY <3>0 DEF Safe, Control, OneDriver, Drives
    <3>2. TheTurnIsHeld' BY <2>2, <3>0 DEF Safe, Control, TheTurnIsHeld, HoldsTurn
    <3>3. EndOnce' BY <3>0 DEF Safe, Control, EndOnce, Is
    <3>4. TurnsAreOfOpenPrints'
      BY <3>0 DEF Safe, TurnsAreOfOpenPrints, Is, Event, ConcernsItsEnd
    <3> QED BY <3>1, <3>2, <3>3, <3>4 DEF Safe, Control
  <2> QED BY <2>1, <2>2
<1>5. CASE CatchUp
  <2>0. /\ pc[End] = "resolved" /\ UNCHANGED <<open, holder>>
        /\ ~open /\ pc \in [Actors -> Places]
    BY <1>5 DEF CatchUp, Is, job, Safe, Control, EndOnce, SupervisionTypeOK
  <2>5. /\ \A u \in Actors \ {End} : pc'[u] = pc[u] /\ on'[u] = on[u]
        /\ \/ ~busy /\ busy' = TRUE /\ pc'[End] = "claimed" /\ UNCHANGED pending
           \/ busy /\ UNCHANGED <<busy, on>> /\ pc'[End] = "handed"
           \/ UNCHANGED <<busy, pending, on>> /\ pc'[End] = "done"
    <3>1. CASE ClaimForTheEnd(pc) BY <2>0, <3>1, EndClaimSafe
    <3>2. CASE To(End, "done") /\ UNCHANGED <<inbox, on>> BY <3>2 DEF inbox
    <3> QED BY <1>5, <3>1, <3>2 DEF CatchUp
  <2>1. OneDriver' BY <2>0, <2>5 DEF Safe, Control, OneDriver, Drives
  <2>2. TheTurnIsHeld' BY <2>0, <2>5 DEF Safe, Control, TheTurnIsHeld, HoldsTurn
  <2>3. EndOnce' BY <2>0, <2>5 DEF Safe, Control, EndOnce, Is
  <2>4. TurnsAreOfOpenPrints'
    BY <2>0, <2>5 DEF Safe, TurnsAreOfOpenPrints, Is, Event, ConcernsItsEnd
  <2> QED BY <2>1, <2>2, <2>3, <2>4 DEF Safe, Control
<1> QED BY <1>1, <1>2, <1>3, <1>4, <1>5

-----------------------------------------------------------------------------
(* The theorems *)

LEMMA SupervisionStep == SupervisionIInv /\ [SupervisionNext]_supervision => SupervisionIInv'
<1> SUFFICES ASSUME SupervisionTypeOK, Safe, [SupervisionNext]_supervision
             PROVE SupervisionTypeOK' /\ Safe'
  BY DEF SupervisionIInv, Safe
<1>1. CASE UNCHANGED supervision
  BY <1>1, Quiet DEF supervision, SupervisionTypeOK
<1>2. CASE JobIsOver
  BY <1>2, Quiet DEF JobIsOver, SupervisionTypeOK, inbox
<1>3. ASSUME NEW a \in Arrivals,
             Resolve(a) \/ List(a) \/ Claim(a) \/ ClaimIfIdle(a) \/ WriteObservation(a)
      PROVE SupervisionTypeOK' /\ Safe'
  BY <1>3, ArrivalTyped, ArrivalSafe
<1>4. ASSUME NEW l \in Looks, WaitAndTake(l) \/ Deliver(l) \/ PutBack(l)
      PROVE SupervisionTypeOK' /\ Safe'
  BY <1>4, LookTyped, LookSafe
<1>5. ASSUME NEW t \in Actors, Drive(t) \/ TurnErrs(t) \/ CloseErrs(t)
      PROVE SupervisionTypeOK' /\ Safe'
  BY <1>5, TurnTyped, CloseTyped, TurnSafe, EndPrintSafe, FollowUpSafe, CloseSafe DEF Drive
<1>6. CASE FindOver \/ TryToClose \/ CatchUp
  <2>1. Reader \in Actors BY NamesDiffer
  <2> QED BY <1>6, <2>1, CloseTyped, CloseSafe
<1> QED BY <1>1, <1>2, <1>3, <1>4, <1>5, <1>6 DEF SupervisionNext

\* In every reachable state the types are kept, one task drives the inbox, the
\* turn is held by whoever runs an agent or closes the print out, and the end
\* has come to the inbox at most once.
THEOREM Invariance == SupervisionSpec => []SupervisionIInv
<1>1. SupervisionInit => SupervisionIInv BY SupervisionInitial
<1>2. SupervisionIInv /\ [SupervisionNext]_supervision => SupervisionIInv'
  BY SupervisionStep
<1> QED BY <1>1, <1>2, PTL DEF SupervisionSpec

\* inbox.rs 3-8 and events.rs 651: one task drives the turns of a print, and
\* whoever runs its agent or ends it holds its turn.
THEOREM OneDriverOneTurn == SupervisionSpec => []SupervisionInv
<1>1. SupervisionIInv => SupervisionInv
  BY DEF SupervisionIInv, SupervisionInv, Control
<1> QED BY <1>1, Invariance, PTL

\* events.rs 392-398: no agent runs for a print that has ended but on its end,
\* and no print ends under an agent that runs for it.
THEOREM AgentsRunOnOpenPrints == SupervisionSpec => []TurnsAreOfOpenPrints
<1>1. SupervisionIInv => TurnsAreOfOpenPrints BY DEF SupervisionIInv
<1> QED BY <1>1, Invariance, PTL

-----------------------------------------------------------------------------
(***************************************************************************)
(* Each arrival in one place.  What waits for a delivery is in the inbox,  *)
(* in a look's hand or with a driver whose turn has not run; `Keepers` are *)
(* these places and `kept` is what each holds.                             *)
(***************************************************************************)
Inbox == <<"inbox", End>>
Driver(t) == <<"driver", t>>
Look(l) == <<"look", l>>
Keepers == {Inbox} \union {Driver(t) : t \in Actors} \union {Look(l) : l \in Looks}

KeptOf(p, h, o, c) ==
  [q \in Keepers |->
     IF q = Inbox THEN p
     ELSE IF q[1] = "look" THEN h[q[2]]
     ELSE IF c[q[2]] \in {"claimed", "held"} THEN o[q[2]] ELSE <<>>]
kept == KeptOf(pending, hand, on, pc)

Waits(K, a) == \E q \in Keepers : \E i \in DOMAIN K[q] : K[q][i] = a
OnceIn(K) ==
  \A q, r \in Keepers : \A i \in DOMAIN K[q] : \A j \in DOMAIN K[r] :
    K[q][i] = K[r][j] => q = r /\ i = j

NotCome(a) == pc[a] \in {"new", "resolved", "writing"}

\* What waits has not been given, nor has what is still to come, which does not wait.
Ungiven ==
  \A a \in Arrivals : /\ Waits(kept, a) => given[a] = 0 /\ ~NotCome(a)
                      /\ NotCome(a) => given[a] = 0

\* A driver holds something only until its turn is over.
EmptyHanded == \A t \in Actors : on[t] # <<>> => pc[t] \in {"claimed", "held", "running"}

\* What waits came before the alerts that are still to come.
AheadOfTheRest ==
  \A a, b \in Alerts : pc[a] \in {"new", "resolved"} /\ a < b =>
    ~\E s \in {pending} \union {hand[l] : l \in Looks} : \E i \in DOMAIN s : s[i] = b

\* What a look holds came before what waits in the inbox.
AheadOfTheInbox ==
  failures = 0 \/ (\A l, m \in Looks : l = m) =>
    \A l \in Looks : \A i \in DOMAIN hand[l], j \in DOMAIN pending :
      hand[l][i] \in Alerts /\ pending[j] \in Alerts => hand[l][i] < pending[j]

DeliveryInv ==
  /\ OnceIn(kept) /\ Ungiven /\ EmptyHanded /\ GivenOnce
  /\ AheadOfTheRest /\ AheadOfTheInbox /\ OldestFirst

Queues == [Keepers -> Seq(Arrivals)]

\* What each keeper keeps, and that keepers differ.
LEMMA KeptIs ==
  ASSUME NEW p, NEW h, NEW o, NEW c
  PROVE /\ KeptOf(p, h, o, c)[Inbox] = p
        /\ \A t \in Actors : KeptOf(p, h, o, c)[Driver(t)] =
                               IF c[t] \in {"claimed", "held"} THEN o[t] ELSE <<>>
        /\ \A l \in Looks : KeptOf(p, h, o, c)[Look(l)] = h[l]
  BY DEF KeptOf, Keepers, Inbox, Driver, Look

LEMMA KeepersDiffer ==
  /\ Inbox \in Keepers /\ \A t \in Actors : Driver(t) \in Keepers /\ Driver(t) # Inbox
  /\ \A l \in Looks : Look(l) \in Keepers /\ Look(l) # Inbox
  /\ \A t \in Actors, l \in Looks : Driver(t) # Look(l)
  /\ \A t, u \in Actors : Driver(t) = Driver(u) => t = u
  /\ \A l, m \in Looks : Look(l) = Look(m) => l = m
  /\ \A q \in Keepers : \/ q = Inbox
                        \/ \E t \in Actors : q = Driver(t)
                        \/ \E l \in Looks : q = Look(l)
  BY DEF Keepers, Inbox, Driver, Look

LEMMA KeptTyped ==
  ASSUME NEW p \in Seq(Arrivals), NEW h \in [Looks -> Seq(Arrivals)],
         NEW o \in [Actors -> Seq(Arrivals)], NEW c \in [Actors -> Places]
  PROVE KeptOf(p, h, o, c) \in Queues
<1> DEFINE K == KeptOf(p, h, o, c)
<1>1. ASSUME NEW q \in Keepers PROVE K[q] \in Seq(Arrivals)
  <2>1. CASE q = Inbox BY <2>1, KeptIs
  <2>2. ASSUME NEW t \in Actors, q = Driver(t) PROVE K[q] \in Seq(Arrivals)
    <3>1. <<>> \in Seq(Arrivals) OBVIOUS
    <3>2. K[q] = IF c[t] \in {"claimed", "held"} THEN o[t] ELSE <<>> BY <2>2, KeptIs
    <3> HIDE DEF K
    <3> QED BY <3>1, <3>2
  <2>3. ASSUME NEW l \in Looks, q = Look(l) PROVE K[q] \in Seq(Arrivals) BY <2>3, KeptIs
  <2> QED BY <2>1, <2>2, <2>3, KeepersDiffer
<1>2. K = [q \in Keepers |-> K[q]] BY DEF KeptOf
<1> HIDE DEF K
<1>3. K \in Queues BY <1>1, <1>2 DEF Queues
<1> QED BY <1>3 DEF K

\* Nothing is kept in two places when one place is emptied.
LEMMA Emptied ==
  ASSUME NEW K \in Queues, NEW L \in Queues, OnceIn(K), NEW q \in Keepers,
         \A r \in Keepers : L[r] = IF r = q THEN <<>> ELSE K[r]
  PROVE /\ OnceIn(L)
        /\ \A a : Waits(L, a) => Waits(K, a) /\ \A i \in DOMAIN K[q] : K[q][i] # a
<1>1. OnceIn(L) BY DEF OnceIn
<1>2. ASSUME NEW a, Waits(L, a) PROVE Waits(K, a) /\ \A i \in DOMAIN K[q] : K[q][i] # a
  <2>1. PICK r \in Keepers : \E i \in DOMAIN L[r] : L[r][i] = a BY <1>2 DEF Waits
  <2>2. r # q /\ L[r] = K[r] BY <2>1
  <2> QED BY <2>1, <2>2 DEF Waits, OnceIn
<1> QED BY <1>1, <1>2

\* ... when all that one place holds goes to an empty one,
LEMMA Moved ==
  ASSUME NEW K \in Queues, NEW L \in Queues, OnceIn(K), NEW q \in Keepers, NEW r \in Keepers,
         q # r, K[r] = <<>>,
         \A k \in Keepers : L[k] = IF k = q THEN <<>> ELSE IF k = r THEN K[q] ELSE K[k]
  PROVE OnceIn(L) /\ \A a : Waits(L, a) => Waits(K, a)
<1>1. \A k \in Keepers : \A i \in DOMAIN L[k] :
        \E m \in Keepers : /\ m = IF k = r THEN q ELSE k
                           /\ m # r /\ i \in DOMAIN K[m] /\ L[k][i] = K[m][i] /\ k # q
  OBVIOUS
<1>2. OnceIn(L) BY <1>1 DEF OnceIn
<1> QED BY <1>1, <1>2 DEF Waits

\* ... when one that waits nowhere comes to an empty place,
LEMMA Entered ==
  ASSUME NEW K \in Queues, NEW L \in Queues, OnceIn(K), NEW q \in Keepers,
         K[q] = <<>>, NEW a, ~Waits(K, a),
         \A r \in Keepers : L[r] = IF r = q THEN <<a>> ELSE K[r]
  PROVE OnceIn(L) /\ \A b : Waits(L, b) => b = a \/ Waits(K, b)
<1>1. L[q] = <<a>> /\ DOMAIN L[q] = {1} /\ L[q][1] = a OBVIOUS
<1>2. \A r \in Keepers \ {q} : L[r] = K[r] OBVIOUS
<1>3. OnceIn(L) BY <1>1, <1>2 DEF OnceIn, Waits
<1> QED BY <1>1, <1>2, <1>3 DEF Waits

\* ... or behind what a place holds,
LEMMA Queued ==
  ASSUME NEW K \in Queues, NEW L \in Queues, OnceIn(K), NEW q \in Keepers,
         NEW a \in Arrivals, ~Waits(K, a),
         \A r \in Keepers : L[r] = IF r = q THEN Append(K[q], a) ELSE K[r]
  PROVE OnceIn(L) /\ \A b : Waits(L, b) => b = a \/ Waits(K, b)
<1>0. K[q] \in Seq(Arrivals) /\ Len(K[q]) \in Nat BY DEF Queues
<1>1. /\ DOMAIN L[q] = DOMAIN K[q] \union {Len(K[q]) + 1} /\ Len(K[q]) + 1 \notin DOMAIN K[q]
      /\ L[q][Len(K[q]) + 1] = a
      /\ \A i \in DOMAIN K[q] : L[q][i] = K[q][i]
  <2> DEFINE s == K[q]
  <2>1. s \in Seq(Arrivals) /\ L[q] = Append(s, a) BY <1>0
  <2> HIDE DEF s
  <2>2. /\ DOMAIN Append(s, a) = DOMAIN s \union {Len(s) + 1} /\ Len(s) + 1 \notin DOMAIN s
        /\ Append(s, a)[Len(s) + 1] = a
        /\ \A i \in DOMAIN s : Append(s, a)[i] = s[i]
    BY <2>1
  <2> QED BY <2>1, <2>2 DEF s
<1>2. \A r \in Keepers \ {q} : L[r] = K[r] OBVIOUS
<1> HIDE DEF Queues
<1>3. \A r \in Keepers : \A i \in DOMAIN L[r] :
        \/ r = q /\ i = Len(K[q]) + 1 /\ L[r][i] = a
        \/ i \in DOMAIN K[r] /\ L[r][i] = K[r][i] /\ L[r][i] # a
  BY <1>1, <1>2 DEF Waits
<1>4. OnceIn(L) BY <1>3 DEF OnceIn
<1> QED BY <1>3, <1>4 DEF Waits

\* ... and when what one place holds goes ahead of what another does.
LEMMA PutAhead ==
  ASSUME NEW K \in Queues, NEW L \in Queues, OnceIn(K), NEW q \in Keepers, NEW r \in Keepers,
         q # r,
         \A k \in Keepers : L[k] = IF k = q THEN K[r] \o K[q] ELSE IF k = r THEN <<>> ELSE K[k]
  PROVE OnceIn(L) /\ \A a : Waits(L, a) => Waits(K, a)
<1>0. /\ K[q] \in Seq(Arrivals) /\ Len(K[q]) \in Nat
      /\ K[r] \in Seq(Arrivals) /\ Len(K[r]) \in Nat
  BY DEF Queues
<1>1. /\ L[q] = K[r] \o K[q] /\ DOMAIN L[q] = 1 .. Len(K[r]) + Len(K[q])
      /\ \A i \in DOMAIN L[q] :
           IF i <= Len(K[r]) THEN i \in DOMAIN K[r] /\ L[q][i] = K[r][i]
           ELSE i - Len(K[r]) \in DOMAIN K[q] /\ L[q][i] = K[q][i - Len(K[r])]
  <2> DEFINE s == K[r]
             t == K[q]
  <2>1. s \in Seq(Arrivals) /\ t \in Seq(Arrivals) /\ L[q] = s \o t BY <1>0
  <2> HIDE DEF s, t
  <2>2. /\ DOMAIN (s \o t) = 1 .. Len(s) + Len(t)
        /\ \A i \in DOMAIN (s \o t) :
             IF i <= Len(s) THEN i \in DOMAIN s /\ (s \o t)[i] = s[i]
             ELSE i - Len(s) \in DOMAIN t /\ (s \o t)[i] = t[i - Len(s)]
    BY <2>1
  <2> QED BY <2>1, <2>2 DEF s, t
<1>2. L[r] = <<>> /\ \A k \in Keepers \ {q, r} : L[k] = K[k] OBVIOUS
<1>3. \A k \in Keepers : \A i \in DOMAIN L[k] :
        \E m \in Keepers : \E n \in DOMAIN K[m] :
          /\ L[k][i] = K[m][n] /\ k # r
          /\ \/ k # q /\ m = k /\ n = i
             \/ k = q /\ m = r /\ n = i
             \/ k = q /\ m = q /\ n = i - Len(K[r]) /\ i \in Nat
  <2> TAKE k \in Keepers
  <2> TAKE i \in DOMAIN L[k]
  <2>1. CASE k = q
    <3>0. i \in 1 .. Len(K[r]) + Len(K[q]) BY <1>1, <2>1
    <3>1. i \in Nat /\ L[k][i] = L[q][i] /\ k # r BY <1>0, <2>1, <3>0
    <3>2. CASE i <= Len(K[r]) BY <1>1, <2>1, <3>1, <3>2
    <3>3. CASE ~(i <= Len(K[r]))
      <4>1. i - Len(K[r]) \in DOMAIN K[q] /\ L[q][i] = K[q][i - Len(K[r])] BY <1>1, <2>1, <3>3
      <4> QED BY <2>1, <3>1, <4>1
    <3> QED BY <3>2, <3>3
  <2>2. CASE k # q BY <1>2, <2>2
  <2> QED BY <2>1, <2>2
<1>4. OnceIn(L) BY <1>0, <1>3 DEF OnceIn
<1> QED BY <1>3, <1>4 DEF Waits

\* The same of the queues as they are and as a step leaves them.
LEMMA KeptNow ==
  /\ kept[Inbox] = pending /\ kept'[Inbox] = pending'
  /\ \A t \in Actors : kept[Driver(t)] = IF pc[t] \in {"claimed", "held"} THEN on[t] ELSE <<>>
  /\ \A t \in Actors : kept'[Driver(t)] = IF pc'[t] \in {"claimed", "held"} THEN on'[t] ELSE <<>>
  /\ \A l \in Looks : kept[Look(l)] = hand[l] /\ kept'[Look(l)] = hand'[l]
  BY KeptIs DEF kept

LEMMA KeptQueues ==
  ASSUME SupervisionTypeOK, SupervisionTypeOK' PROVE kept \in Queues /\ kept' \in Queues
  BY KeptTyped DEF SupervisionTypeOK, kept

\* An arrival is given once as long as only what waits is given, and is then kept
\* nowhere, and what comes to wait had not come before.
LEMMA GivingOnce ==
  ASSUME SupervisionTypeOK, Ungiven, GivenOnce,
         \A a \in Arrivals : Waits(kept', a) => Waits(kept, a) \/ (NotCome(a) /\ ~NotCome(a)'),
         \A a \in Arrivals : NotCome(a)' => NotCome(a),
         \A a \in Arrivals : \/ given'[a] = given[a]
                             \/ given'[a] = given[a] + 1 /\ Waits(kept, a) /\ ~Waits(kept', a)
  PROVE Ungiven' /\ GivenOnce'
<1>1. \A a \in Arrivals : given[a] \in Nat BY DEF SupervisionTypeOK
<1>2. ASSUME NEW a \in Arrivals PROVE given'[a] <= 1 BY <1>1 DEF Ungiven, GivenOnce
<1>3. ASSUME NEW a \in Arrivals, Waits(kept', a) PROVE given'[a] = 0 /\ ~NotCome(a)'
  BY <1>3 DEF Ungiven
<1>4. ASSUME NEW a \in Arrivals, NotCome(a)' PROVE given'[a] = 0 BY <1>4 DEF Ungiven
<1>5. (\A a \in Arrivals : /\ Waits(kept, a) => given[a] = 0 /\ ~NotCome(a)
                           /\ NotCome(a) => given[a] = 0)'
  BY <1>3, <1>4
<1> QED BY <1>2, <1>5 DEF Ungiven, GivenOnce

Once == OnceIn(kept) /\ Ungiven /\ GivenOnce /\ EmptyHanded

\* A step that leaves every place as it is, and gives nothing.
LEMMA PlacesAsTheyAre ==
  ASSUME SupervisionTypeOK, SupervisionTypeOK', Once, UNCHANGED <<pending, hand, given>>,
         \A t \in Actors : \/ on'[t] = on[t] /\ (pc[t] \in {"claimed", "held"} <=> pc'[t] \in {"claimed", "held"})
                           \/ /\ pc[t] \notin {"claimed", "held"} \/ on[t] = <<>>
                              /\ pc'[t] \notin {"claimed", "held"} \/ on'[t] = <<>>,
         \A a \in Arrivals : NotCome(a)' => NotCome(a),
         \A t \in Actors : on'[t] # <<>> => pc'[t] \in {"claimed", "held", "running"}
  PROVE Once'
<1>1. \A q \in Keepers : kept'[q] = kept[q]
  <2>1. kept'[Inbox] = kept[Inbox] BY KeptNow
  <2>2. \A l \in Looks : kept'[Look(l)] = kept[Look(l)] BY KeptNow
  <2>3. \A t \in Actors : kept'[Driver(t)] = kept[Driver(t)] BY KeptNow
  <2> QED BY <2>1, <2>2, <2>3, KeepersDiffer
<1>2. OnceIn(kept)' BY <1>1 DEF Once, OnceIn
<1>3. \A a \in Arrivals : Waits(kept', a) => Waits(kept, a) BY <1>1 DEF Waits
<1>4. Ungiven' /\ GivenOnce' BY <1>3, GivingOnce DEF Once
<1>5. EmptyHanded' BY DEF EmptyHanded
<1> QED BY <1>2, <1>4, <1>5 DEF Once

\* One place is emptied; what it held is given, or given up.
LEMMA PlaceEmptied ==
  ASSUME SupervisionTypeOK, SupervisionTypeOK', Once, NEW q \in Keepers,
         \A r \in Keepers : kept'[r] = IF r = q THEN <<>> ELSE kept[r],
         \/ UNCHANGED given
         \/ given' = Delivered(kept[q]),
         \A a \in Arrivals : NotCome(a)' => NotCome(a),
         \A t \in Actors : on'[t] # <<>> => pc'[t] \in {"claimed", "held", "running"}
  PROVE Once'
<1>1. kept \in Queues /\ kept' \in Queues BY KeptQueues
<1>2. /\ OnceIn(kept')
      /\ \A a : Waits(kept', a) => Waits(kept, a) /\ \A i \in DOMAIN kept[q] : kept[q][i] # a
  BY <1>1, Emptied DEF Once
<1>3. ASSUME NEW a \in Arrivals
      PROVE  \/ given'[a] = given[a]
             \/ given'[a] = given[a] + 1 /\ Waits(kept, a) /\ ~Waits(kept', a)
  <2>1. CASE UNCHANGED given BY <2>1
  <2>2. CASE given' = Delivered(kept[q])
    <3>1. CASE a \in In(kept[q])
      <4>1. given'[a] = given[a] + 1 BY <2>2, <3>1 DEF Delivered
      <4>2. PICK i \in DOMAIN kept[q] : kept[q][i] = a BY <3>1 DEF In
      <4> QED BY <1>2, <4>1, <4>2 DEF Waits
    <3>2. CASE a \notin In(kept[q]) BY <2>2, <3>2 DEF Delivered
    <3> QED BY <3>1, <3>2
  <2> QED BY <2>1, <2>2
<1>4. Ungiven' /\ GivenOnce' BY <1>2, <1>3, GivingOnce DEF Once
<1>5. EmptyHanded' BY DEF EmptyHanded
<1> QED BY <1>2, <1>4, <1>5 DEF Once

\* All that waits in one place goes to another, or ahead of what the other holds.
LEMMA PlaceMoved ==
  ASSUME SupervisionTypeOK, SupervisionTypeOK', Once, NEW q \in Keepers, NEW r \in Keepers,
         q # r, UNCHANGED given,
         \/ /\ kept[r] = <<>>
            /\ \A k \in Keepers : kept'[k] = IF k = q THEN <<>> ELSE IF k = r THEN kept[q] ELSE kept[k]
         \/ \A k \in Keepers : kept'[k] = IF k = r THEN kept[q] \o kept[r]
                                          ELSE IF k = q THEN <<>> ELSE kept[k],
         \A a \in Arrivals : NotCome(a)' => NotCome(a),
         \A t \in Actors : on'[t] # <<>> => pc'[t] \in {"claimed", "held", "running"}
  PROVE Once'
<1>1. kept \in Queues /\ kept' \in Queues BY KeptQueues
<1>2. OnceIn(kept') /\ \A a : Waits(kept', a) => Waits(kept, a)
  <2>1. CASE /\ kept[r] = <<>>
             /\ \A k \in Keepers : kept'[k] = IF k = q THEN <<>> ELSE IF k = r THEN kept[q] ELSE kept[k]
    BY <1>1, <2>1, Moved DEF Once
  <2>2. CASE \A k \in Keepers : kept'[k] = IF k = r THEN kept[q] \o kept[r]
                                           ELSE IF k = q THEN <<>> ELSE kept[k]
    BY <1>1, <2>2, PutAhead DEF Once
  <2> QED BY <2>1, <2>2
<1>3. Ungiven' /\ GivenOnce' BY <1>2, GivingOnce DEF Once
<1>4. EmptyHanded' BY DEF EmptyHanded
<1> QED BY <1>2, <1>3, <1>4 DEF Once

\* What had not come comes to an empty place, or behind what another holds.
LEMMA PlaceEntered ==
  ASSUME SupervisionTypeOK, SupervisionTypeOK', Once, NEW q \in Keepers, NEW a \in Arrivals,
         NotCome(a), ~NotCome(a)', UNCHANGED given,
         \/ kept[q] = <<>> /\ \A r \in Keepers : kept'[r] = IF r = q THEN <<a>> ELSE kept[r]
         \/ \A r \in Keepers : kept'[r] = IF r = q THEN Append(kept[q], a) ELSE kept[r],
         \A b \in Arrivals : NotCome(b)' => NotCome(b),
         \A t \in Actors : on'[t] # <<>> => pc'[t] \in {"claimed", "held", "running"}
  PROVE Once'
<1>1. kept \in Queues /\ kept' \in Queues BY KeptQueues
<1>2. ~Waits(kept, a) BY DEF Once, Ungiven
<1>3. OnceIn(kept') /\ \A b : Waits(kept', b) => b = a \/ Waits(kept, b)
  <2>1. CASE kept[q] = <<>> /\ \A r \in Keepers : kept'[r] = IF r = q THEN <<a>> ELSE kept[r]
    BY <1>1, <1>2, <2>1, Entered DEF Once
  <2>2. CASE \A r \in Keepers : kept'[r] = IF r = q THEN Append(kept[q], a) ELSE kept[r]
    BY <1>1, <1>2, <2>2, Queued DEF Once
  <2> QED BY <2>1, <2>2
<1>4. Ungiven' /\ GivenOnce' BY <1>3, GivingOnce DEF Once
<1>5. EmptyHanded' BY DEF EmptyHanded
<1> QED BY <1>3, <1>4, <1>5 DEF Once

\* Where one task moves, nobody comes back to the beginning, and a driver whose
\* turn is over holds nothing.
LEMMA OneMoves ==
  ASSUME SupervisionTypeOK, EmptyHanded, NEW t \in Actors, NEW where, To(t, where),
         \/ t = Reader
         \/ where \notin {"new", "resolved", "writing"}
         \/ (pc[t] = "new" /\ where = "resolved")
         \/ (pc[t] = "resolved" /\ where = "writing"),
         \A u \in Actors \ {t} : on'[u] = on[u],
         on'[t] # <<>> => where \in {"claimed", "held", "running"}
  PROVE /\ \A a \in Arrivals : NotCome(a)' => NotCome(a)
        /\ \A u \in Actors : on'[u] # <<>> => pc'[u] \in {"claimed", "held", "running"}
<1>1. \A u \in Actors : pc'[u] = IF u = t THEN where ELSE pc[u] BY Moves
<1>2. \A a \in Arrivals : NotCome(a)' => NotCome(a) BY <1>1, NamesDiffer DEF NotCome
<1>3. \A u \in Actors : on'[u] # <<>> => pc'[u] \in {"claimed", "held", "running"}
  BY <1>1 DEF EmptyHanded
<1> QED BY <1>2, <1>3

\* A task that keeps nothing moves to where it keeps nothing, or a driver that
\* keeps its arrivals goes on keeping them.
LEMMA OnceAside ==
  ASSUME SupervisionTypeOK, SupervisionTypeOK', Once, NEW t \in Actors, NEW where, To(t, where),
         UNCHANGED <<pending, on, hand, given>>,
         \/ t = Reader
         \/ where \notin {"new", "resolved", "writing"}
         \/ (pc[t] = "new" /\ where = "resolved")
         \/ (pc[t] = "resolved" /\ where = "writing"),
         \/ pc[t] \notin {"claimed", "held", "running"} /\ where \notin {"claimed", "held"}
         \/ pc[t] = "claimed" /\ where = "held"
  PROVE Once'
<1>1. \A u \in Actors : pc'[u] = IF u = t THEN where ELSE pc[u] BY Moves
<1>2. pc[t] \in {"claimed", "held", "running"} \/ on[t] = <<>> BY DEF Once, EmptyHanded
<1>3. on'[t] # <<>> => where \in {"claimed", "held", "running"} BY <1>2
<1>4. /\ \A a \in Arrivals : NotCome(a)' => NotCome(a)
      /\ \A u \in Actors : on'[u] # <<>> => pc'[u] \in {"claimed", "held", "running"}
  BY <1>3, OneMoves DEF Once
<1>5. \A u \in Actors : \/ on'[u] = on[u] /\ (pc[u] \in {"claimed", "held"} <=> pc'[u] \in {"claimed", "held"})
                        \/ /\ pc[u] \notin {"claimed", "held"} \/ on[u] = <<>>
                           /\ pc'[u] \notin {"claimed", "held"} \/ on'[u] = <<>>
  BY <1>1
<1> QED BY <1>4, <1>5, PlacesAsTheyAre

\* A driver takes what waits in the inbox, or finds nothing there.
LEMMA OnceNext ==
  ASSUME SupervisionTypeOK, SupervisionTypeOK', Once, NEW t \in Actors,
         pc[t] \in {"writing", "returned"}, NextOrRelease(t), UNCHANGED <<hand, given>>
  PROVE Once'
<1>0. on[t] = <<>> BY DEF Once, EmptyHanded
<1>1. CASE pending = <<>> /\ busy' = FALSE /\ To(t, "done") /\ UNCHANGED <<pending, on>>
  BY <1>1, OnceAside
<1>2. CASE /\ on' = [on EXCEPT ![t] = pending] /\ pending' = <<>> /\ To(t, "claimed")
           /\ UNCHANGED busy
  <2>1. \A u \in Actors : pc'[u] = IF u = t THEN "claimed" ELSE pc[u] BY <1>2, Moves
  <2>2. \A u \in Actors : on'[u] = IF u = t THEN pending ELSE on[u]
    BY <1>2 DEF SupervisionTypeOK
  <2>3. /\ \A a \in Arrivals : NotCome(a)' => NotCome(a)
        /\ \A u \in Actors : on'[u] # <<>> => pc'[u] \in {"claimed", "held", "running"}
    BY <1>2, <2>2, OneMoves DEF Once
  <2>4. /\ kept'[Inbox] = <<>> /\ kept'[Driver(t)] = kept[Inbox] /\ kept[Driver(t)] = <<>>
        /\ \A u \in Actors \ {t} : kept'[Driver(u)] = kept[Driver(u)]
        /\ \A l \in Looks : kept'[Look(l)] = kept[Look(l)]
    BY <1>2, <2>1, <2>2, KeptNow
  <2>5. \A k \in Keepers : kept'[k] = IF k = Inbox THEN <<>>
                                      ELSE IF k = Driver(t) THEN kept[Inbox] ELSE kept[k]
    BY <2>4, KeepersDiffer
  <2>6. Inbox \in Keepers /\ Driver(t) \in Keepers /\ Driver(t) # Inbox BY KeepersDiffer
  <2> QED BY <2>3, <2>4, <2>5, <2>6, PlaceMoved
<1> QED BY <1>1, <1>2 DEF NextOrRelease

\* What an arrival does.
LEMMA OnceArrival ==
  ASSUME SupervisionTypeOK, SupervisionTypeOK', Once, NEW a \in Arrivals,
         Resolve(a) \/ List(a) \/ Claim(a) \/ ClaimIfIdle(a) \/ WriteObservation(a)
  PROVE Once'
<1> USE NamesDiffer
<1>1. CASE Resolve(a) \/ List(a)
  <2>1. /\ pc[a] = "new" /\ (To(a, "resolved") \/ To(a, "done"))
        /\ UNCHANGED <<pending, on, hand, given>>
    BY <1>1 DEF Resolve, List, inbox, Is
  <2>2. CASE To(a, "resolved") BY <2>1, <2>2, OnceAside
  <2>3. CASE To(a, "done") BY <2>1, <2>3, OnceAside
  <2> QED BY <2>1, <2>2, <2>3
<1>2. CASE ClaimIfIdle(a) BY <1>2, OnceAside DEF ClaimIfIdle, Is
<1>4. ASSUME pc[a] \in {"resolved", "writing"}, To(a, "claimed"),
             on' = [on EXCEPT ![a] = <<a>>], UNCHANGED <<pending, hand, given>>
      PROVE  Once'
  <2>0. a \in Actors /\ NotCome(a) BY <1>4 DEF NotCome
  <2>1. \A u \in Actors : pc'[u] = IF u = a THEN "claimed" ELSE pc[u] BY <1>4, Moves
  <2>2. \A u \in Actors : on'[u] = IF u = a THEN <<a>> ELSE on[u]
    BY <1>4 DEF SupervisionTypeOK
  <2>3. /\ \A b \in Arrivals : NotCome(b)' => NotCome(b)
        /\ \A u \in Actors : on'[u] # <<>> => pc'[u] \in {"claimed", "held", "running"}
    BY <1>4, <2>0, <2>2, OneMoves DEF Once
  <2>4. /\ kept'[Inbox] = kept[Inbox] /\ kept'[Driver(a)] = <<a>> /\ kept[Driver(a)] = <<>>
        /\ \A u \in Actors \ {a} : kept'[Driver(u)] = kept[Driver(u)]
        /\ \A l \in Looks : kept'[Look(l)] = kept[Look(l)]
    BY <1>4, <2>0, <2>1, <2>2, KeptNow
  <2>5. \A k \in Keepers : kept'[k] = IF k = Driver(a) THEN <<a>> ELSE kept[k]
    BY <2>0, <2>4, KeepersDiffer
  <2>6. Driver(a) \in Keepers /\ ~NotCome(a)' BY <2>0, <2>1, KeepersDiffer DEF NotCome
  <2> QED BY <1>4, <2>0, <2>3, <2>4, <2>5, <2>6, PlaceEntered
<1>5. CASE Claim(a)
  <2>1. CASE /\ ~busy /\ busy' = TRUE /\ To(a, "claimed") /\ on' = [on EXCEPT ![a] = <<a>>]
             /\ UNCHANGED pending
    BY <1>4, <1>5, <2>1 DEF Claim, Is
  <2>2. CASE /\ busy /\ pending' = Append(pending, a) /\ To(a, "handed")
             /\ UNCHANGED <<busy, on>>
    <3>0. /\ a \in Actors /\ NotCome(a) /\ UNCHANGED <<hand, given>>
          /\ pc[a] = "resolved" /\ on[a] = <<>>
      BY <1>5 DEF Claim, Is, NotCome, Once, EmptyHanded
    <3>1. \A u \in Actors : pc'[u] = IF u = a THEN "handed" ELSE pc[u] BY <2>2, <3>0, Moves
    <3>2. /\ \A b \in Arrivals : NotCome(b)' => NotCome(b)
          /\ \A u \in Actors : on'[u] # <<>> => pc'[u] \in {"claimed", "held", "running"}
      BY <2>2, <3>0, OneMoves DEF Once
    <3>3. /\ kept'[Inbox] = Append(kept[Inbox], a)
          /\ \A u \in Actors : kept'[Driver(u)] = kept[Driver(u)]
          /\ \A l \in Looks : kept'[Look(l)] = kept[Look(l)]
      BY <2>2, <3>0, <3>1, KeptNow
    <3>4. \A k \in Keepers : kept'[k] = IF k = Inbox THEN Append(kept[Inbox], a) ELSE kept[k]
      BY <3>3, KeepersDiffer
    <3>5. Inbox \in Keepers /\ ~NotCome(a)' BY <3>0, <3>1, KeepersDiffer DEF NotCome
    <3> QED BY <3>0, <3>2, <3>4, <3>5, PlaceEntered
  <2> QED BY <1>5, <2>1, <2>2 DEF Claim, ClaimOrHandOver
<1>6. CASE WriteObservation(a)
  <2>1. CASE To(a, "claimed") /\ on' = [on EXCEPT ![a] = <<a>>] /\ UNCHANGED <<inbox, failures>>
    BY <1>4, <1>6, <2>1 DEF WriteObservation, Is, inbox
  <2>2. CASE Fails /\ NextOrRelease(a)
    BY <1>6, <2>2, OnceNext DEF WriteObservation, Is
  <2> QED BY <1>6, <2>1, <2>2 DEF WriteObservation
<1> QED BY <1>1, <1>2, <1>5, <1>6

\* What a look does.
LEMMA OnceLook ==
  ASSUME SupervisionTypeOK, SupervisionTypeOK', Once, NEW l \in Looks,
         WaitAndTake(l) \/ Deliver(l) \/ PutBack(l)
  PROVE Once'
<1>0. /\ \A a \in Arrivals : NotCome(a)' => NotCome(a)
      /\ \A t \in Actors : on'[t] # <<>> => pc'[t] \in {"claimed", "held", "running"}
      /\ \A t \in Actors : kept'[Driver(t)] = kept[Driver(t)]
  <2>1. UNCHANGED <<pc, on>> BY DEF WaitAndTake, Deliver, PutBack
  <2> QED BY <2>1, KeptNow DEF NotCome, Once, EmptyHanded
<1>1. \A m \in Looks : hand'[m] = hand[m] \/ m = l
  BY DEF WaitAndTake, Deliver, PutBack, SupervisionTypeOK
<1>2. \A m \in Looks \ {l} : kept'[Look(m)] = kept[Look(m)] BY <1>1, KeptNow
<1>3. Inbox \in Keepers /\ Look(l) \in Keepers /\ Look(l) # Inbox BY KeepersDiffer
<1>4. CASE WaitAndTake(l)
  <2>1. kept'[Inbox] = <<>> /\ kept'[Look(l)] = kept[Inbox] /\ kept[Look(l)] = <<>>
    BY <1>4, KeptNow DEF WaitAndTake, SupervisionTypeOK
  <2>2. \A k \in Keepers : kept'[k] = IF k = Inbox THEN <<>>
                                      ELSE IF k = Look(l) THEN kept[Inbox] ELSE kept[k]
    BY <1>0, <1>2, <1>3, <2>1, KeepersDiffer
  <2>3. UNCHANGED given BY <1>4 DEF WaitAndTake
  <2> QED BY <1>0, <1>3, <2>1, <2>2, <2>3, PlaceMoved
<1>5. ASSUME UNCHANGED pending, hand' = [hand EXCEPT ![l] = <<>>],
             UNCHANGED given \/ given' = Delivered(hand[l])
      PROVE  Once'
  <2>1. kept'[Inbox] = kept[Inbox] /\ kept'[Look(l)] = <<>> /\ kept[Look(l)] = hand[l]
    BY <1>5, KeptNow DEF SupervisionTypeOK
  <2>2. \A k \in Keepers : kept'[k] = IF k = Look(l) THEN <<>> ELSE kept[k]
    BY <1>0, <1>2, <1>3, <2>1, KeepersDiffer
  <2> QED BY <1>0, <1>3, <1>5, <2>1, <2>2, PlaceEmptied
<1>6. CASE Deliver(l) BY <1>5, <1>6 DEF Deliver, inbox
<1>7. CASE PutBack(l)
  <2>0. UNCHANGED given /\ hand' = [hand EXCEPT ![l] = <<>>] BY <1>7 DEF PutBack
  <2>1. CASE ~busy BY <1>5, <1>7, <2>1 DEF PutBack
  <2>2. CASE busy
    <3>1. kept'[Inbox] = kept[Look(l)] \o kept[Inbox] /\ kept'[Look(l)] = <<>>
      BY <1>7, <2>0, <2>2, KeptNow DEF PutBack, SupervisionTypeOK
    <3>2. \A k \in Keepers : kept'[k] = IF k = Inbox THEN kept[Look(l)] \o kept[Inbox]
                                        ELSE IF k = Look(l) THEN <<>> ELSE kept[k]
      BY <1>0, <1>2, <1>3, <3>1, KeepersDiffer
    <3> QED BY <1>0, <1>3, <2>0, <3>2, PlaceMoved
  <2> QED BY <2>1, <2>2
<1> QED BY <1>4, <1>6, <1>7

\* A driver's turn: what it gives, or gives up, is what the driver kept.
LEMMA OnceTurn ==
  ASSUME SupervisionTypeOK, SupervisionTypeOK', Once, NEW t \in Actors,
         \/ TakeTurn(t) \/ RunTurn(t) \/ SkipTurn(t) \/ TurnReturns(t) \/ TurnErrs(t)
         \/ Continue(t) \/ GiveUp(t) \/ GoAndClose(t)
  PROVE Once'
<1>1. CASE TakeTurn(t)
  <2>1. pc[t] = "claimed" /\ To(t, "held") /\ UNCHANGED <<pending, on, hand, given>>
    BY <1>1 DEF TakeTurn, inbox, Is
  <2> QED BY <2>1, OnceAside
<1>2. ASSUME NEW where \in {"running", "returned"}, To(t, where), pc[t] = "held",
             UNCHANGED <<pending, hand>>,
             \A u \in Actors \ {t} : on'[u] = on[u],
             on'[t] = <<>> \/ where = "running",
             UNCHANGED given \/ given' = Delivered(on[t])
      PROVE  Once'
  <2>1. \A u \in Actors : pc'[u] = IF u = t THEN where ELSE pc[u] BY <1>2, Moves
  <2>2. /\ \A a \in Arrivals : NotCome(a)' => NotCome(a)
        /\ \A u \in Actors : on'[u] # <<>> => pc'[u] \in {"claimed", "held", "running"}
    BY <1>2, OneMoves DEF Once
  <2>3. /\ kept'[Inbox] = kept[Inbox] /\ kept'[Driver(t)] = <<>> /\ kept[Driver(t)] = on[t]
        /\ \A u \in Actors \ {t} : kept'[Driver(u)] = kept[Driver(u)]
        /\ \A l \in Looks : kept'[Look(l)] = kept[Look(l)]
    BY <1>2, <2>1, KeptNow
  <2>4. \A k \in Keepers : kept'[k] = IF k = Driver(t) THEN <<>> ELSE kept[k]
    BY <2>3, KeepersDiffer
  <2>5. Driver(t) \in Keepers BY KeepersDiffer
  <2> QED BY <1>2, <2>2, <2>3, <2>4, <2>5, PlaceEmptied
<1>3. CASE RunTurn(t)
  <2>1. /\ pc[t] = "held" /\ To(t, "running") /\ UNCHANGED <<pending, on, hand>>
        /\ given' = Delivered(on[t])
    BY <1>3 DEF RunTurn, inbox, Is
  <2> QED BY <1>2, <2>1
<1>4. CASE SkipTurn(t) \/ TurnReturns(t) \/ TurnErrs(t)
  <2>0. /\ pc[t] \in {"held", "running"} /\ To(t, "returned")
        /\ on' = [on EXCEPT ![t] = <<>>] /\ UNCHANGED <<pending, hand, given>>
    BY <1>4 DEF SkipTurn, TurnReturns, TurnErrs, Drops, Is, inbox
  <2>1. \A u \in Actors : on'[u] = IF u = t THEN <<>> ELSE on[u]
    BY <2>0 DEF SupervisionTypeOK
  <2>2. CASE pc[t] = "held" BY <1>2, <2>0, <2>1, <2>2
  <2>3. CASE pc[t] = "running"
    <3>1. \A u \in Actors : pc'[u] = IF u = t THEN "returned" ELSE pc[u] BY <2>0, Moves
    <3>2. /\ \A a \in Arrivals : NotCome(a)' => NotCome(a)
          /\ \A u \in Actors : on'[u] # <<>> => pc'[u] \in {"claimed", "held", "running"}
      BY <2>0, <2>1, OneMoves DEF Once
    <3>3. \A u \in Actors : \/ on'[u] = on[u] /\ (pc[u] \in {"claimed", "held"} <=> pc'[u] \in {"claimed", "held"})
                            \/ /\ pc[u] \notin {"claimed", "held"} \/ on[u] = <<>>
                               /\ pc'[u] \notin {"claimed", "held"} \/ on'[u] = <<>>
      BY <2>1, <2>3, <3>1
    <3> QED BY <2>0, <3>2, <3>3, PlacesAsTheyAre
  <2> QED BY <2>0, <2>2, <2>3
<1>5. CASE Continue(t) BY <1>5, OnceNext DEF Continue, Is
<1>6. ASSUME NEW where \in {"done", "closing"}, pc[t] = "returned", Release, To(t, where),
             UNCHANGED <<on, hand, given>>
      PROVE  Once'
  <2>1. \A u \in Actors : pc'[u] = IF u = t THEN where ELSE pc[u] BY <1>6, Moves
  <2>2. on[t] = <<>> BY <1>6 DEF Once, EmptyHanded
  <2>3. /\ \A a \in Arrivals : NotCome(a)' => NotCome(a)
        /\ \A u \in Actors : on'[u] # <<>> => pc'[u] \in {"claimed", "held", "running"}
    BY <1>6, <2>2, OneMoves DEF Once
  <2>4. /\ kept'[Inbox] = <<>>
        /\ \A u \in Actors : kept'[Driver(u)] = kept[Driver(u)]
        /\ \A l \in Looks : kept'[Look(l)] = kept[Look(l)]
    BY <1>6, <2>1, <2>2, KeptNow DEF Release
  <2>5. \A k \in Keepers : kept'[k] = IF k = Inbox THEN <<>> ELSE kept[k]
    BY <2>4, KeepersDiffer
  <2>6. Inbox \in Keepers BY KeepersDiffer
  <2> QED BY <1>6, <2>3, <2>5, <2>6, PlaceEmptied
<1>7. CASE GiveUp(t) \/ GoAndClose(t) BY <1>6, <1>7 DEF GiveUp, GoAndClose, Is
<1> QED BY <1>1, <1>3, <1>4, <1>5, <1>7

\* The end claims a free inbox or is handed over, while nobody keeps it.
LEMMA OnceEndClaim ==
  ASSUME SupervisionTypeOK, SupervisionTypeOK', Once, NEW left \in [Actors -> Places],
         pc[End] \in {"new", "resolved"}, ClaimForTheEnd(left), UNCHANGED <<hand, given>>,
         \A u \in Actors \ {End} :
           \/ left[u] = pc[u]
           \/ pc[u] = "following" /\ left[u] = Left(u)
  PROVE Once'
<1> USE NamesDiffer
<1>0. End \in Actors /\ NotCome(End) /\ on[End] = <<>>
  BY DEF NotCome, Once, EmptyHanded
<1>1. \A u \in Actors : on[u] = <<>> \/ pc[u] \in {"claimed", "held", "running"}
  BY DEF Once, EmptyHanded
<1>2. /\ \A u \in Actors \ {End} : pc'[u] = left[u] /\ on'[u] = on[u]
      /\ \/ /\ ~busy /\ pc'[End] = "claimed" /\ on'[End] = <<End>> /\ UNCHANGED pending
         \/ /\ busy /\ pc'[End] = "handed" /\ on'[End] = <<>> /\ pending' = Append(pending, End)
  BY <1>0 DEF ClaimForTheEnd, SupervisionTypeOK
<1>3. \A u \in Actors : on'[u] # <<>> => pc'[u] \in {"claimed", "held", "running"}
  BY <1>1, <1>2
<1>4. \A b \in Arrivals : NotCome(b)' => NotCome(b)
  BY <1>2 DEF NotCome, Left
<1>5. /\ \A u \in Actors \ {End} : kept'[Driver(u)] = kept[Driver(u)]
      /\ \A l \in Looks : kept'[Look(l)] = kept[Look(l)]
      /\ kept[Driver(End)] = <<>>
  BY <1>0, <1>1, <1>2, KeptNow DEF Left
<1>6. ~NotCome(End)' /\ Inbox \in Keepers /\ Driver(End) \in Keepers
  BY <1>2, KeepersDiffer DEF NotCome
<1>7. CASE ~busy
  <2>1. kept'[Inbox] = kept[Inbox] /\ kept'[Driver(End)] = <<End>> BY <1>0, <1>2, <1>7, KeptNow
  <2>2. \A k \in Keepers : kept'[k] = IF k = Driver(End) THEN <<End>> ELSE kept[k]
    BY <1>5, <2>1, KeepersDiffer
  <2> QED BY <1>0, <1>3, <1>4, <1>5, <1>6, <2>2, PlaceEntered
<1>8. CASE busy
  <2>1. kept'[Inbox] = Append(kept[Inbox], End) /\ kept'[Driver(End)] = <<>>
    BY <1>0, <1>2, <1>8, KeptNow
  <2>3. \A u \in Actors : kept'[Driver(u)] = kept[Driver(u)] BY <1>5, <2>1
  <2>2. \A k \in Keepers : kept'[k] = IF k = Inbox THEN Append(kept[Inbox], End) ELSE kept[k]
    BY ZenonT(30), <1>5, <2>1, <2>3, KeepersDiffer
  <2> QED BY <1>0, <1>3, <1>4, <1>6, <2>2, PlaceEntered
<1> QED BY <1>7, <1>8

\* A close-out, and what follows it.
LEMMA OnceClose ==
  ASSUME SupervisionTypeOK, SupervisionTypeOK', Once, Safe, NEW t \in Actors,
         \/ TakeTurnToClose(t) \/ EndPrint(t) \/ FollowUp(t) \/ CloseErrs(t)
         \/ FindOver \/ TryToClose \/ CatchUp
  PROVE Once'
<1> USE NamesDiffer
<1>0. t = Reader \/ Left(t) \notin {"new", "resolved", "writing"} BY DEF Left
<1>1. CASE TakeTurnToClose(t) BY <1>1, OnceAside DEF TakeTurnToClose, inbox, Is
<1>2. CASE EndPrint(t) \/ CloseErrs(t)
  <2>1. /\ pc[t] = "ending" /\ (To(t, Left(t)) \/ To(t, "following"))
        /\ UNCHANGED <<pending, on, hand, given>>
    BY <1>2 DEF EndPrint, CloseErrs, inbox, Is
  <2>2. Left(t) \notin {"claimed", "held"} BY DEF Left
  <2>3. CASE To(t, Left(t)) BY <1>0, <2>1, <2>2, <2>3, OnceAside
  <2>4. CASE To(t, "following") BY <2>1, <2>4, OnceAside
  <2> QED BY <2>1, <2>3, <2>4
<1>3. CASE FindOver \/ TryToClose
  <2>1. /\ pc[Reader] \in {"new", "closing"}
        /\ To(Reader, "closing") \/ To(Reader, "ending") \/ To(Reader, "new")
        /\ UNCHANGED <<pending, on, hand, given>>
    BY <1>3 DEF FindOver, TryToClose, inbox, Is
  <2> QED BY <2>1, OnceAside
<1>4. CASE CatchUp
  <2>0. pc[End] = "resolved" /\ pc \in [Actors -> Places] /\ UNCHANGED <<hand, given>>
    BY <1>4 DEF CatchUp, Is, SupervisionTypeOK
  <2>1. CASE ClaimForTheEnd(pc) BY <2>0, <2>1, OnceEndClaim
  <2>2. CASE To(End, "done") /\ UNCHANGED <<inbox, on>> BY <2>0, <2>2, OnceAside DEF inbox
  <2> QED BY <1>4, <2>1, <2>2 DEF CatchUp
<1>5. CASE FollowUp(t)
  <2> DEFINE left == [pc EXCEPT ![t] = Left(t)]
  <2>0. /\ pc[t] = "following" /\ pc[End] = "new" /\ t # End /\ UNCHANGED <<hand, given>>
    BY <1>5 DEF FollowUp, Is, Safe, Control, EndOnce
  <2>1. Left(t) \in Places BY DEF Left, Places
  <2>2. /\ left \in [Actors -> Places]
        /\ \A u \in Actors : left[u] = IF u = t THEN Left(t) ELSE pc[u]
    BY <2>1 DEF SupervisionTypeOK
  <2>3. CASE ClaimForTheEnd(left)
    <3> HIDE DEF left
    <3> QED BY <2>0, <2>2, <2>3, OnceEndClaim
  <2>4. CASE /\ pc' = left \/ pc' = [left EXCEPT ![End] = "resolved"]
             /\ UNCHANGED <<inbox, on>>
    <3>1. /\ \A u \in Actors \ {End} : pc'[u] = IF u = t THEN Left(t) ELSE pc[u]
          /\ pc'[End] \in {"new", "resolved"}
      BY <2>0, <2>2, <2>4
    <3>2. \A a \in Arrivals : NotCome(a)' => NotCome(a) BY <1>0, <2>0, <3>1 DEF NotCome
    <3>3. Left(t) \notin {"claimed", "held", "running"} BY DEF Left
    <3>4. \A u \in Actors : on'[u] # <<>> => pc'[u] \in {"claimed", "held", "running"}
      BY <2>0, <2>4, <3>1 DEF Once, EmptyHanded
    <3>5. \A u \in Actors : on'[u] = on[u] /\ (pc[u] \in {"claimed", "held"} <=> pc'[u] \in {"claimed", "held"})
      BY <2>0, <2>4, <3>1, <3>3
    <3>6. UNCHANGED <<pending, hand, given>> BY <2>0, <2>4 DEF inbox
    <3> QED BY <3>2, <3>4, <3>5, <3>6, PlacesAsTheyAre
  <2> QED BY <1>5, <2>3, <2>4 DEF FollowUp
<1> QED BY <1>1, <1>2, <1>3, <1>4, <1>5

-----------------------------------------------------------------------------
(***************************************************************************)
(* In order.  An alert claims the inbox after those before it have, so it  *)
(* comes behind all that waits in it and all that a look took from it; a   *)
(* look that fails puts what it took back ahead of what arrived since.     *)
(***************************************************************************)
Order == AheadOfTheRest /\ AheadOfTheInbox /\ OldestFirst
Coming(a) == pc[a] \in {"new", "resolved"}

\* What is in order as it stands.
LEMMA InOrderAlone == InOrder(<<>>) /\ \A a : InOrder(<<a>>)
<1>1. InOrder(<<>>) BY DEF InOrder
<1>2. ASSUME NEW a PROVE InOrder(<<a>>)
  <2>1. DOMAIN <<a>> = {1} OBVIOUS
  <2> QED BY <2>1 DEF InOrder
<1> QED BY <1>1, <1>2

\* The same of each place by itself.
LEMMA OldestFirstIs ==
  /\ OldestFirst <=> (OneLookFails => /\ InOrder(pending) /\ \A t \in Actors : InOrder(on[t])
                                      /\ \A l \in Looks : InOrder(hand[l]))
  /\ OldestFirst' <=> (OneLookFails' => /\ InOrder(pending') /\ \A t \in Actors : InOrder(on'[t])
                                        /\ \A l \in Looks : InOrder(hand'[l]))
  BY DEF OldestFirst, OneLookFails, InOrder

LEMMA AheadOfTheRestIs ==
  /\ AheadOfTheRest <=> \A a, b \in Alerts : Coming(a) /\ a < b =>
                          /\ \A i \in DOMAIN pending : pending[i] # b
                          /\ \A l \in Looks : \A i \in DOMAIN hand[l] : hand[l][i] # b
  /\ AheadOfTheRest' <=> \A a, b \in Alerts : Coming(a)' /\ a < b =>
                           /\ \A i \in DOMAIN pending' : pending'[i] # b
                           /\ \A l \in Looks : \A i \in DOMAIN hand'[l] : hand'[l][i] # b
  BY DEF AheadOfTheRest, Coming

\* The store fails no less often than it has.
LEMMA FailuresGrow ==
  ASSUME SupervisionTypeOK, failures' = failures \/ failures' = failures + 1
  PROVE OneLookFails' => OneLookFails
  BY DEF SupervisionTypeOK, OneLookFails

\* A step that only empties places, gives a driver what waits, or one arrival.
LEMMA OrderKept ==
  ASSUME SupervisionTypeOK, Order,
         pending' = pending \/ pending' = <<>>,
         \A l \in Looks : hand'[l] = hand[l] \/ hand'[l] = <<>>,
         \A t \in Actors : \/ on'[t] = on[t] \/ on'[t] = pending
                           \/ on'[t] = <<>> \/ \E a : on'[t] = <<a>>,
         \A a \in Alerts : Coming(a)' => Coming(a),
         failures' = failures \/ failures' = failures + 1
  PROVE Order'
<1>1. AheadOfTheRest' BY AheadOfTheRestIs DEF Order
<1>2. AheadOfTheInbox'
  <2> SUFFICES ASSUME failures' = 0 \/ (\A l, m \in Looks : l = m), NEW l \in Looks,
                      NEW i \in DOMAIN hand'[l], NEW j \in DOMAIN pending',
                      hand'[l][i] \in Alerts, pending'[j] \in Alerts
               PROVE hand'[l][i] < pending'[j]
    BY DEF AheadOfTheInbox
  <2>1. failures = 0 \/ (\A m, n \in Looks : m = n) BY DEF SupervisionTypeOK
  <2>2. hand'[l] = hand[l] /\ pending' = pending OBVIOUS
  <2> QED BY <2>1, <2>2 DEF Order, AheadOfTheInbox
<1>3. OldestFirst' BY OldestFirstIs, InOrderAlone, FailuresGrow DEF Order
<1> QED BY <1>1, <1>2, <1>3 DEF Order

\* What comes behind all that waits.
LEMMA OrderQueued ==
  ASSUME SupervisionTypeOK, Order, NEW a \in Arrivals,
         pending' = Append(pending, a), UNCHANGED <<on, hand>>,
         \A b \in Alerts : Coming(b)' => Coming(b),
         failures' = failures \/ failures' = failures + 1,
         a \in Alerts => /\ \A b \in Alerts : Coming(b)' => ~(b < a)
                         /\ \A i \in DOMAIN pending : pending[i] \in Alerts => pending[i] < a
                         /\ \A l \in Looks : \A i \in DOMAIN hand[l] : hand[l][i] \in Alerts => hand[l][i] < a
  PROVE Order'
<1>0. pending \in Seq(Arrivals) /\ Len(pending) \in Nat BY DEF SupervisionTypeOK
<1>1. \A i \in DOMAIN pending' : \/ i \in DOMAIN pending /\ pending'[i] = pending[i]
                                 \/ pending'[i] = a /\ i = Len(pending) + 1
  BY <1>0
<1>2. AheadOfTheRest' BY <1>1, AheadOfTheRestIs DEF Order
<1>3. AheadOfTheInbox'
  <2> SUFFICES ASSUME failures' = 0 \/ (\A l, m \in Looks : l = m), NEW l \in Looks,
                      NEW i \in DOMAIN hand[l], NEW j \in DOMAIN pending',
                      hand[l][i] \in Alerts, pending'[j] \in Alerts
               PROVE hand[l][i] < pending'[j]
    BY DEF AheadOfTheInbox
  <2>1. failures = 0 \/ (\A m, n \in Looks : m = n) BY DEF SupervisionTypeOK
  <2> QED BY <1>1, <2>1 DEF Order, AheadOfTheInbox
<1>4. OldestFirst'
  <2>1. ASSUME InOrder(pending) PROVE InOrder(pending')
    <3> SUFFICES ASSUME NEW i \in DOMAIN pending', NEW j \in DOMAIN pending', i < j,
                        pending'[i] \in Alerts, pending'[j] \in Alerts
                 PROVE pending'[i] < pending'[j]
      BY DEF InOrder
    <3>1. DOMAIN pending = 1 .. Len(pending) /\ DOMAIN pending' = 1 .. Len(pending) + 1 BY <1>0
    <3>2. i \in DOMAIN pending /\ pending'[i] = pending[i] BY <1>0, <1>1, <3>1
    <3>3. CASE j \in DOMAIN pending /\ pending'[j] = pending[j] BY <2>1, <3>2, <3>3 DEF InOrder
    <3>4. CASE pending'[j] = a BY <3>2, <3>4
    <3> QED BY <1>1, <3>3, <3>4
  <2> QED BY <2>1, OldestFirstIs, FailuresGrow DEF Order
<1> QED BY <1>2, <1>3, <1>4 DEF Order

\* A look takes all that waits.
LEMMA OrderTaken ==
  ASSUME SupervisionTypeOK, Order, NEW l \in Looks, WaitAndTake(l) PROVE Order'
<1>0. /\ pending' = <<>> /\ UNCHANGED <<on, pc, failures>>
      /\ \A m \in Looks : hand'[m] = IF m = l THEN pending ELSE hand[m]
  BY DEF WaitAndTake, SupervisionTypeOK
<1>1. AheadOfTheRest' BY <1>0, AheadOfTheRestIs DEF Order, Coming
<1>2. AheadOfTheInbox' BY <1>0 DEF AheadOfTheInbox
<1>3. OldestFirst' BY <1>0, OldestFirstIs, InOrderAlone DEF Order, OneLookFails
<1> QED BY <1>1, <1>2, <1>3 DEF Order

\* A look that fails puts what it took back first; if another look has failed
\* before it, what that one put back may have been taken later.
LEMMA OrderPutBack ==
  ASSUME SupervisionTypeOK, Order, NEW l \in Looks, PutBack(l), busy PROVE Order'
<1>0. /\ pending' = hand[l] \o pending /\ UNCHANGED <<on, pc>> /\ failures' = failures + 1
      /\ \A m \in Looks : hand'[m] = IF m = l THEN <<>> ELSE hand[m]
  BY DEF PutBack, Fails, SupervisionTypeOK
<1> DEFINE s == hand[l]
<1>1. s \in Seq(Arrivals) /\ pending \in Seq(Arrivals) /\ Len(s) \in Nat /\ Len(pending) \in Nat
  BY DEF SupervisionTypeOK
<1>2. pending' = s \o pending BY <1>0
<1> HIDE DEF s
<1>3. \A i \in DOMAIN pending' :
        IF i <= Len(s) THEN i \in DOMAIN s /\ pending'[i] = s[i]
        ELSE i - Len(s) \in DOMAIN pending /\ pending'[i] = pending[i - Len(s)]
  BY <1>1, <1>2
<1>4. AheadOfTheRest'
  <2> SUFFICES ASSUME NEW a \in Alerts, NEW b \in Alerts, Coming(a), a < b
               PROVE /\ \A i \in DOMAIN pending' : pending'[i] # b
                     /\ \A m \in Looks : \A i \in DOMAIN hand'[m] : hand'[m][i] # b
    BY <1>0, AheadOfTheRestIs DEF Coming
  <2>1. /\ \A i \in DOMAIN pending : pending[i] # b
        /\ \A m \in Looks : \A i \in DOMAIN hand[m] : hand[m][i] # b
    BY AheadOfTheRestIs DEF Order
  <2>2. \A i \in DOMAIN s : s[i] # b BY <2>1 DEF s
  <2> QED BY <1>0, <1>3, <2>1, <2>2
<1>5. AheadOfTheInbox' BY <1>0 DEF AheadOfTheInbox, SupervisionTypeOK
<1>6. OldestFirst'
  <2> SUFFICES ASSUME OneLookFails'
               PROVE /\ InOrder(pending') /\ \A t \in Actors : InOrder(on'[t])
                     /\ \A m \in Looks : InOrder(hand'[m])
    BY OldestFirstIs
  <2>1. OneLookFails /\ (failures = 0 \/ \A m, n \in Looks : m = n)
    BY <1>0 DEF OneLookFails, SupervisionTypeOK
  <2>2. /\ InOrder(pending) /\ \A t \in Actors : InOrder(on[t])
        /\ \A m \in Looks : InOrder(hand[m])
    BY <2>1, OldestFirstIs DEF Order
  <2>3. InOrder(s) BY <2>2 DEF s
  <2>4. \A i \in DOMAIN s, j \in DOMAIN pending :
          s[i] \in Alerts /\ pending[j] \in Alerts => s[i] < pending[j]
    BY <2>1 DEF Order, AheadOfTheInbox, s
  <2>5. InOrder(pending')
    <3> SUFFICES ASSUME NEW i \in DOMAIN pending', NEW j \in DOMAIN pending', i < j,
                        pending'[i] \in Alerts, pending'[j] \in Alerts
                 PROVE pending'[i] < pending'[j]
      BY DEF InOrder
    <3>1. i \in Nat /\ j \in Nat BY <1>1, <1>2
    <3>2. CASE j <= Len(s) BY <1>1, <1>3, <2>3, <3>1, <3>2 DEF InOrder
    <3>3. CASE i <= Len(s) /\ ~(j <= Len(s)) BY <1>3, <2>4, <3>3
    <3>4. CASE ~(i <= Len(s)) /\ ~(j <= Len(s))
      <4>1. /\ i - Len(s) \in DOMAIN pending /\ j - Len(s) \in DOMAIN pending
            /\ i - Len(s) < j - Len(s)
        BY <1>1, <1>3, <3>1, <3>4
      <4>2. pending'[i] = pending[i - Len(s)] /\ pending'[j] = pending[j - Len(s)]
        BY <1>3, <3>4
      <4> QED BY <2>2, <4>1, <4>2 DEF InOrder
    <3> QED BY <3>2, <3>3, <3>4
  <2> QED BY <1>0, <2>2, <2>5, InOrderAlone
<1> QED BY <1>4, <1>5, <1>6 DEF Order

\* An arrival is behind all that waits: those before it have come, those after
\* it have not.
LEMMA OrderArrival ==
  ASSUME SupervisionTypeOK, Once, Order, NEW a \in Arrivals,
         Resolve(a) \/ List(a) \/ Claim(a) \/ ClaimIfIdle(a) \/ WriteObservation(a)
  PROVE Order'
<1> USE NamesDiffer
<1>1. CASE Resolve(a) \/ List(a) \/ ClaimIfIdle(a)
  <2>1. /\ UNCHANGED <<pending, on, hand, failures>>
        /\ pc[a] \in {"new", "resolved"}
        /\ \A u \in Actors \ {a} : pc'[u] = pc[u]
    BY <1>1 DEF Resolve, List, ClaimIfIdle, To, Is, inbox, SupervisionTypeOK
  <2>2. \A b \in Alerts : Coming(b)' => Coming(b) BY <2>1 DEF Coming
  <2> QED BY <2>1, <2>2, OrderKept
<1>2. ASSUME To(a, "claimed"), on' = [on EXCEPT ![a] = <<a>>], UNCHANGED <<pending, hand, failures>>
      PROVE  Order'
  <2>1. \A u \in Actors : pc'[u] = IF u = a THEN "claimed" ELSE pc[u] BY <1>2, Moves
  <2>2. \A u \in Actors : on'[u] = on[u] \/ on'[u] = <<a>> BY <1>2 DEF SupervisionTypeOK
  <2>3. \A b \in Alerts : Coming(b)' => Coming(b) BY <2>1 DEF Coming
  <2> QED BY <1>2, <2>2, <2>3, OrderKept
<1>3. CASE Claim(a)
  <2>0. /\ a \in Alerts /\ Coming(a) /\ UNCHANGED <<hand, failures>>
        /\ \A b \in 1 .. a - 1 : ~Coming(b)
    BY <1>3 DEF Claim, Is, Coming
  <2>1. CASE /\ ~busy /\ busy' = TRUE /\ To(a, "claimed") /\ on' = [on EXCEPT ![a] = <<a>>]
             /\ UNCHANGED pending
    BY <1>2, <2>0, <2>1
  <2>2. CASE /\ busy /\ pending' = Append(pending, a) /\ To(a, "handed")
             /\ UNCHANGED <<busy, on>>
    <3>1. \A u \in Actors : pc'[u] = IF u = a THEN "handed" ELSE pc[u] BY <2>2, Moves
    <3>2. \A b \in Alerts : Coming(b)' => Coming(b) /\ b # a BY <3>1 DEF Coming
    <3>3. \A b \in Alerts : b < a => b \in 1 .. a - 1
      BY <2>0, SupervisionConstants DEF Alerts
    <3>4. \A b \in Alerts : Coming(b)' => ~(b < a) BY <2>0, <3>2, <3>3
    <3>5. ~Waits(kept, a) BY <2>0 DEF Once, Ungiven, NotCome, Coming
    <3>6. /\ \A i \in DOMAIN pending : pending[i] # a
          /\ \A l \in Looks : \A i \in DOMAIN hand[l] : hand[l][i] # a
      BY <3>5, KeptNow, KeepersDiffer DEF Waits
    <3>7. \A b \in Alerts : b < a \/ b = a \/ a < b
      BY <2>0, SupervisionConstants DEF Alerts
    <3>8. /\ \A i \in DOMAIN pending : pending[i] \in Alerts => pending[i] < a
          /\ \A l \in Looks : \A i \in DOMAIN hand[l] : hand[l][i] \in Alerts => hand[l][i] < a
      BY <2>0, <3>6, <3>7, AheadOfTheRestIs DEF Order
    <3> QED BY <2>0, <2>2, <3>2, <3>4, <3>8, OrderQueued
  <2> QED BY <1>3, <2>1, <2>2 DEF Claim, ClaimOrHandOver
<1>4. CASE WriteObservation(a)
  <2>1. CASE To(a, "claimed") /\ on' = [on EXCEPT ![a] = <<a>>] /\ UNCHANGED <<inbox, failures>>
    BY <1>2, <1>4, <2>1 DEF WriteObservation, inbox
  <2>2. CASE Fails /\ NextOrRelease(a)
    <3>1. UNCHANGED hand /\ failures' = failures + 1 BY <1>4, <2>2 DEF WriteObservation, Fails
    <3>2. pending' \in {pending, <<>>} /\ \A u \in Actors : on'[u] = on[u] \/ on'[u] = pending
      BY <2>2 DEF NextOrRelease, SupervisionTypeOK
    <3>3. To(a, "claimed") \/ To(a, "done") BY <2>2 DEF NextOrRelease
    <3>4. \A u \in Actors \ {a} : pc'[u] = pc[u] BY <3>3, Moves
    <3>5. pc'[a] \in {"claimed", "done"} BY <3>3, Moves
    <3>6. \A b \in Alerts : Coming(b)' => Coming(b) BY <3>4, <3>5 DEF Coming
    <3> QED BY <3>1, <3>2, <3>6, OrderKept
  <2> QED BY <1>4, <2>1, <2>2 DEF WriteObservation
<1> QED BY <1>1, <1>3, <1>4

LEMMA OrderLook ==
  ASSUME SupervisionTypeOK, Order, NEW l \in Looks, WaitAndTake(l) \/ Deliver(l) \/ PutBack(l)
  PROVE Order'
<1>1. CASE WaitAndTake(l) BY <1>1, OrderTaken
<1>2. CASE Deliver(l) \/ (PutBack(l) /\ ~busy)
  <2>1. /\ UNCHANGED <<pending, on, pc>> /\ (failures' = failures \/ failures' = failures + 1)
        /\ \A m \in Looks : hand'[m] = hand[m] \/ hand'[m] = <<>>
    BY <1>2 DEF Deliver, PutBack, Fails, inbox, SupervisionTypeOK
  <2>2. \A a \in Alerts : Coming(a)' => Coming(a) BY <2>1 DEF Coming
  <2> QED BY <2>1, <2>2, OrderKept
<1>3. CASE PutBack(l) /\ busy BY <1>3, OrderPutBack
<1>4. busy \in BOOLEAN BY DEF SupervisionTypeOK
<1> QED BY <1>1, <1>2, <1>3, <1>4

\* A driver's turn, and what it does about it.
LEMMA OrderTurn ==
  ASSUME SupervisionTypeOK, Order, NEW t \in Actors,
         \/ TakeTurn(t) \/ RunTurn(t) \/ SkipTurn(t) \/ TurnReturns(t) \/ TurnErrs(t)
         \/ Continue(t) \/ GiveUp(t) \/ GoAndClose(t)
  PROVE Order'
<1>1. /\ UNCHANGED hand /\ (pending' = pending \/ pending' = <<>>)
      /\ (failures' = failures \/ failures' = failures + 1)
  BY DEF TakeTurn, RunTurn, SkipTurn, TurnReturns, TurnErrs, Continue, GiveUp, GoAndClose,
         NextOrRelease, Release, Fails, inbox
<1>2. \A u \in Actors : on'[u] = on[u] \/ on'[u] = pending \/ on'[u] = <<>>
  BY DEF TakeTurn, RunTurn, SkipTurn, TurnReturns, TurnErrs, Continue, GiveUp, GoAndClose,
         NextOrRelease, Release, Drops, inbox, SupervisionTypeOK
<1>3. \E where \in {"held", "running", "returned", "claimed", "done", "closing"} : To(t, where)
  BY DEF TakeTurn, RunTurn, SkipTurn, TurnReturns, TurnErrs, Continue, GiveUp, GoAndClose,
         NextOrRelease, Drops
<1>4. \A a \in Alerts : Coming(a)' => Coming(a)
  BY <1>3, Moves, NamesDiffer DEF Coming
<1> QED BY <1>1, <1>2, <1>4, OrderKept

\* The end is no alert.
LEMMA OrderEndClaim ==
  ASSUME SupervisionTypeOK, Order, NEW left \in [Actors -> Places], ClaimForTheEnd(left),
         UNCHANGED <<hand, failures>>,
         \A a \in Alerts : left[a] \in {"new", "resolved"} => Coming(a)
  PROVE Order'
<1> USE NamesDiffer
<1>1. \A a \in Alerts : pc'[a] = left[a] BY DEF ClaimForTheEnd
<1>2. \A a \in Alerts : Coming(a)' => Coming(a) BY <1>1 DEF Coming
<1>3. CASE on' = [on EXCEPT ![End] = <<End>>] /\ UNCHANGED pending
  <2>1. \A u \in Actors : on'[u] = on[u] \/ on'[u] = <<End>> BY <1>3 DEF SupervisionTypeOK
  <2> QED BY <1>2, <1>3, <2>1, OrderKept
<1>4. CASE pending' = Append(pending, End) /\ UNCHANGED on
  BY <1>2, <1>4, OrderQueued
<1> QED BY <1>3, <1>4 DEF ClaimForTheEnd

\* A close-out, and what follows it.
LEMMA OrderClose ==
  ASSUME SupervisionTypeOK, Order, NEW t \in Actors,
         \/ TakeTurnToClose(t) \/ EndPrint(t) \/ FollowUp(t) \/ CloseErrs(t)
         \/ FindOver \/ TryToClose \/ CatchUp
  PROVE Order'
<1> USE NamesDiffer
<1>0. /\ Left(t) \in Places /\ (t # Reader => Left(t) = "done") BY DEF Left, Places
<1>1. CASE TakeTurnToClose(t) \/ EndPrint(t) \/ CloseErrs(t)
  <2>1. /\ UNCHANGED <<pending, on, hand>> /\ (failures' = failures \/ failures' = failures + 1)
    BY <1>1 DEF TakeTurnToClose, EndPrint, CloseErrs, Fails, inbox
  <2>2. To(t, "ending") \/ To(t, "following") \/ To(t, Left(t))
    BY <1>1 DEF TakeTurnToClose, EndPrint, CloseErrs
  <2>3. \A a \in Alerts : Coming(a)' => Coming(a)
    <3>1. CASE To(t, "ending") BY <3>1, Moves DEF Coming
    <3>2. CASE To(t, "following") BY <3>2, Moves DEF Coming
    <3>3. CASE To(t, Left(t)) BY <1>0, <3>3, Moves DEF Coming
    <3> QED BY <2>2, <3>1, <3>2, <3>3
  <2> QED BY <2>1, <2>3, OrderKept
<1>2. CASE FindOver \/ TryToClose
  <2>1. /\ UNCHANGED <<pending, on, hand, failures>>
        /\ \A a \in Alerts : pc'[a] = pc[a]
    BY <1>2 DEF FindOver, TryToClose, To, inbox, SupervisionTypeOK
  <2>2. \A a \in Alerts : Coming(a)' => Coming(a) BY <2>1 DEF Coming
  <2> QED BY <2>1, <2>2, OrderKept
<1>3. CASE CatchUp
  <2>0. UNCHANGED <<hand, failures>> /\ pc \in [Actors -> Places]
    BY <1>3 DEF CatchUp, SupervisionTypeOK
  <2>1. CASE ClaimForTheEnd(pc) BY <2>0, <2>1, OrderEndClaim DEF Coming
  <2>2. CASE To(End, "done") /\ UNCHANGED <<inbox, on>>
    <3>1. \A a \in Alerts : Coming(a)' => Coming(a) BY <2>2, Moves DEF Coming
    <3> QED BY <2>0, <2>2, <3>1, OrderKept DEF inbox
  <2> QED BY <1>3, <2>1, <2>2 DEF CatchUp
<1>4. CASE FollowUp(t)
  <2> DEFINE left == [pc EXCEPT ![t] = Left(t)]
  <2>0. UNCHANGED hand BY <1>4 DEF FollowUp
  <2>1. left \in [Actors -> Places] BY <1>0 DEF SupervisionTypeOK
  <2>2. \A a \in Alerts : left[a] \in {"new", "resolved"} => Coming(a)
    BY <1>0 DEF Coming, SupervisionTypeOK
  <2>3. CASE ClaimForTheEnd(left) /\ UNCHANGED failures
    <3> HIDE DEF left
    <3> QED BY <2>0, <2>1, <2>2, <2>3, OrderEndClaim
  <2>4. CASE /\ (pc' = left \/ pc' = [left EXCEPT ![End] = "resolved"])
             /\ UNCHANGED <<inbox, on>> /\ (failures' = failures \/ failures' = failures + 1)
    <3>1. \A a \in Alerts : Coming(a)' => Coming(a)
      <4>1. \A a \in Alerts : pc'[a] = left[a] BY <2>1, <2>4
      <4> QED BY <2>2, <4>1 DEF Coming
    <3> QED BY <2>0, <2>4, <3>1, OrderKept DEF inbox
  <2> QED BY <1>4, <2>3, <2>4 DEF FollowUp, Fails
<1> QED BY <1>1, <1>2, <1>3, <1>4

-----------------------------------------------------------------------------
(* Given once, in order *)

LEMMA DeliveryInitial == SupervisionInit => DeliveryInv
<1> SUFFICES ASSUME SupervisionInit PROVE DeliveryInv OBVIOUS
<1>1. \A q \in Keepers : kept[q] = <<>>
  BY KeptNow, KeepersDiffer DEF SupervisionInit
<1>2. OnceIn(kept) /\ Ungiven /\ EmptyHanded /\ GivenOnce
  BY <1>1 DEF OnceIn, Ungiven, Waits, EmptyHanded, GivenOnce, SupervisionInit
<1>3. AheadOfTheRest /\ AheadOfTheInbox
  BY AheadOfTheRestIs DEF AheadOfTheInbox, SupervisionInit
<1>4. OldestFirst
  BY OldestFirstIs, InOrderAlone, NamesDiffer DEF SupervisionInit
<1> QED BY <1>2, <1>3, <1>4 DEF DeliveryInv

LEMMA DeliveryStep ==
  SupervisionIInv /\ DeliveryInv /\ [SupervisionNext]_supervision => DeliveryInv'
<1> SUFFICES ASSUME SupervisionIInv, Once, Order, [SupervisionNext]_supervision
             PROVE Once' /\ Order'
  BY DEF DeliveryInv, Once, Order
<1>0. SupervisionTypeOK /\ Safe /\ SupervisionTypeOK'
  BY SupervisionStep DEF SupervisionIInv, Safe
<1>1. CASE UNCHANGED supervision \/ JobIsOver
  <2>1. UNCHANGED <<pending, on, hand, pc, given, failures>>
    BY <1>1 DEF supervision, JobIsOver, inbox
  <2>2. Once' BY <1>0, <2>1, PlacesAsTheyAre DEF NotCome, Once, EmptyHanded
  <2>3. Order' BY <1>0, <2>1, OrderKept DEF Coming
  <2> QED BY <2>2, <2>3
<1>2. ASSUME NEW a \in Arrivals,
             Resolve(a) \/ List(a) \/ Claim(a) \/ ClaimIfIdle(a) \/ WriteObservation(a)
      PROVE Once' /\ Order'
  BY <1>0, <1>2, OnceArrival, OrderArrival
<1>3. ASSUME NEW l \in Looks, WaitAndTake(l) \/ Deliver(l) \/ PutBack(l) PROVE Once' /\ Order'
  BY <1>0, <1>3, OnceLook, OrderLook
<1>4. ASSUME NEW t \in Actors, Drive(t) \/ TurnErrs(t) \/ CloseErrs(t) PROVE Once' /\ Order'
  BY <1>0, <1>4, OnceTurn, OrderTurn, OnceClose, OrderClose DEF Drive
<1>5. CASE FindOver \/ TryToClose \/ CatchUp
  <2>1. Reader \in Actors BY NamesDiffer
  <2> QED BY <1>0, <1>5, <2>1, OnceClose, OrderClose
<1> QED BY <1>1, <1>2, <1>3, <1>4, <1>5 DEF SupervisionNext

\* inbox.rs 3-8 and 106-111: whatever arrived is delivered to one turn or look
\* and no other, and what waits is in the order it arrived, as long as no two
\* looks fail.
THEOREM DeliveredOnceInOrder == SupervisionSpec => []GivenOnceInOrder
<1>1. SupervisionInit => SupervisionIInv /\ DeliveryInv
  BY SupervisionInitial, DeliveryInitial
<1>2. /\ SupervisionIInv /\ DeliveryInv /\ [SupervisionNext]_supervision
      => (SupervisionIInv /\ DeliveryInv)'
  BY SupervisionStep, DeliveryStep
<1>3. DeliveryInv => GivenOnceInOrder BY DEF DeliveryInv, GivenOnceInOrder
<1> QED BY <1>1, <1>2, <1>3, PTL DEF SupervisionSpec
=============================================================================
