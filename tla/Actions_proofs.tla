------------------------- MODULE Actions_proofs -------------------------
(***************************************************************************)
(* What the server refuses and what it does of itself, for any requests,   *)
(* alerts, turns, recoveries, losses and restarts: that a pause of the     *)
(* detector's is resumed at most once for what the agent adjusted and not at *)
(* all once it was left alone; that an agent's change waits out the        *)
(* interval since the last; and that Z is trusted only for a home or a start *)
(* the server knows, so that no resume is accepted over a recovery that    *)
(* displaced the head.  None is inductive alone: each needs what a request *)
(* under way has read, and what of it is written down, as it stands.       *)
(***************************************************************************)
EXTENDS DetectorPause, AgentPacing, Recovery, TLAPS

-----------------------------------------------------------------------------
(* A pause of the detector's (DetectorPause).  A request adjusts a pause only as
   it is followed, and is over then, so what a pause holds has earned nothing
   yet; but for that it has to be known what a request under way asks for. *)

\* A request under way is one of those it may be, and a pause that was left
\* alone is no longer held.
PauseIInv ==
  /\ PauseInv
  /\ \A x \in Askers : ask[x].at \in {"read", "issued", "followed"} => ask[x].what \in What(x)
  /\ alone => pause = None

-----------------------------------------------------------------------------
\* A record of a request stays one as it goes on.
LEMMA AskRecordsKept ==
  /\ Unasked \in AskRecords /\ Unasked.at = "new"
  /\ Over \in AskRecords /\ Over.at = "over"
  /\ \A q \in AskRecords, a \in {"read", "issued", "followed"} :
       LET p == [q EXCEPT !.at = a] IN p \in AskRecords /\ p.at = a /\ p.what = q.what
BY DEF Unasked, Over, AskRecords

\* What a request may be is a class and a kind; only the takers' is the system's.
LEMMA WhatIsAsked ==
  /\ \A x \in Askers : What(x) \subseteq Classes \X Kinds
  /\ \A x \in Takers : What(x) = {<<"system", "resume">>}
  /\ Requests \intersect Takers = {}
<1>1. \A x \in Takers : What(x) = {<<"system", "resume">>}
  BY DEF What
<1>2. {<<"system", "resume">>} \subseteq Classes \X Kinds
  BY DEF Classes, Kinds, RecordKinds, MachineKinds, SpoolKinds
<1>3. {"agent", "operator"} \X Kinds \subseteq Classes \X Kinds
  BY DEF Classes
<1>4. \A x \in Requests \ Takers : What(x) \subseteq {"agent", "operator"} \X Kinds
  BY PauseConstants DEF What
<1> QED
  BY <1>1, <1>2, <1>3, <1>4, PauseConstants DEF Askers, Takers

\* Nothing is asked and nothing is held as the server starts.
LEMMA InitPauseIInv == Init => PauseIInv
<1> SUFFICES ASSUME Init PROVE PauseIInv
  OBVIOUS
<1>1. ask \in [Askers -> AskRecords] /\ \A x \in Askers : ask[x].at = "new"
  BY AskRecordsKept DEF Init
<1>2. PauseTypeOK
  <2>1. signal \in [Alerts -> {"unsent", "sent", "received", "noted", "over"}]
    BY DEF Init
  <2>2. taken \in [Takers -> Pauses \union {None}] /\ resumes \in [Requests -> Nat]
    BY DEF Init
  <2>3. alerts \in 0 .. MaxAlerts /\ turns \in 0 .. MaxTurns
    BY PauseConstants DEF Init
  <2> QED
    BY <1>1, <2>1, <2>2, <2>3 DEF Init, PauseTypeOK, States
<1>3. OneResumeEach
  BY DEF Init, OneResumeEach
<1> QED
  BY <1>1, <1>2, <1>3 DEF Init, PauseIInv, PauseInv

-----------------------------------------------------------------------------
\* Steps of the printer, of an event's receipt and of the driver: what is held,
\* asked, taken and earned stays, or the pause is forgotten.
LEMMA QuietKeeps ==
  ASSUME PauseIInv, PauseTypeOK', UNCHANGED <<ask, taken, resumes, alone>>,
         pause' \in {pause, None}
  PROVE  PauseIInv'
BY DEF PauseIInv, PauseInv, OneResumeEach, What

LEMMA PrinterSteps ==
  ASSUME PauseIInv, DetectorPauses \/ JobEnds
  PROVE  PauseIInv'
<1>1. PauseTypeOK'
  BY PauseConstants DEF DetectorPauses, JobEnds, PauseIInv, PauseInv, PauseTypeOK, States, Alerts,
                        drives, history, detect
<1> QED
  BY <1>1, QuietKeeps DEF DetectorPauses, JobEnds, drives, history

LEMMA ReceiptSteps ==
  ASSUME PauseIInv, NEW g \in Alerts, ReceiveEvent(g) \/ ClaimOrHandOver(g)
  PROVE  PauseIInv'
<1>1. PauseTypeOK'
  BY DEF ReceiveEvent, ClaimOrHandOver, PauseIInv, PauseInv, PauseTypeOK, drives, history, print
<1> QED
  BY <1>1, QuietKeeps DEF ReceiveEvent, ClaimOrHandOver, history

LEMMA DriverSteps ==
  ASSUME PauseIInv,
         AnotherEvent \/ BeginTurn \/ ForgetAsEnded \/ EndTurn \/ NextOrRelease \/ CloseOut \/ EndPrint
  PROVE  PauseIInv'
<1>1. PauseTypeOK'
  <2> USE DEF PauseIInv, PauseInv, PauseTypeOK, print, detect, drives, history
  <2>1. CASE AnotherEvent
    <3>1. turns' \in 0 .. MaxTurns
      BY <2>1, PauseConstants DEF AnotherEvent
    <3>2. driver' \in {"idle", "claimed", "turn", "ended", "resuming"} /\ waiting' \in BOOLEAN
      BY <2>1 DEF AnotherEvent
    <3> QED
      BY <2>1, <3>1, <3>2 DEF AnotherEvent
  <2>2. CASE BeginTurn \/ ForgetAsEnded
    BY <2>2 DEF BeginTurn, ForgetAsEnded
  <2>3. CASE EndTurn \/ NextOrRelease
    BY <2>3 DEF EndTurn, NextOrRelease
  <2>4. CASE CloseOut \/ EndPrint
    BY <2>4 DEF CloseOut, EndPrint
  <2> QED
    BY <2>1, <2>2, <2>3, <2>4
<1> QED
  BY <1>1, QuietKeeps
    DEF AnotherEvent, BeginTurn, ForgetAsEnded, EndTurn, NextOrRelease, CloseOut, EndPrint, history

\* An alert's pause is noted: a new one has not been adjusted.
LEMMA NotingKeeps ==
  ASSUME PauseIInv, NEW g \in Alerts, NoteDetectorPause(g)
  PROVE  PauseIInv'
<1>1. /\ pause' \in Pauses
      /\ IF pause = None THEN pause'.adjusted = {} /\ ~pause'.due
         ELSE pause'.adjusted = pause.adjusted /\ (pause'.due <=> pause.due)
  BY DEF NoteDetectorPause, PauseIInv, PauseInv, PauseTypeOK, Pauses
<1>2. PauseTypeOK'
  BY <1>1 DEF NoteDetectorPause, PauseIInv, PauseInv, PauseTypeOK, print, drives
<1> QED
  BY <1>1, <1>2 DEF NoteDetectorPause, PauseIInv, PauseInv, OneResumeEach, What, drives

LEMMA GraceKeeps ==
  ASSUME PauseIInv, GraceRunsOut
  PROVE  PauseIInv'
<1>1. pause' \in Pauses /\ pause' = [pause EXCEPT !.due = TRUE] /\ pause'.adjusted = pause.adjusted
  BY DEF GraceRunsOut, PauseIInv, PauseInv, PauseTypeOK, Pauses
<1>2. PauseTypeOK'
  BY <1>1 DEF GraceRunsOut, PauseIInv, PauseInv, PauseTypeOK, print, detect, drives, history
<1> QED
  BY <1>1, <1>2 DEF GraceRunsOut, PauseIInv, PauseInv, OneResumeEach, What, history

\* Whoever takes the pause takes it away, with what adjusted it: none of that has
\* earned a resume before, and none can earn another.
LEMMA TakingKeeps ==
  ASSUME PauseIInv, NEW x \in Takers, pause # None, pause.adjusted # {}, Removed(x),
         UNCHANGED <<ask, alone>>, UNCHANGED <<print, detect, waiting, leaving, turns>>,
         driver' \in {driver, "resuming"}
  PROVE  PauseIInv'
<1>1. resumes' \in [Requests -> Nat]
      /\ \A r \in Requests : resumes'[r] = IF r \in pause.adjusted THEN 1 ELSE resumes[r]
  BY DEF Removed, PauseIInv, PauseInv, PauseTypeOK
<1>2. /\ taken' \in [Takers -> Pauses \union {None}] /\ pause' = None
      /\ \A y \in Takers : taken'[y] = taken[y] \/ taken'[y] = pause
  BY DEF Removed, PauseIInv, PauseInv, PauseTypeOK
<1>3. PauseTypeOK'
  BY <1>1, <1>2 DEF PauseIInv, PauseInv, PauseTypeOK, print, detect
<1>4. OneResumeEach'
  BY <1>1, <1>2 DEF PauseIInv, PauseInv, OneResumeEach
<1> QED
  BY <1>1, <1>2, <1>3, <1>4 DEF PauseIInv, PauseInv, What

LEMMA ResumeSteps ==
  ASSUME PauseIInv, ResumeDue \/ ResumeAdjusted
  PROVE  PauseIInv'
<1>1. CASE ResumeDue
  BY <1>1, TakingKeeps DEF ResumeDue, PauseIInv, PauseInv, Takers, drives
<1>2. CASE ResumeAdjusted /\ pause # None /\ pause.adjusted # {}
  BY <1>2, TakingKeeps DEF ResumeAdjusted, Takers
<1>3. CASE ResumeAdjusted /\ ~(pause # None /\ pause.adjusted # {})
  <2>1. PauseTypeOK'
    BY <1>3 DEF ResumeAdjusted, PauseIInv, PauseInv, PauseTypeOK, print, detect
  <2> QED
    BY <1>3, <2>1, QuietKeeps DEF ResumeAdjusted
<1> QED
  BY <1>1, <1>2, <1>3

-----------------------------------------------------------------------------
\* A request's own steps.  Only what is over has earned a resume or is held by
\* a pause, and each step leaves what is over alone.
LEMMA AskingKeeps ==
  ASSUME PauseIInv, NEW x \in Askers, NEW q \in AskRecords,
         ask' = [ask EXCEPT ![x] = q], ask[x].at # "over",
         q.at \in {"read", "issued", "followed"} => q.what \in What(x),
         UNCHANGED <<pause, resumes, alone>>, UNCHANGED <<ended, closing, detect, drives>>,
         machine' \in States, taken' \in [Takers -> Pauses \union {None}],
         \A y \in Takers : taken'[y] \in {taken[y], None}
  PROVE  PauseIInv'
<1>1. /\ ask' \in [Askers -> AskRecords] /\ ask'[x] = q
      /\ \A y \in Askers \ {x} : ask'[y] = ask[y]
  BY DEF PauseIInv, PauseInv, PauseTypeOK
<1>2. PauseTypeOK'
  BY <1>1 DEF PauseIInv, PauseInv, PauseTypeOK, detect, drives
<1>3. OneResumeEach'
  BY DEF PauseIInv, PauseInv, OneResumeEach
<1>4. \A r \in Requests : r \in Askers
  BY DEF Askers
<1>5. pause # None => pause.adjusted \subseteq Requests
  BY DEF PauseIInv, PauseInv, PauseTypeOK, Pauses
<1>6. \A r \in Requests : ask[r].at = "over" => ask'[r].at = "over"
  BY <1>1, <1>4
<1>7. PauseInv'
  BY <1>2, <1>3, <1>5, <1>6 DEF PauseIInv, PauseInv
<1>8. \A y \in Askers : ask'[y].at \in {"read", "issued", "followed"} => ask'[y].what \in What(y)
  BY <1>1 DEF PauseIInv
<1> QED
  BY <1>7, <1>8 DEF PauseIInv, What

LEMMA ReadSnapshotKeeps ==
  ASSUME PauseIInv, NEW x \in Askers, ReadSnapshot(x)
  PROVE  PauseIInv'
<1>1. PICK what \in What(x), state \in {machine, Unread} :
        ask' = [ask EXCEPT ![x] = [at |-> "read", what |-> what, state |-> state]]
  BY DEF ReadSnapshot
<1> DEFINE q == [at |-> "read", what |-> what, state |-> state]
<1>2. q \in AskRecords /\ q.at = "read" /\ q.what \in What(x)
  BY WhatIsAsked DEF AskRecords, PauseIInv, PauseInv, PauseTypeOK
<1> HIDE DEF q
<1>3. machine' \in States /\ taken' \in [Takers -> Pauses \union {None}]
      /\ \A y \in Takers : taken'[y] = taken[y]
  BY DEF ReadSnapshot, print, PauseIInv, PauseInv, PauseTypeOK
<1>4. /\ ask[x].at # "over" /\ UNCHANGED <<pause, resumes, alone>>
      /\ UNCHANGED <<ended, closing, detect, drives>>
  BY DEF ReadSnapshot, history, print
<1> QED
  BY <1>1, <1>2, <1>3, <1>4, AskingKeeps DEF q

LEMMA IssueKeeps ==
  ASSUME PauseIInv, NEW x \in Askers, Issue(x)
  PROVE  PauseIInv'
<1>1. \E q \in AskRecords :
        /\ ask' = [ask EXCEPT ![x] = q]
        /\ q.at \in {"read", "issued", "followed"} => q.what \in What(x)
  <2>1. ask[x] \in AskRecords /\ ask[x].what \in What(x)
    BY DEF Issue, PauseIInv, PauseInv, PauseTypeOK
  <2> DEFINE q == [ask[x] EXCEPT !.at = "issued"]
  <2>2. q \in AskRecords /\ q.at = "issued" /\ q.what \in What(x)
    BY <2>1, AskRecordsKept
  <2>3. ask' = [ask EXCEPT ![x] = q] \/ ask' = [ask EXCEPT ![x] = Unasked]
        \/ ask' = [ask EXCEPT ![x] = Over]
    BY DEF Issue
  <2> HIDE DEF q
  <2> QED
    BY <2>2, <2>3, AskRecordsKept
<1>2. machine' \in States /\ taken' \in [Takers -> Pauses \union {None}]
      /\ \A y \in Takers : taken'[y] \in {taken[y], None}
  BY DEF Issue, After, States, PauseIInv, PauseInv, PauseTypeOK
<1>3. /\ ask[x].at # "over" /\ UNCHANGED <<pause, resumes, alone>>
      /\ UNCHANGED <<ended, closing, detect, drives>>
  BY DEF Issue, history
<1> QED
  BY <1>1, <1>2, <1>3, AskingKeeps

LEMMA ClearDetectionKeeps ==
  ASSUME PauseIInv, NEW x \in Takers, ClearDetection(x)
  PROVE  PauseIInv'
<1>1. x \in Askers /\ ask' = [ask EXCEPT ![x] = Unasked]
  BY DEF ClearDetection, Askers
<1>2. machine' \in States /\ taken' \in [Takers -> Pauses \union {None}]
      /\ \A y \in Takers : taken'[y] \in {taken[y], None}
  BY DEF ClearDetection, print, PauseIInv, PauseInv, PauseTypeOK
<1>3. /\ ask[x].at # "over" /\ UNCHANGED <<pause, resumes, alone>>
      /\ UNCHANGED <<ended, closing, detect, drives>>
  BY DEF ClearDetection, history, print
<1> QED
  BY <1>1, <1>2, <1>3, AskingKeeps, AskRecordsKept

\* Following is where a pause learns of an adjustment -- a request's, which is
\* over now and has earned nothing -- or is let go.
LEMMA FollowKeeps ==
  ASSUME PauseIInv, NEW x \in Askers, Follow(x)
  PROVE  PauseIInv'
<1>1. /\ ask[x].at = "issued" /\ ask[x] \in AskRecords /\ ask[x].what \in What(x)
      /\ pause \in Pauses \union {None}
  BY DEF Follow, PauseIInv, PauseInv, PauseTypeOK
<1>2. \E q \in AskRecords :
        /\ ask' = [ask EXCEPT ![x] = q]
        /\ IF x \in Takers THEN q.at = "followed" /\ q.what \in What(x) ELSE q.at = "over"
  <2> DEFINE q == [ask[x] EXCEPT !.at = "followed"]
  <2>1. q \in AskRecords /\ q.at = "followed" /\ q.what \in What(x)
    BY <1>1, AskRecordsKept
  <2>2. ask' = [ask EXCEPT ![x] = IF x \in Takers THEN q ELSE Over]
    BY DEF Follow
  <2> HIDE DEF q
  <2> QED
    BY <2>1, <2>2, AskRecordsKept
<1>3. /\ ask' \in [Askers -> AskRecords]
      /\ x \in Takers => ask'[x].what \in What(x)
      /\ x \notin Takers => ask'[x].at = "over"
      /\ \A y \in Askers \ {x} : ask'[y] = ask[y]
  BY <1>2 DEF PauseIInv, PauseInv, PauseTypeOK
<1>4. \/ pause' = None
      \/ pause' = pause /\ pause # None /\ ~(x \notin Takers /\ LeavesAlone(x))
      \/ /\ pause # None /\ pause' = [pause EXCEPT !.adjusted = @ \union {x}, !.due = FALSE]
         /\ x \notin Takers /\ Adjusts(Kind(x))
  <2>1. Class(x) = "agent" => x \notin Takers
    <3>1. x \in Takers => ask[x].what = <<"system", "resume">>
      BY <1>1, WhatIsAsked
    <3> QED
      BY <3>1 DEF Class
  <2> QED
    BY <2>1 DEF Follow, Followed
<1>5. x \notin Takers => x \in Requests /\ resumes[x] = 0
  BY <1>1 DEF Askers, PauseIInv, PauseInv, PauseTypeOK
<1>6. \A r \in Requests : ask[r].at = "over" => ask'[r].at = "over"
  BY <1>1, <1>3 DEF Askers
<1>7. /\ pause' \in Pauses \union {None}
      /\ pause' # None => /\ pause # None
                          /\ pause'.due => pause'.adjusted # {}
                          /\ \A r \in pause'.adjusted : ask'[r].at = "over" /\ resumes[r] = 0
  <2>1. CASE pause' = pause /\ pause # None
    BY <1>1, <1>6, <2>1 DEF PauseIInv, PauseInv, Pauses
  <2>2. CASE /\ pause # None /\ pause' = [pause EXCEPT !.adjusted = @ \union {x}, !.due = FALSE]
             /\ x \notin Takers
    <3>1. pause' \in Pauses /\ pause'.adjusted = pause.adjusted \union {x} /\ ~pause'.due
      BY <1>1, <1>5, <2>2 DEF Pauses
    <3>2. \A r \in pause.adjusted : ask'[r].at = "over" /\ resumes[r] = 0
      BY <1>1, <1>6, <2>2 DEF PauseIInv, PauseInv, Pauses
    <3> QED
      BY <1>3, <1>5, <2>2, <3>1, <3>2
  <2> QED
    BY <1>4, <2>1, <2>2
<1>8. PauseTypeOK'
  BY <1>3, <1>7 DEF Follow, PauseIInv, PauseInv, PauseTypeOK, print, detect, drives
<1>9. OneResumeEach' /\ \A r \in Requests : resumes'[r] > 0 => ask'[r].at = "over"
  BY <1>6 DEF Follow, PauseIInv, PauseInv, OneResumeEach
<1>10. PauseInv'
  BY <1>7, <1>8, <1>9 DEF Follow, PauseInv
<1>11. \A y \in Askers : ask'[y].at \in {"read", "issued", "followed"} => ask'[y].what \in What(y)
  BY <1>3 DEF PauseIInv
<1>12. alone' => pause' = None
  <2>1. CASE pause' = pause /\ pause # None /\ ~(x \notin Takers /\ LeavesAlone(x))
    BY <2>1 DEF Follow, PauseIInv
  <2>2. CASE pause # None /\ x \notin Takers /\ Adjusts(Kind(x))
    BY <2>2 DEF Follow, PauseIInv, LeavesAlone, Adjusts
  <2> QED
    BY <1>4, <2>1, <2>2 DEF Follow, PauseIInv, LeavesAlone, Adjusts
<1> QED
  BY <1>10, <1>11, <1>12 DEF PauseIInv, What

LEMMA StepPauseIInv == PauseIInv /\ [Next]_vars => PauseIInv'
<1> SUFFICES ASSUME PauseIInv, [Next]_vars PROVE PauseIInv'
  OBVIOUS
<1>1. CASE Next
  BY <1>1, PrinterSteps, GraceKeeps, ReceiptSteps, NotingKeeps, ReadSnapshotKeeps, IssueKeeps,
     FollowKeeps, ClearDetectionKeeps, ResumeSteps, DriverSteps
    DEF Next
<1>2. CASE UNCHANGED vars
  <2>1. PauseTypeOK'
    BY <1>2 DEF vars, PauseIInv, PauseInv, PauseTypeOK
  <2> QED
    BY <1>2, <2>1, QuietKeeps DEF vars
<1> QED
  BY <1>1, <1>2

-----------------------------------------------------------------------------
\* Every reachable state satisfies the inductive invariant.
THEOREM PauseInvariance == Spec => []PauseIInv
BY InitPauseIInv, StepPauseIInv, PTL DEF Spec

\* detector.rs 60: no resume without an adjustment, and no adjustment earns two.
THEOREM OneResumeForWhatAdjusted == Spec => []PauseInv
<1>1. PauseIInv => PauseInv
  BY DEF PauseIInv
<1> QED
  BY <1>1, PauseInvariance, PTL

\* detector.rs 29: what was left for a person is not resumed by the server until
\* the detector pauses the print anew.
THEOREM WhatIsLeftAloneStays == Spec => LeftAlone
<1>1. PauseIInv /\ [Next]_vars
        => [\A x \in Takers : taken'[x] # taken[x] /\ taken'[x] # None => ~alone]_vars
  <2> SUFFICES ASSUME PauseIInv, Next, NEW x \in Takers, taken'[x] # taken[x], taken'[x] # None
               PROVE  ~alone
    BY DEF vars
  <2>1. CASE ResumeDue \/ ResumeAdjusted
    BY <2>1 DEF ResumeDue, ResumeAdjusted, PauseIInv
  <2>2. CASE \E y \in Askers : Issue(y)
    <3>1. PICK y \in Askers : Issue(y)
      BY <2>2
    <3>2. taken' = taken \/ taken' = [z \in Takers |-> IF z = y THEN None ELSE taken[z]]
      BY <3>1 DEF Issue
    <3> QED
      BY <3>2
  <2>3. CASE \E y \in Takers : ClearDetection(y)
    BY <2>3 DEF ClearDetection, PauseIInv, PauseInv, PauseTypeOK
  <2>4. CASE UNCHANGED taken
    BY <2>4
  <2> QED
    BY <2>1, <2>2, <2>3, <2>4
      DEF Next, DetectorPauses, JobEnds, GraceRunsOut, ReceiveEvent, NoteDetectorPause,
          ClaimOrHandOver, ReadSnapshot, Follow, AnotherEvent, BeginTurn, ForgetAsEnded, EndTurn,
          NextOrRelease, CloseOut, EndPrint
<1> QED
  BY <1>1, PauseInvariance, PTL DEF Spec, LeftAlone

-----------------------------------------------------------------------------
(* The interval between an agent's changes (AgentPacing).  What memory
   holds of the last change makes it no older than it is; until it is asked for
   anything the history does, which is dated by another clock. *)

PacingSpec == PacingInit /\ [][PacingNext]_pacing

\* The history dates a change by the wall clock, the supervisor by its own.
Dated == [time : Nat, wall : Int]
Read == [seen_at : Nat, already : Nat]

PacingTypeOK ==
  /\ time \in Nat /\ wall \in Int /\ started \in [at : Nat, wall : Int]
  /\ known \in {NotAsked, Unchanged} \union Read
  /\ recorded \in {Never} \union Dated /\ dated \in {Never} \union Dated
  /\ change \in {"none", "reached", "requested", "noted"}
  /\ last \in {NoChange} \union Nat /\ settled \in Nat /\ excused \in BOOLEAN
  /\ restarts \in Nat

\* Nothing is dated ahead of true time, and the start is the oldest of what
\* memory holds.
InTime ==
  /\ started.at <= settled /\ settled <= time /\ last <= time
  /\ known = NotAsked => last <= started.at
  /\ known = NotAsked => change = "none"
  /\ change \in {"requested", "noted"} => dated \in Dated /\ last <= dated.time

\* What memory holds of the last change makes it no older than it is, and no
\* younger than what it was noted or the start.
KnownIsSound ==
  /\ known \notin {NotAsked, Unchanged} => started.at + known.seen_at - known.already <= settled
  /\ change = "noted" => known \in Read /\ last <= started.at + known.seen_at - known.already

\* Between two changes the history holds one no older than the last.
RecordIsSound ==
  change = "none" /\ last # NoChange /\ ~excused =>
    /\ recorded \in Dated /\ last <= recorded.time
    /\ known \in {NotAsked} \union Read
    /\ IF known = NotAsked THEN AlreadyWaited <= started.at - last
                           ELSE last <= started.at + known.seen_at - known.already

PacingInv == PacingTypeOK /\ InTime /\ KnownIsSound /\ RecordIsSound

\* Policy holds a resume back for the interval alone.
LEMMA VerdictIsOfSince ==
  /\ Verdict = "accepted" => Since = NoChange \/ ~(Since < Interval)
  /\ Verdict = "min_interval_not_elapsed" => Since # NoChange /\ Since < Interval
  BY DEF Verdict, Decide, TooSoon, ChangesTheMachine, Adjusts, RecordKinds, SpoolKinds, ValidFrom, States,
         Unread

\* The wait counted from the history is a number of seconds.
LEMMA WaitIsANumber ==
  ASSUME PacingTypeOK, recorded # Never PROVE AlreadyWaited \in Nat
  BY DEF PacingTypeOK, Dated, AlreadyWaited

\* What is known once it is asked for is sound.
LEMMA KnownWhenAsked ==
  ASSUME PacingInv
  PROVE /\ Known \in {Unchanged} \union Read
        /\ Known # Unchanged => /\ Known.seen_at \in Nat /\ Known.already \in Nat
                                /\ started.at + Known.seen_at - Known.already <= settled
        /\ change = "none" /\ last # NoChange /\ ~excused =>
             Known # Unchanged /\ last <= started.at + Known.seen_at - Known.already
<1>1. CASE known # NotAsked
  BY <1>1 DEF Known, PacingInv, PacingTypeOK, KnownIsSound, RecordIsSound, Read, Unchanged, NoChange
<1>2. CASE known = NotAsked /\ recorded = Never
  BY <1>2 DEF Known, PacingInv, PacingTypeOK, RecordIsSound, Dated, Never, NoChange
<1>3. CASE known = NotAsked /\ recorded # Never
  <2>1. Known = [seen_at |-> 0, already |-> AlreadyWaited] BY <1>3 DEF Known
  <2>2. AlreadyWaited \in Nat BY <1>3, WaitIsANumber DEF PacingInv
  <2>3. started.at \in Nat /\ settled \in Nat /\ started.at <= settled
    BY DEF PacingInv, PacingTypeOK, InTime
  <2>4. change = "none" /\ last # NoChange /\ ~excused => last \in Nat /\ AlreadyWaited <= started.at - last
    BY <1>3 DEF PacingInv, PacingTypeOK, RecordIsSound
  <2> HIDE DEF AlreadyWaited
  <2> QED BY <2>1, <2>2, <2>3, <2>4 DEF Unchanged, Read, NoChange
<1> QED BY <1>1, <1>2, <1>3

LEMMA PacingInitial == PacingInit => PacingInv
<1> SUFFICES ASSUME PacingInit PROVE PacingInv OBVIOUS
<1>1. PacingTypeOK
  <2>1. /\ time \in Nat /\ wall \in Int /\ started \in [at : Nat, wall : Int]
        /\ settled \in Nat /\ restarts \in Nat
    BY DEF PacingInit
  <2>2. /\ known \in {NotAsked, Unchanged} /\ recorded = Never /\ dated = Never /\ change = "none"
        /\ last = NoChange /\ excused \in BOOLEAN
    BY DEF PacingInit
  <2> QED BY <2>1, <2>2 DEF PacingTypeOK
<1>2. InTime BY DEF PacingInit, InTime, NoChange
<1>3. KnownIsSound /\ RecordIsSound BY DEF PacingInit, KnownIsSound, RecordIsSound
<1> QED BY <1>1, <1>2, <1>3 DEF PacingInv

LEMMA AskKeeps == ASSUME PacingInv, AskChange PROVE PacingInv'
<1>1. Known \in {Unchanged} \union Read /\ known' = Known /\ known' # NotAsked
  BY KnownWhenAsked DEF AskChange, Unchanged, NotAsked, Read
<1>2. UNCHANGED <<time, wall, started, recorded, dated, restarts, settled>> /\ change = "none"
  BY DEF AskChange
<1>3. \/ change' = "reached" /\ last' = time /\ excused' = FALSE
      \/ UNCHANGED <<change, last, excused>>
  BY DEF AskChange
<1> HIDE DEF Known
<1>4. PacingTypeOK' BY <1>1, <1>2, <1>3 DEF PacingInv, PacingTypeOK
<1>5. InTime' BY <1>1, <1>2, <1>3 DEF PacingInv, PacingTypeOK, InTime
<1>6. KnownIsSound'
  BY <1>1, <1>2, <1>3, KnownWhenAsked DEF PacingInv, PacingTypeOK, KnownIsSound
<1>7. RecordIsSound'
  BY <1>1, <1>2, <1>3, KnownWhenAsked DEF PacingInv, PacingTypeOK, RecordIsSound
<1> QED BY <1>4, <1>5, <1>6, <1>7 DEF PacingInv

LEMMA PacingRestartKeeps == ASSUME PacingInv, Restart PROVE PacingInv'
<1>1. PacingTypeOK' /\ InTime' /\ KnownIsSound'
  BY DEF Restart, PacingInv, PacingTypeOK, InTime, KnownIsSound, Dated, NotAsked, Read
<1>2. RecordIsSound'
  <2> SUFFICES ASSUME last # NoChange, ~excused' PROVE RecordIsSound' BY DEF Restart, RecordIsSound
  <2>0. recorded # Never => wall \in Int /\ recorded.wall \in Int BY DEF PacingInv, PacingTypeOK, Dated
  <2>1. recorded # Never => ~(wall > recorded.wall) BY DEF Restart
  <2>2. change = "none" /\ ~excused BY DEF Restart
  <2>3. recorded \in Dated /\ last \in Nat /\ last <= recorded.time
    BY <2>2 DEF PacingInv, RecordIsSound, PacingTypeOK
  <2>4. wall <= recorded.wall BY <2>0, <2>1, <2>3 DEF Dated, Never, NoChange
  <2>5. AlreadyWaited' <= time - last
    BY <2>3, <2>4 DEF Restart, AlreadyWaited, PacingInv, PacingTypeOK, Dated, InTime
  <2> QED BY <2>3, <2>5 DEF Restart, RecordIsSound
<1> QED BY <1>1, <1>2 DEF PacingInv

LEMMA PacingStep == PacingInv /\ [PacingNext]_pacing => PacingInv'
<1> SUFFICES ASSUME PacingInv, [PacingNext]_pacing PROVE PacingInv' OBVIOUS
<1> USE DEF PacingInv, PacingTypeOK, InTime, KnownIsSound, RecordIsSound, AlreadyWaited
<1>1. CASE AskChange BY <1>1, AskKeeps
<1>2. CASE RecordRequested BY <1>2 DEF RecordRequested, Dated
<1>3. CASE NoteAgentAction BY <1>3 DEF NoteAgentAction, Elapsed, NotAsked, Unchanged, Read, NoChange
<1>4. CASE RecordExecuted BY <1>4 DEF RecordExecuted
<1>5. CASE Second
  <2>1. time' = time + 1 /\ AlreadyWaited' = AlreadyWaited
    BY <1>5 DEF Second
  <2>2. UNCHANGED <<wall, started, known, recorded, change, dated, restarts, last, settled, excused>>
    BY <1>5 DEF Second
  <2>3. PacingTypeOK' BY <2>1, <2>2
  <2>4. InTime' BY <2>1, <2>2 DEF NoChange
  <2>5. KnownIsSound' BY <2>1, <2>2
  <2>6. RecordIsSound' BY <2>1, <2>2
  <2> QED BY <2>3, <2>4, <2>5, <2>6
<1>6. CASE StepWall BY <1>6, PacingConstants DEF StepWall
<1>7. CASE Restart BY <1>7, PacingRestartKeeps
<1>8. CASE UNCHANGED pacing BY <1>8 DEF pacing
<1> QED BY <1>1, <1>2, <1>3, <1>4, <1>5, <1>6, <1>7, <1>8 DEF PacingNext

\* What is known of the last change is never wrong in the direction that matters.
THEOREM PacingInvariance == PacingSpec => []PacingInv
BY PacingInitial, PacingStep, PTL DEF PacingSpec

\* supervisor.rs: between two changes of the agent passes the interval, and no
\* more than it, over restarts and a wall clock that is stepped.
THEOREM AgentsAreHeldForTheInterval == PacingSpec => []TheIntervalIsKept
<1>1. ASSUME PacingInv PROVE TheIntervalIsKept
  <2>1. /\ Known \in {Unchanged} \union Read
        /\ Known # Unchanged => /\ Known.seen_at \in Nat /\ Known.already \in Nat
                                /\ started.at + Known.seen_at - Known.already <= settled
        /\ change = "none" /\ last # NoChange /\ ~excused =>
             Known # Unchanged /\ last <= started.at + Known.seen_at - Known.already
    BY <1>1, KnownWhenAsked
  <2>2. Known # Unchanged => Since = ((time - started.at) - Known.seen_at) + Known.already
    BY DEF Since, Elapsed
  <2>3. Known = Unchanged => Since = NoChange BY DEF Since
  <2>4. time \in Nat /\ started.at \in Nat /\ settled \in Nat /\ (last # NoChange => last \in Nat)
    BY <1>1 DEF PacingInv, PacingTypeOK
  <2>5. started.at <= settled /\ settled <= time /\ Interval \in Nat BY <1>1, PolicyConstants DEF PacingInv, InTime
  <2> HIDE DEF Known, Since, Verdict
  <2>6. Known # Unchanged => Since >= 0 /\ Since # NoChange
    BY <2>1, <2>2, <2>4, <2>5 DEF NoChange
  <2>7. NeverTooEarly BY <2>1, <2>2, <2>4, <2>5, <2>6, VerdictIsOfSince DEF NeverTooEarly
  <2>8. NeverHeldLonger BY <2>1, <2>2, <2>3, <2>4, <2>5, VerdictIsOfSince DEF NeverHeldLonger
  <2> QED BY <2>7, <2>8 DEF TheIntervalIsKept
<1> QED BY <1>1, PacingInvariance, PTL

-----------------------------------------------------------------------------
(* Recovery commands and Z trust (Recovery).  A home and a start are trusted only
   after the printer took them, and a move is noted only after it was written
   down, so both properties need what holds between. *)

Ats == {"new", "asked", "read", "homed", "lost", "moved", "settled", "done"}
Seen == {"down", "idle", "printing", "paused", "unread"}
MoveRecords == [at : Ats, seen : Seen, trusted : BOOLEAN, overtaken : BOOLEAN]

\* What the fields the argument looks at may hold.
RecoveryTypeOK ==
  /\ moves \in [Moves -> MoveRecords]
  /\ start \in {"none", "taken", "overtaken"}
  /\ printer \in {"down", "idle", "printing", "paused"}
  /\ displaced \subseteq Moves

\* A home or a start that is about to be trusted for is still good, or overtaken.
PlacedInv ==
  /\ TrustIsEarned
  /\ \A m \in Moves : moves[m].at = "homed" => placed \/ moves[m].overtaken
  /\ start = "taken" => placed

\* A recovery that displaced the head is known to this server or to the next.
DisplacedInv ==
  /\ kept => open /\ written /\ RecoveryWhileOpen
  /\ \A m \in displaced : open /\ (moves[m].at = "settled" => written)

RecoveryInv == RecoveryTypeOK /\ PlacedInv /\ DisplacedInv

-----------------------------------------------------------------------------
\* A record of a recovery stays one as it goes on.
LEMMA MoveRecordsKept ==
  /\ NewMove \in MoveRecords /\ Done \in MoveRecords
  /\ NewMove.at = "new" /\ Done.at = "done"
  /\ \A r \in MoveRecords, b \in BOOLEAN :
       LET q == [r EXCEPT !.overtaken = @ \/ b] IN
       /\ q \in MoveRecords /\ q.at = r.at
       /\ (q.overtaken <=> r.overtaken \/ b)
  /\ \A a \in Ats, s \in Seen, t \in BOOLEAN :
       /\ [NewMove EXCEPT !.at = a, !.seen = s] \in MoveRecords
       /\ [NewMove EXCEPT !.at = a, !.seen = s].at = a
       /\ [NewMove EXCEPT !.at = a, !.seen = s, !.trusted = t] \in MoveRecords
       /\ [NewMove EXCEPT !.at = a, !.seen = s, !.trusted = t].at = a
       /\ [NewMove EXCEPT !.at = a] \in MoveRecords
       /\ [NewMove EXCEPT !.at = a].at = a
<1>1. NewMove \in MoveRecords /\ Done \in MoveRecords /\ NewMove.at = "new" /\ Done.at = "done"
  BY DEF MoveRecords, NewMove, Done, Ats, Seen
<1>2. ASSUME NEW r \in MoveRecords, NEW b \in BOOLEAN
      PROVE LET q == [r EXCEPT !.overtaken = @ \/ b] IN
              q \in MoveRecords /\ q.at = r.at /\ (q.overtaken <=> r.overtaken \/ b)
  BY DEF MoveRecords
<1>3. ASSUME NEW a \in Ats, NEW s \in Seen, NEW t \in BOOLEAN
      PROVE /\ [NewMove EXCEPT !.at = a, !.seen = s] \in MoveRecords
            /\ [NewMove EXCEPT !.at = a, !.seen = s].at = a
            /\ [NewMove EXCEPT !.at = a, !.seen = s, !.trusted = t] \in MoveRecords
            /\ [NewMove EXCEPT !.at = a, !.seen = s, !.trusted = t].at = a
            /\ [NewMove EXCEPT !.at = a] \in MoveRecords
            /\ [NewMove EXCEPT !.at = a].at = a
  BY DEF MoveRecords, NewMove, Ats, Seen
<1> QED
  BY <1>1, <1>2, <1>3

\* What a loss does to the recoveries: those that homed and are not trusted for
\* yet are overtaken, and nothing else of them changes.
LEMMA OvertakenMoves ==
  ASSUME RecoveryTypeOK
  PROVE  /\ Overtaken \in [Moves -> MoveRecords]
         /\ \A m \in Moves : /\ Overtaken[m].at = moves[m].at
                             /\ moves[m].at = "homed" => Overtaken[m].overtaken
<1> SUFFICES ASSUME NEW m \in Moves
             PROVE  LET q == [moves[m] EXCEPT !.overtaken = @ \/ moves[m].at = "homed"] IN
                      /\ q \in MoveRecords /\ q.at = moves[m].at
                      /\ moves[m].at = "homed" => q.overtaken
  BY DEF Overtaken
<1>1. moves[m] \in MoveRecords /\ (moves[m].at = "homed") \in BOOLEAN
  BY DEF RecoveryTypeOK
<1> QED
  BY <1>1, MoveRecordsKept

\* As the server starts nothing is trusted and no print is open.
LEMMA InitRecoveryInv == RecoveryInit => RecoveryInv
<1>1. NewMove \in MoveRecords /\ NewMove.at = "new"
  BY MoveRecordsKept
<1> QED
  BY <1>1 DEF RecoveryInit, RecoveryInv, RecoveryTypeOK, PlacedInv, TrustIsEarned, DisplacedInv

\* The printer loses its place, and may do so under a home or a start.
LEMMA LossKeeps ==
  ASSUME RecoveryInv, NEW how, Loses(how)
  PROVE  moves' \in [Moves -> MoveRecords] /\ start' \in {"none", "taken", "overtaken"}
         /\ PlacedInv' /\ \A m \in Moves : moves'[m].at = moves[m].at
<1>1. moves' \in [Moves -> MoveRecords]
      /\ \A m \in Moves : /\ moves'[m].at = moves[m].at
                          /\ moves[m].at = "homed" => moves'[m].overtaken
  BY OvertakenMoves DEF RecoveryInv, Loses
<1>2. start' \in {"none", "taken", "overtaken"} /\ start' # "taken"
  BY DEF RecoveryInv, RecoveryTypeOK, Loses, StartOvertaken
<1>3. TrustIsEarned'
  BY DEF Loses, TrustIsEarned
<1> QED
  BY <1>1, <1>2, <1>3 DEF PlacedInv

\* Z is distrusted, which asks nothing of where it is.
LEMMA DistrustKeeps ==
  ASSUME RecoveryInv, NEW how, Distrust(how), UNCHANGED <<moves, start>>
  PROVE  PlacedInv'
BY DEF RecoveryInv, PlacedInv, Distrust, TrustIsEarned

\* The printer's own steps: a loss under a recovery or a start, or none.
LEMMA PrinterKeeps ==
  ASSUME RecoveryInv, Resets \/ GoesDown \/ PrintFails \/ ComesBackFinishesOrPauses
  PROVE  RecoveryInv'
<1>1. CASE Resets \/ GoesDown \/ PrintFails
  <2>1. /\ moves' \in [Moves -> MoveRecords] /\ start' \in {"none", "taken", "overtaken"}
        /\ PlacedInv' /\ \A m \in Moves : moves'[m].at = moves[m].at
    BY <1>1, LossKeeps DEF Resets, GoesDown, PrintFails
  <2>2. printer' \in {"down", "idle", "printing", "paused"} /\ UNCHANGED record
    BY <1>1 DEF Resets, GoesDown, PrintFails
  <2> QED
    BY <2>1, <2>2 DEF RecoveryInv, RecoveryTypeOK, DisplacedInv, RecoveryWhileOpen, record
<1>2. CASE ComesBackFinishesOrPauses
  BY <1>2 DEF ComesBackFinishesOrPauses, RecoveryInv, RecoveryTypeOK, PlacedInv, TrustIsEarned,
              DisplacedInv, RecoveryWhileOpen, record, place
<1> QED
  BY <1>1, <1>2

\* What the server is told distrusts Z; a print's end also forgets its recoveries.
LEMMA ToldKeeps ==
  ASSUME RecoveryInv, NotePush \/ NoteConnection \/ PrintEnds
  PROVE  RecoveryInv'
<1>1. PlacedInv'
  <2>1. UNCHANGED <<moves, start>> /\ ((\E how : Distrust(how)) \/ UNCHANGED <<trust, place>>)
    BY DEF NotePush, NoteConnection, PrintEnds
  <2> QED
    BY <2>1, DistrustKeeps DEF RecoveryInv, PlacedInv, TrustIsEarned, place
<1>2. RecoveryTypeOK' /\ DisplacedInv'
  BY DEF NotePush, NoteConnection, PrintEnds, RecoveryInv, RecoveryTypeOK, DisplacedInv,
         RecoveryWhileOpen, record
<1> QED
  BY <1>1, <1>2 DEF RecoveryInv

\* Reading, being refused and being forgotten displace nothing and place nothing.
LEMMA ReadingKeeps ==
  ASSUME RecoveryInv, NEW m \in Moves,
         ReadState(m) \/ ReadFacts(m) \/ Refused(m) \/ StoreRefuses(m)
  PROVE  RecoveryInv'
<1>1. \E q \in MoveRecords : /\ moves' = [moves EXCEPT ![m] = q]
                              /\ q.at \in {"asked", "read", "done"}
  <2>1. CASE ReadState(m)
    <3>1. PICK seen \in {printer, "unread"} :
            moves' = [moves EXCEPT ![m] = [NewMove EXCEPT !.at = "asked", !.seen = seen]]
      BY <2>1 DEF ReadState
    <3>2. seen \in Seen /\ "asked" \in Ats
      BY DEF RecoveryInv, RecoveryTypeOK, Seen, Ats
    <3> DEFINE q == [NewMove EXCEPT !.at = "asked", !.seen = seen]
    <3>3. q \in MoveRecords /\ q.at = "asked"
      BY <3>2 DEF MoveRecords, NewMove, Seen, Ats
    <3> QED
      BY <3>1, <3>3
  <2>2. CASE ReadFacts(m)
    <3> DEFINE q == [moves[m] EXCEPT !.at = "read", !.trusted = trust /\ moves[m].seen # "down"]
    <3>1. moves[m] \in MoveRecords
      BY DEF RecoveryInv, RecoveryTypeOK
    <3>2. moves' = [moves EXCEPT ![m] = q]
      BY <2>2, <3>1 DEF ReadFacts, RecoveryInv, RecoveryTypeOK
    <3>3. q \in MoveRecords /\ q.at = "read"
      BY <3>1 DEF MoveRecords, Ats
    <3> QED
      BY <3>2, <3>3
  <2>3. CASE Refused(m) \/ StoreRefuses(m)
    BY <2>3, MoveRecordsKept DEF Refused, StoreRefuses
  <2> QED
    BY <2>1, <2>2, <2>3
<1>2. UNCHANGED start /\ ((\E how : Distrust(how)) \/ UNCHANGED <<trust, place>>)
  BY DEF ReadState, ReadFacts, Refused, StoreRefuses
<1>3. /\ UNCHANGED <<printer, open, moved, written, counted, kept>>
      /\ displaced' = displaced \/ displaced' = displaced \ {m}
  BY DEF ReadState, ReadFacts, Refused, StoreRefuses, record
<1>4. moves' \in [Moves -> MoveRecords]
      /\ \A n \in Moves : moves'[n].at \in {"homed", "settled"} => moves'[n] = moves[n]
  BY <1>1 DEF RecoveryInv, RecoveryTypeOK
<1>5. PlacedInv'
  BY <1>2, <1>4 DEF RecoveryInv, PlacedInv, TrustIsEarned, Distrust, place
<1>6. RecoveryTypeOK' /\ DisplacedInv'
  BY <1>2, <1>3, <1>4 DEF RecoveryInv, RecoveryTypeOK, DisplacedInv, RecoveryWhileOpen
<1> QED
  BY <1>5, <1>6 DEF RecoveryInv

\* A recovery the printer takes or fails: it may place Z, and only a home does;
\* and it may displace the head under the print that is open.
LEMMA CarriedOutKeeps ==
  ASSUME RecoveryInv, NEW m \in Moves, CarriedOut(m)
  PROVE  RecoveryInv'
<1> DEFINE Out(at) == [NewMove EXCEPT !.at = at, !.seen = moves[m].seen]
           Lost == /\ moves' = [Overtaken EXCEPT ![m] = Out("lost")] /\ StartOvertaken
                   /\ untold' = untold \union {m}
           Homed == /\ moves' = [moves EXCEPT ![m] = Out("homed")] /\ placed' = TRUE
                    /\ UNCHANGED <<start, untold>>
           Moved == /\ moves' = [moves EXCEPT ![m] = Out("moved")] /\ (placed => placed')
                    /\ UNCHANGED <<start, untold>>
<1>1. Lost \/ Homed \/ Moved
  BY DEF CarriedOut
<1>2. /\ displaced' \subseteq Moves /\ (displaced' # displaced => open)
      /\ displaced \subseteq displaced' /\ displaced' \subseteq displaced \union {m}
      /\ UNCHANGED <<printer, open, moved, written, counted, kept, trust, overtaken>>
  BY DEF CarriedOut, RecoveryInv, RecoveryTypeOK
<1>3. \A at \in {"lost", "homed", "moved"} : Out(at) \in MoveRecords /\ Out(at).at = at
  <2>1. moves[m].seen \in Seen /\ {"lost", "homed", "moved"} \subseteq Ats
    BY DEF RecoveryInv, RecoveryTypeOK, MoveRecords, Ats
  <2> QED
    BY <2>1, MoveRecordsKept
<1>4. moves \in [Moves -> MoveRecords]
  BY DEF RecoveryInv, RecoveryTypeOK
<1> HIDE DEF Out
<1>5. /\ moves' \in [Moves -> MoveRecords] /\ start' \in {"none", "taken", "overtaken"}
      /\ PlacedInv' /\ moves'[m].at # "settled"
      /\ \A n \in Moves \ {m} : moves'[n].at = moves[n].at
  <2>1. CASE Lost
    <3>1. moves' \in [Moves -> MoveRecords] /\ moves'[m].at = "lost"
          /\ \A n \in Moves \ {m} : moves'[n] = Overtaken[n]
      BY <1>3, <2>1, OvertakenMoves DEF RecoveryInv
    <3>2. \A n \in Moves \ {m} : /\ moves'[n].at = moves[n].at
                                 /\ moves[n].at = "homed" => moves'[n].overtaken
      BY <3>1, OvertakenMoves DEF RecoveryInv
    <3>3. start' \in {"none", "overtaken"}
      BY <2>1 DEF StartOvertaken, RecoveryInv, RecoveryTypeOK
    <3>4. TrustIsEarned'
      BY <2>1 DEF TrustIsEarned
    <3>5. PlacedInv'
      BY <3>1, <3>2, <3>3, <3>4 DEF PlacedInv
    <3> QED
      BY <3>1, <3>2, <3>3, <3>5
  <2>2. CASE Homed
    <3>1. moves' \in [Moves -> MoveRecords] /\ moves'[m].at = "homed"
          /\ \A n \in Moves \ {m} : moves'[n] = moves[n]
      BY <1>3, <1>4, <2>2
    <3> QED
      BY <3>1, <2>2 DEF RecoveryInv, RecoveryTypeOK, PlacedInv, TrustIsEarned
  <2>3. CASE Moved
    <3>1. moves' \in [Moves -> MoveRecords] /\ moves'[m].at = "moved"
          /\ \A n \in Moves \ {m} : moves'[n] = moves[n]
      BY <1>3, <1>4, <2>3
    <3> QED
      BY <1>2, <3>1, <2>3 DEF RecoveryInv, RecoveryTypeOK, PlacedInv, TrustIsEarned
  <2> QED
    BY <1>1, <2>1, <2>2, <2>3
<1>6. RecoveryTypeOK'
  BY <1>2, <1>5 DEF RecoveryInv, RecoveryTypeOK
<1>7. DisplacedInv'
  <2>1. \A n \in displaced' : open
    BY <1>2 DEF RecoveryInv, DisplacedInv
  <2>2. \A n \in displaced' : moves'[n].at = "settled" => written
    BY <1>2, <1>5 DEF RecoveryInv, DisplacedInv
  <2>3. kept => open /\ written /\ RecoveryWhileOpen'
    BY <1>2 DEF RecoveryInv, DisplacedInv, RecoveryWhileOpen
  <2> QED
    BY <1>2, <2>1, <2>2, <2>3 DEF DisplacedInv
<1> QED
  BY <1>5, <1>6, <1>7 DEF RecoveryInv

\* Writing a recovery down trusts or distrusts Z, and tells the next server that
\* the open print has had one.
LEMMA SettleKeeps ==
  ASSUME RecoveryInv, NEW m \in Moves, Settle(m)
  PROVE  RecoveryInv'
<1>1. \E q \in MoveRecords : moves' = [moves EXCEPT ![m] = q] /\ q.at \in {"settled", "done"}
  <2> DEFINE now_settled == [NewMove EXCEPT !.at = "settled"]
  <2>1. now_settled \in MoveRecords /\ now_settled.at = "settled" /\ Done \in MoveRecords /\ Done.at = "done"
    BY MoveRecordsKept DEF Ats, Seen, MoveRecords, NewMove
  <2>2. moves' = [moves EXCEPT ![m] = now_settled] \/ moves' = [moves EXCEPT ![m] = Done]
    BY DEF Settle
  <2> HIDE DEF now_settled
  <2> QED
    BY <2>1, <2>2
<1>2. moves' \in [Moves -> MoveRecords] /\ moves'[m].at # "homed"
      /\ \A n \in Moves \ {m} : moves'[n] = moves[n]
  BY <1>1 DEF RecoveryInv, RecoveryTypeOK
<1>3. PlacedInv'
  <2>1. CASE /\ moves[m].at = "homed" /\ trust' = TRUE
             /\ overtaken' = (overtaken \/ moves[m].overtaken)
             /\ UNCHANGED <<placed, untold, losses>>
    BY <1>2, <2>1 DEF Settle, RecoveryInv, PlacedInv, TrustIsEarned
  <2>2. CASE Distrust({m})
    BY <1>2, <2>2 DEF Settle, Distrust, RecoveryInv, PlacedInv, TrustIsEarned
  <2>3. CASE UNCHANGED <<trust, place>>
    BY <1>2, <2>3 DEF Settle, place, RecoveryInv, PlacedInv, TrustIsEarned
  <2> QED
    BY <2>1, <2>2, <2>3 DEF Settle
<1>4. RecoveryTypeOK' /\ DisplacedInv'
  BY <1>2 DEF Settle, RecoveryInv, RecoveryTypeOK, DisplacedInv, RecoveryWhileOpen
<1> QED
  BY <1>3, <1>4 DEF RecoveryInv

\* The note finds the print of a move that displaced the head still open.
LEMMA NoteMovedKeeps ==
  ASSUME RecoveryInv, NEW m \in Moves, NoteMoved(m)
  PROVE  RecoveryInv'
<1>1. moves' = [moves EXCEPT ![m] = Done] /\ Done \in MoveRecords /\ Done.at = "done"
  BY MoveRecordsKept DEF NoteMoved
<1>2. moves' \in [Moves -> MoveRecords] /\ moves'[m].at = "done"
      /\ \A n \in Moves \ {m} : moves'[n] = moves[n]
  BY <1>1 DEF RecoveryInv, RecoveryTypeOK
<1>3. RecoveryTypeOK' /\ PlacedInv'
  BY <1>2 DEF NoteMoved, place, RecoveryInv, RecoveryTypeOK, PlacedInv, TrustIsEarned
<1>4. kept' => open /\ written /\ moved'
  BY DEF NoteMoved, RecoveryInv, DisplacedInv
<1>5. \A n \in displaced' : open /\ (moves'[n].at = "settled" => written)
  BY <1>2 DEF NoteMoved, RecoveryInv, RecoveryTypeOK, DisplacedInv
<1>6. DisplacedInv'
  BY <1>4, <1>5 DEF NoteMoved, DisplacedInv, RecoveryWhileOpen
<1> QED
  BY <1>3, <1>6 DEF RecoveryInv

\* Starts and resumes: a start the printer has just taken is not overtaken yet.
LEMMA StartsKeep ==
  ASSUME RecoveryInv, StartTaken \/ FollowTheStart \/ AcceptResume \/ SendResume
  PROVE  RecoveryInv'
<1>1. PlacedInv'
  <2>1. CASE StartTaken
    BY <2>1 DEF StartTaken, RecoveryInv, PlacedInv, TrustIsEarned
  <2>2. CASE FollowTheStart
    BY <2>2 DEF FollowTheStart, RecoveryInv, RecoveryTypeOK, PlacedInv, TrustIsEarned
  <2>3. CASE AcceptResume \/ SendResume
    BY <2>3 DEF AcceptResume, SendResume, RecoveryInv, PlacedInv, TrustIsEarned, place
  <2> QED
    BY <2>1, <2>2, <2>3
<1>2. RecoveryTypeOK' /\ DisplacedInv'
  BY DEF StartTaken, FollowTheStart, AcceptResume, SendResume, RecoveryInv, RecoveryTypeOK,
         DisplacedInv, RecoveryWhileOpen, record
<1> QED
  BY <1>1, <1>2 DEF RecoveryInv

\* The next server trusts nothing, and counts what this one wrote down.
LEMMA RestartKeeps == RecoveryInv /\ ServerRestarts => RecoveryInv'
<1> SUFFICES ASSUME RecoveryInv, ServerRestarts PROVE RecoveryInv'
  OBVIOUS
<1>1. moves' \in [Moves -> MoveRecords]
      /\ \A m \in Moves : moves'[m].at # "homed"
  BY MoveRecordsKept DEF ServerRestarts
<1>2. PlacedInv'
  BY <1>1 DEF ServerRestarts, PlacedInv, TrustIsEarned
<1>3. kept' => open /\ written
  BY DEF ServerRestarts, RecoveryInv, DisplacedInv
<1> QED
  BY <1>1, <1>2, <1>3
    DEF ServerRestarts, RecoveryInv, RecoveryTypeOK, DisplacedInv, RecoveryWhileOpen

LEMMA StepRecoveryInv == RecoveryInv /\ [RecoveryNext]_recovery => RecoveryInv'
<1> SUFFICES ASSUME RecoveryInv, [RecoveryNext]_recovery PROVE RecoveryInv'
  OBVIOUS
<1>1. CASE UNCHANGED recovery
  BY <1>1 DEF recovery, record, place, RecoveryInv, RecoveryTypeOK, PlacedInv, TrustIsEarned,
              DisplacedInv, RecoveryWhileOpen
<1>2. CASE RecoveryNext
  BY <1>2, PrinterKeeps, ToldKeeps, ReadingKeeps, CarriedOutKeeps, SettleKeeps, NoteMovedKeeps,
     StartsKeep, RestartKeeps
    DEF RecoveryNext
<1> QED
  BY <1>1, <1>2

-----------------------------------------------------------------------------
\* Every reachable state satisfies the inductive invariant.
THEOREM RecoveryInvariance == RecoverySpec => []RecoveryInv
BY InitRecoveryInv, StepRecoveryInv, PTL DEF RecoverySpec

\* recovery.rs 34-38: Z is trusted only where a home or a start of the server's
\* put it, but for what the server has not been told and what overtook it.
THEOREM ZIsTrustedForCause == RecoverySpec => []TrustIsEarned
<1>1. RecoveryInv => TrustIsEarned
  BY DEF RecoveryInv, PlacedInv
<1> QED
  BY <1>1, RecoveryInvariance, PTL

\* recovery.rs 17-19: no server accepts a resume over a recovery that displaced
\* the head and was noted, or written down when its server died.
THEOREM NoResumeOverARecovery == RecoverySpec => DisplacedIsNotResumed
<1>1. RecoveryInv /\ [RecoveryNext]_recovery
        => [resume' = "accepted" => resume = "accepted" \/ ~kept]_recovery
  <2> SUFFICES ASSUME RecoveryInv, RecoveryNext, resume' = "accepted", resume # "accepted"
               PROVE  ~kept
    BY DEF recovery
  <2>1. AcceptResume
    BY DEF RecoveryNext, Resets, GoesDown, PrintFails, ComesBackFinishesOrPauses, NotePush,
           NoteConnection, PrintEnds, ReadState, ReadFacts, Refused, CarriedOut, Settle, NoteMoved,
           StoreRefuses, StartTaken, FollowTheStart, SendResume, ServerRestarts
  <2> QED
    BY <2>1 DEF AcceptResume, RecoveryInv, DisplacedInv
<1> QED
  BY <1>1, RecoveryInvariance, PTL DEF RecoverySpec, DisplacedIsNotResumed
=============================================================================
