---------------------------- MODULE PrintListing ----------------------------
(***************************************************************************)
(* Which print the printer's job is (printobserver-core: listing.rs, with  *)
(* `resolve_print` of events.rs, `print_to_start` of actions.rs and the    *)
(* operator's close of closing.rs).  Reads settle and adopt, alerts attach *)
(* or open, starts open, closes end, each under the resolution of prints   *)
(* and each in the steps its awaits divide it into; an agent's turn closes *)
(* its own print from what it read as it began, under no resolution.       *)
(* Alerts that name no file or are first delivered after their job, and    *)
(* states the printer's vocabulary does not name, are left out.            *)
(***************************************************************************)
EXTENDS Integers, Sequences, FiniteSets

CONSTANTS
  Files,
  Tolerance,  \* JOB_IDENTITY_TOLERANCE_S
  Pausing,    \* how long a job still pausing is reported as printing
  MaxTime, MaxJobs, MaxPrints

ASSUME ListingConstants == {Tolerance, Pausing, MaxTime, MaxJobs, MaxPrints} \subseteq Nat
\* The tolerance is there because a job still pausing is reported as printing, with
\* the pause already counting (JOB_IDENTITY_TOLERANCE_S).
ASSUME PausingIsTolerated == Pausing <= Tolerance

Unknown == -1 \* nothing recorded, nothing reported; the print, or the job, there is not
Actors == {"read", "alert", "start", "close"}
Idle == [stage |-> "idle"]

VARIABLES
  now,
  jobs,   \* every job the printer began: its file, when, the pauses it resumed from, its state
  prints, \* every print opened, in order; `job`, `known` and `merged` are history
  ops,    \* what each actor has in flight
  turn    \* the turn of a print: its print, whether it found the printer idle, and its stage

listing == <<now, jobs, prints, ops, turn>>

NoTurn == [print |-> Unknown, idle |-> FALSE, stage |-> "none"]
ListingInit ==
  /\ now = 0 /\ jobs = <<>> /\ prints = <<>> /\ turn = NoTurn
  /\ ops = [a \in Actors |-> Idle]

Running == {j \in DOMAIN jobs : jobs[j].state # "over"} \* at most one
OpenPrints == {p \in DOMAIN prints : prints[p].open}
HeldBy(p) == turn.stage = "held" /\ turn.print = p
Newest(S) == CHOOSE p \in S : \A q \in S : q <= p

\* MUTANT of Free: each actor excludes only itself.
FreeOfItself(a) == ops[a] = Idle
\* The resolution of prints, free for an actor to take.
Free(a) == \A b \in Actors : ops[b] = Idle

-----------------------------------------------------------------------------
(* The printer (external) *)

Tick == now < MaxTime /\ now' = now + 1 /\ UNCHANGED <<jobs, prints, ops, turn>>

Began(file) ==
  Append(jobs, [file |-> file, began |-> now, resumed |-> 0, paused |-> Unknown, state |-> "printing"])

JobBegins(file) ==
  /\ Running = {} /\ Len(jobs) < MaxJobs /\ jobs' = Began(file)
  /\ UNCHANGED <<now, prints, ops, turn>>

JobPauses(j) ==
  /\ jobs[j].state = "printing" /\ jobs' = [jobs EXCEPT ![j].state = "paused", ![j].paused = now]
  /\ UNCHANGED <<now, prints, ops, turn>>

JobResumes(j) ==
  /\ jobs[j].state = "paused"
  /\ jobs' = [jobs EXCEPT ![j].state = "printing", ![j].resumed = @ + now - jobs[j].paused,
                          ![j].paused = Unknown]
  /\ UNCHANGED <<now, prints, ops, turn>>

JobEnds(j) ==
  /\ jobs[j].state # "over" /\ jobs' = [jobs EXCEPT ![j].state = "over", ![j].began = 0, ![j].resumed = 0, ![j].paused = Unknown]
  /\ UNCHANGED <<now, prints, ops, turn>>

\* `observe_job`: what one read may report of the job.  A running time counts
\* the pause under way and none resumed from, and may be missing as a job
\* begins; `printed` is history, what the job has truly printed for.
Observed ==
  IF Running = {} THEN {[state |-> "over"]}
  ELSE LET j == CHOOSE k \in Running : TRUE
           ran == now - jobs[j].began - jobs[j].resumed
           pause == IF jobs[j].state = "paused" THEN now - jobs[j].paused ELSE 0
       IN [state : {jobs[j].state} \union (IF pause <= Pausing THEN {"printing"} ELSE {}),
           at : {now}, job : {j}, running : {ran} \union (IF ran = 0 THEN {Unknown} ELSE {}),
           printed : {ran - pause}]

-----------------------------------------------------------------------------
(* Telling jobs apart *)

\* MUTANT of PrintingTime: a paused job's running time is taken for one.
RunningTime(o) == o.running
\* `printing_time_s`: a paused job's running time counts the pause.
PrintingTime(o) == IF o.state = "printing" THEN o.running ELSE Unknown

\* `may_be_same_job`.
MayBeSameJob(print, o) ==
  print.longest # Unknown /\ o.running # Unknown => o.running + Tolerance >= print.longest

\* `may_have_started_it`: earlier is no objection.
MayHaveStartedIt(print, started) ==
  print.started # Unknown /\ started # Unknown => started - print.started <= Tolerance

Later(s, t) == IF s > t THEN s ELSE t
Apart(s, t) == IF s > t THEN s - t ELSE t - s

\* MUTANT of Sighted: a print is written only when its start moves.
SightedWhenMoved(print, o) ==
  LET seen == o.at - o.running IN
  IF o.running = Unknown \/ (print.started # Unknown /\ Apart(print.started, seen) <= Tolerance)
    THEN print
    ELSE [print EXCEPT !.started = seen, !.longest = Later(@, PrintingTime(o))]

\* `record_sighting`: the start moves only when a read puts it further off than
\* the tolerance.
Sighted(print, o) ==
  LET seen == o.at - o.running IN
  IF o.running = Unknown THEN print
  ELSE [print EXCEPT !.started = IF @ # Unknown /\ Apart(@, seen) <= Tolerance THEN @ ELSE seen,
                     !.longest = Later(@, PrintingTime(o))]

NewPrint(file, provider, job) ==
  [file |-> file, provider |-> provider, started |-> Unknown, longest |-> Unknown, open |-> TRUE,
   job |-> job, known |-> Unknown, merged |-> FALSE]

\* `end_print`: what an ended print recorded is compared no more, and only its
\* identifier is kept here.
Ended(print) == [NewPrint(Unknown, print.provider, Unknown) EXCEPT !.open = FALSE]

\* History of a read that takes a print for its job: the first job it is taken
\* for is its own, and how long that one was seen printing is known of it.
Taken(print, o) ==
  [print EXCEPT !.job = IF @ = Unknown THEN o.job ELSE @,
                !.merged = @ \/ print.job \notin {Unknown, o.job},
                !.known = IF print.job \in {Unknown, o.job} /\ o.state = "printing" /\ o.running # Unknown
                            THEN Later(@, o.printed) ELSE @]

-----------------------------------------------------------------------------
(* Reads: the watch, the listing, an observation, a context, a start *)

\* `settle_open_prints`, over the open prints of the job's file: the one it is,
\* and those it cannot be; a print a turn holds is that turn's to end.
OfFile(o) == {p \in OpenPrints : prints[p].file = jobs[o.job].file}
Matching(o) == {p \in OfFile(o) : MayBeSameJob(prints[p], o)}
Closing(o) ==
  {p \in IF o.state = "over" THEN OpenPrints ELSE OfFile(o) \ Matching(o) : ~HeldBy(p)}
Settled(o) ==
  LET match == IF o.state = "over" THEN {} ELSE Matching(o) IN
  [p \in DOMAIN prints |->
     IF p \in Closing(o) THEN Ended(prints[p])
     ELSE IF match # {} /\ p = Newest(match) THEN Taken(Sighted(prints[p], o), o)
     ELSE prints[p]]

ReadJob ==
  /\ Free("read")
  /\ \E o \in Observed : ops' = [ops EXCEPT !["read"] = [stage |-> "read", seen |-> o]]
  /\ UNCHANGED <<now, jobs, prints, turn>>

\* `settle_and_adopt`, or `settle_open_prints` alone (a start of the server, a
\* context): a running job no open print is has one opened for it.
Settle ==
  /\ ops["read"].stage = "read" /\ ops["read"].seen.state # "unread"
  /\ LET o == ops["read"].seen IN
     \/ prints' = Settled(o)
     \/ /\ o.state # "over" /\ Matching(o) = {} /\ Len(prints) < MaxPrints
        /\ prints' = Append(Settled(o), Taken(Sighted(NewPrint(jobs[o.job].file, Unknown, o.job), o), o))
  /\ ops' = [ops EXCEPT !["read"] = Idle]
  /\ UNCHANGED <<now, jobs, turn>>

-----------------------------------------------------------------------------
(* Alerts: `resolve_print` *)

\* The print an alert finds: the one carrying its identifier, which changes
\* nothing here, or the newest unattached open one of its file whose job it may
\* be about.
ById(j) == {p \in DOMAIN prints : prints[p].provider = j}
Unattached(j, started) ==
  {p \in OpenPrints : /\ prints[p].provider = Unknown /\ prints[p].file = jobs[j].file
                      /\ MayHaveStartedIt(prints[p], started)}

AlertLooks(j) ==
  /\ Free("alert") /\ j \in Running /\ ById(j) = {}
  /\ \E started \in {jobs[j].began, Unknown} :
       LET found == Unattached(j, started) IN
       ops' = [ops EXCEPT !["alert"] = [stage |-> "looked", job |-> j, dated |-> started # Unknown,
                                       found |-> IF found = {} THEN Unknown ELSE Newest(found)]]
  /\ UNCHANGED <<now, jobs, prints, turn>>

AlertResolves ==
  /\ ops["alert"].stage = "looked"
  /\ LET j == ops["alert"].job  p == ops["alert"].found IN
     IF p # Unknown
       THEN prints' = [prints EXCEPT ![p].provider = j, ![p].job = IF @ = Unknown THEN j ELSE @]
       ELSE /\ Len(prints) < MaxPrints
            /\ prints' = Append(prints, NewPrint(jobs[j].file, j, j))
  /\ ops' = [ops EXCEPT !["alert"] = Idle]
  /\ UNCHANGED <<now, jobs, turn>>

-----------------------------------------------------------------------------
(* A start: `print_to_start`, the decision, and the printer's answer *)

\* Its read is `ReadJob`'s, or fails.
StartReadFails ==
  /\ Free("read") /\ ops' = [ops EXCEPT !["read"] = [stage |-> "read", seen |-> [state |-> "unread"]]]
  /\ UNCHANGED <<now, jobs, prints, turn>>

\* Any print still open after the read leaves the start to the print asked for,
\* and a start against one that has ended is refused.
StartChooses(file, asked) ==
  /\ ops["read"].stage = "read"
  /\ LET seen == ops["read"].seen
         after == IF seen.state = "unread" THEN prints ELSE Settled(seen)
         left == \E p \in DOMAIN after : after[p].open
     IN IF left
          THEN /\ prints' = after
               /\ ops' = [ops EXCEPT !["read"] = Idle, !["start"] =
                            IF after[asked].open THEN [stage |-> "chosen", print |-> asked, file |-> file] ELSE Idle]
          ELSE /\ Len(prints) < MaxPrints
               /\ prints' = Append(after, NewPrint(file, Unknown, Unknown))
               /\ ops' = [ops EXCEPT !["read"] = Idle, !["start"] =
                            [stage |-> "chosen", print |-> Len(after) + 1, file |-> file]]
  /\ UNCHANGED <<now, jobs, turn>>

\* The printer takes a start only with no job.  A start that could not read the
\* printer may be made against an open print of another file, which is then no
\* record of the job.
StartIsTaken ==
  /\ ops["start"].stage = "chosen" /\ Running = {} /\ Len(jobs) < MaxJobs
  /\ jobs' = Began(ops["start"].file)
  /\ LET p == ops["start"].print IN
     prints' = IF prints[p].job = Unknown /\ prints[p].file = ops["start"].file
                 THEN [prints EXCEPT ![p].job = Len(jobs) + 1] ELSE prints
  /\ ops' = [ops EXCEPT !["start"] = Idle]
  /\ UNCHANGED <<now, turn>>

StartIsRefused ==
  /\ ops["start"].stage = "chosen" /\ ops' = [ops EXCEPT !["start"] = Idle]
  /\ UNCHANGED <<now, jobs, prints, turn>>

-----------------------------------------------------------------------------
(* The operator's close: `check_close`, then `close_by_operator` *)

\* `still_active`; a record always names a file here.
StillActive(p, o) == o.state \in {"printing", "paused"} /\ prints[p].file = jobs[o.job].file

CloseChecks(p) ==
  /\ Free("close") /\ prints[p].open
  /\ \E o \in Observed \union {[state |-> "unread"]} :
       /\ ~StillActive(p, o)
       /\ ops' = [ops EXCEPT !["close"] = [stage |-> "checked", print |-> p, sure |-> o.state # "unread"]]
  /\ UNCHANGED <<now, jobs, prints, turn>>

CloseEnds ==
  /\ ops["close"].stage = "checked"
  /\ prints' = [prints EXCEPT ![ops["close"].print] = Ended(@)]
  /\ ops' = [ops EXCEPT !["close"] = Idle]
  /\ UNCHANGED <<now, jobs, turn>>

-----------------------------------------------------------------------------
(* A turn, and a restart *)

TurnBegins(p) ==
  /\ turn = NoTurn /\ prints[p].open
  /\ turn' = [print |-> p, idle |-> Running = {}, stage |-> "held"]
  /\ UNCHANGED <<now, jobs, prints, ops>>

\* A turn that read the printer idle closes its print once it has let it go.
TurnEnds ==
  /\ turn.stage = "held"
  /\ turn' = IF turn.idle THEN [turn EXCEPT !.stage = "closing"] ELSE NoTurn
  /\ UNCHANGED <<now, jobs, prints, ops>>

TurnCloses ==
  /\ turn.stage = "closing"
  /\ prints' = [prints EXCEPT ![turn.print] = Ended(@)] /\ turn' = NoTurn
  /\ UNCHANGED <<now, jobs, ops>>

Restart ==
  /\ ops' = [a \in Actors |-> Idle] /\ turn' = NoTurn
  /\ <<ops, turn>> # <<ops, turn>>'
  /\ UNCHANGED <<now, jobs, prints>>

ListingNext ==
  \/ Tick
  \/ \E file \in Files : JobBegins(file) \/ \E asked \in DOMAIN prints : StartChooses(file, asked)
  \/ \E j \in DOMAIN jobs : JobPauses(j) \/ JobResumes(j) \/ JobEnds(j) \/ AlertLooks(j)
  \/ ReadJob \/ Settle \/ AlertResolves
  \/ StartReadFails \/ StartIsTaken \/ StartIsRefused
  \/ \E p \in DOMAIN prints : CloseChecks(p) \/ TurnBegins(p)
  \/ CloseEnds \/ TurnEnds \/ TurnCloses \/ Restart

-----------------------------------------------------------------------------
(* Properties *)

\* One job never has two open prints: whatever read adopts it, whatever start
\* was made for it and whatever alert names it first, in any order and through
\* any restart, they find one print (events.rs: `resolve_print`).
OneOpenPrintPerJob ==
  \A p, q \in OpenPrints : prints[p].job = prints[q].job => p = q \/ prints[p].job = Unknown

\* No read, and no operator's close that could read the printer, ends the print
\* of the job still running or the one a start in flight was given (actions.rs:
\* "a read between the two would find the machine idle and close the print just
\* opened"; listing.rs: JOB_IDENTITY_TOLERANCE_S through a pause).
Ends(p) == prints[p].open /\ ~prints'[p].open
ByARead == Settle \/ \E file \in Files, asked \in DOMAIN prints : StartChooses(file, asked)
NoLivePrintEnded ==
  [][\A p \in DOMAIN prints : Ends(p) /\ (ByARead \/ (CloseEnds /\ ops["close"].sure)) =>
       /\ prints[p].job \notin Running
       /\ ops["start"].stage = "chosen" => p # ops["start"].print]_listing

\* No read takes a job for one that was seen printing longer than this one has
\* run and the tolerance (listing.rs: "two jobs of one file"), through whatever
\* pauses and reads the earlier one had.
JobsAreToldApart ==
  [][\A p \in DOMAIN prints : prints'[p].merged /\ ~prints[p].merged /\ Settle =>
       LET o == ops["read"].seen IN
       o.running = Unknown \/ prints[p].known <= o.running + Tolerance]_listing

\* An alert that says when its job began attaches to no print of an earlier job that
\* was seen printing for longer than the tolerance (listing.rs: "how much later
\* than a print's recorded start").
AlertsFindTheirPrint ==
  [][\A p \in DOMAIN prints :
       prints'[p].provider # prints[p].provider /\ AlertResolves /\ ops["alert"].dated =>
         \/ prints[p].job \in {Unknown, ops["alert"].job} \/ prints[p].merged
         \/ prints[p].known <= Tolerance]_listing

\* A print stays its job's: neither a read nor an alert of a later job takes it.
APrintStaysItsJobs == JobsAreToldApart /\ AlertsFindTheirPrint
=============================================================================
