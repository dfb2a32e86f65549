--------------------------- MODULE Interventions ---------------------------
(***************************************************************************)
(* Bounded interventions, from the request that makes one to what becomes  *)
(* of it (printobserver-core: actions.rs, expiry.rs, closing.rs, the       *)
(* close-out of events.rs; printobserver-server: reconcile.rs), on one     *)
(* adjustable of one printer.                                              *)
(*                                                                         *)
(* A request reads the store and the printer, asks the printer, and only   *)
(* then writes its intervention down.  What happens between two awaits is  *)
(* a step here, except that reads which commute with everything that can   *)
(* come between them are one step.  An intervention is identified by the   *)
(* request that opened it, since a request opens at most one.  Three tasks *)
(* expire interventions through the same code: the driver's sweep, the     *)
(* close-out of a print, and a start's reconciliation.                     *)
(*                                                                         *)
(* Left out: requests that carry no duration (they open nothing), the      *)
(* event log, store failures, and the refusals of the policy other than    *)
(* those that turn on a print's end or the printer's state.                *)
(***************************************************************************)
EXTENDS Naturals, FiniteSets

CONSTANTS
  Requests,   \* the bounded adjustments anybody asks for
  NPrints,    \* how many prints this printer ever runs
  Values,     \* the values the adjustable can hold
  First,      \* the value the machine holds as the first print begins
  Want,       \* Want[r]: the value request r asks for
  MaxCrashes, \* how often the server may die
  None        \* no value, no print, no task

ASSUME Constants ==
  /\ IsFiniteSet(Requests)
  /\ NPrints \in Nat \ {0}
  /\ First \in Values
  /\ Want \in [Requests -> Values]
  /\ MaxCrashes \in Nat
  /\ None \notin Values /\ None \notin Requests /\ None \notin 1 .. NPrints
  /\ None \notin {"driver", "closer", "start", "operator"}

Prints == 1 .. NPrints  \* in the order they are opened

VARIABLES
  prints,    \* the store's print records
  ivs,       \* the store's interventions
  running,   \* whether the printer is running the newest print's job
  value,     \* what the machine holds for the adjustable
  due,       \* the interventions whose expires_at has passed
  up,        \* the server: "down", "starting", "up" or "refused"
  req,       \* the requests in progress
  exp,       \* the tasks that expire interventions and close prints
  expiring,  \* the `expiring` lock of each print: the task holding it
  counting,  \* Deadlines.counting
  adopted,   \* Deadlines.adopted
  overdue,   \* what a start read as due before its supervisor existed
  putBack,   \* history: the interventions whose prior value this life put back
  crashes    \* how often the server has died

store    == <<prints, ivs>>
machine  == <<running, value, due>>
deadline == <<counting, adopted, overdue>>
history  == <<putBack, crashes>>
vars == <<store, machine, up, req, exp, expiring, deadline, history>>

Tasks == {"driver", "closer", "start", "operator"}
Outcomes == {"none", "active", "restored", "unavailable", "failed", "superseded"}

Opened(i) == ivs[i].state # "none"
Active(i) == ivs[i].state = "active"
ActiveOn(p) == {i \in Requests : Active(i) /\ ivs[i].print = p}
OpenPrints == {p \in Prints : prints[p] = "open"}
IsNewest(p) == p \in OpenPrints /\ \A q \in OpenPrints : q <= p

NoIntervention == [state |-> "none", print |-> None, prior |-> None, at |-> 0, by |-> None]
NoRequest == [pc |-> "idle", print |-> None, at |-> 0, read |-> None,
              bound |-> None, earlier |-> {}]
Answered == [NoRequest EXCEPT !.pc = "done"]
\* `listed` remembers what a close-out listed; only a property reads it.
Idle == [pc |-> "idle", print |-> None, todo |-> {}, listed |-> {}, it |-> None,
         will |-> "none"]

\* A first print is running, its record open and nothing asked of it yet.
Init ==
  /\ prints = [p \in Prints |-> IF p = 1 THEN "open" ELSE "unborn"]
  /\ ivs = [r \in Requests |-> NoIntervention]
  /\ running = TRUE /\ value = First /\ due = {}
  /\ up = "up"
  /\ req = [r \in Requests |-> NoRequest]
  /\ exp = [e \in Tasks |-> Idle]
  /\ expiring = [p \in Prints |-> None]
  /\ counting = {} /\ adopted = TRUE /\ overdue = {}
  /\ putBack = {} /\ crashes = 0

-----------------------------------------------------------------------------
(***************************************************************************)
(* The machine and the clock.                                              *)
(***************************************************************************)
\* The printer's job ends: finished, cancelled or failed.
JobEnds ==
  /\ running
  /\ running' = FALSE
  /\ UNCHANGED <<store, value, due, up, req, exp, expiring, deadline, history>>

\* A new job begins and a print is opened for it, by a start or by the read
\* that finds it; the machine keeps the value it held. Prints are opened under
\* the lock an operator's close holds from its check to its end.
JobBegins ==
  /\ up = "up" /\ ~running /\ exp["operator"].pc = "idle"
  /\ \E p \in Prints :
       /\ prints[p] = "unborn" /\ \A q \in 1 .. p - 1 : prints[q] # "unborn"
       /\ prints' = [prints EXCEPT ![p] = "open"]
  /\ running' = TRUE
  /\ UNCHANGED <<ivs, value, due, up, req, exp, expiring, deadline, history>>

\* An intervention's expires_at passes, on the clock alone.
TimePasses(i) ==
  /\ Active(i) \/ i \in counting
  /\ i \notin due
  /\ due' = due \union {i}
  /\ UNCHANGED <<store, running, value, up, req, exp, expiring, deadline, history>>

-----------------------------------------------------------------------------
(***************************************************************************)
(* A request (`request_action`, `issue_decided_action` and                 *)
(* `open_bounded_intervention`).  Requests are served while the server is  *)
(* up, and nothing keeps two of them apart.                                *)
(***************************************************************************)
Moves(r, to) == req' = [req EXCEPT ![r] = to]

\* The print asked for and the printer are read, and the policy accepts: the
\* print has not ended, and the printer, when it could be read, is printing.
\* A printer that could not be read reports no value, and one that was read may
\* report none for this adjustable.  A refusal opens nothing and is left out.
Accept(r, p) ==
  /\ up = "up" /\ req[r].pc = "idle" /\ prints[p] = "open"
  /\ \E read \in {value, None} :
       /\ read # None => running
       /\ Moves(r, [NoRequest EXCEPT
            !.pc = "accepted", !.print = p, !.read = read,
            !.at = Cardinality({q \in Requests : req[q].pc # "idle"})])
  /\ UNCHANGED <<store, machine, up, exp, expiring, deadline, history>>

\* The request is recorded against the newest open print, or against none and
\* fails.
Record(r) ==
  /\ req[r].pc = "accepted"
  /\ \/ OpenPrints = {} /\ Moves(r, Answered)
     \/ \E p \in Prints : IsNewest(p) /\
          Moves(r, [req[r] EXCEPT !.pc = "recorded", !.bound = p])
  /\ UNCHANGED <<store, machine, up, exp, expiring, deadline, history>>

\* The printer is asked, and takes the change or refuses it.
Change(r) ==
  /\ req[r].pc = "recorded"
  /\ \/ value' = Want[r] /\ Moves(r, [req[r] EXCEPT !.pc = "changed"])
     \/ UNCHANGED value /\ Moves(r, Answered)
  /\ UNCHANGED <<store, running, due, up, exp, expiring, deadline, history>>

\* What is active on the print asked for is what this one supersedes.
Gather(r) ==
  /\ req[r].pc = "changed"
  /\ Moves(r, [req[r] EXCEPT !.pc = "gathered", !.earlier = ActiveOn(req[r].print)])
  /\ UNCHANGED <<store, machine, up, exp, expiring, deadline, history>>

Earliest(S) == {i \in S : \A j \in S : ivs[i].at <= ivs[j].at}

\* MUTANT of Prior: what the printer was read to hold, whatever is superseded.
PriorAsRead(r) == {req[r].read}

\* The prior value carried: the earliest superseded one's, or what the printer
\* was read to hold.
Prior(r) ==
  IF req[r].earlier = {} THEN {req[r].read}
  ELSE {ivs[i].prior : i \in Earliest(req[r].earlier)}

\* The intervention is written down, against the print its action is.
OpenIntervention(r) ==
  /\ req[r].pc = "gathered"
  /\ \E prior \in Prior(r) :
       ivs' = [ivs EXCEPT ![r] = [state |-> "active", print |-> req[r].bound,
                                  prior |-> prior, at |-> req[r].at, by |-> None]]
  /\ Moves(r, [req[r] EXCEPT !.pc = "opened"])
  /\ UNCHANGED <<prints, machine, up, exp, expiring, deadline, history>>

\* MUTANT of CountDown: nothing counts the intervention down.
CountDownForgotten(r) ==
  /\ req[r].pc = "opened"
  /\ Moves(r, [req[r] EXCEPT !.pc = "superseding"])
  /\ UNCHANGED <<store, machine, up, exp, expiring, deadline, history>>

\* It is counted down.
CountDown(r) ==
  /\ req[r].pc = "opened"
  /\ counting' = counting \union {r}
  /\ Moves(r, [req[r] EXCEPT !.pc = "superseding"])
  /\ UNCHANGED <<store, machine, up, exp, expiring, adopted, overdue, history>>

\* MUTANT of SettledAs: an outcome is written over whatever one won.
SettledAsAsked(i, outcome, by) == [ivs EXCEPT ![i].state = outcome, ![i].by = by]

\* `settle_intervention`: written only while nothing else has settled it.
SettledAs(i, outcome, by) ==
  IF Active(i) THEN [ivs EXCEPT ![i].state = outcome, ![i].by = by] ELSE ivs

\* Each earlier one is settled as superseded and no longer counted down.
Supersede(r) ==
  /\ req[r].pc = "superseding"
  /\ \E i \in req[r].earlier :
       /\ ivs' = SettledAs(i, "superseded", r)
       /\ counting' = counting \ {i}
       /\ Moves(r, [req[r] EXCEPT !.earlier = @ \ {i}])
  /\ UNCHANGED <<prints, machine, up, exp, expiring, adopted, overdue, history>>

Answer(r) ==
  /\ req[r].pc = "superseding" /\ req[r].earlier = {}
  /\ Moves(r, Answered)
  /\ UNCHANGED <<store, machine, up, exp, expiring, deadline, history>>

Proceed(r) ==
  \/ Record(r) \/ Change(r) \/ Gather(r)
  \/ OpenIntervention(r) \/ CountDown(r) \/ Supersede(r) \/ Answer(r)

-----------------------------------------------------------------------------
(***************************************************************************)
(* The tasks that expire interventions.  Each works through its list, one  *)
(* `expire_intervention` after another.                                    *)
(***************************************************************************)
At(e, pc) == exp[e].pc = pc
Goes(e, to) == exp' = [exp EXCEPT ![e] = to]
Next1(e) == [exp[e] EXCEPT !.pc = "next", !.it = None, !.will = "none"]

\* MUTANT of Adopting: nothing an earlier supervisor left active is taken on.
AdoptingNothing == {}

\* What the first sweep counts down: all an earlier supervisor left active.
Adopting == IF adopted THEN {} ELSE {i \in Requests : Active(i)}

\* The driver's sweep: it adopts once, and takes what is counted down and due.
Sweep ==
  /\ up \in {"starting", "up"} /\ At("driver", "idle")
  /\ adopted' = TRUE /\ counting' = counting \union Adopting
  /\ ~adopted \/ counting \intersect due # {}
  /\ Goes("driver", [Idle EXCEPT !.pc = "next", !.todo = counting' \intersect due])
  /\ UNCHANGED <<store, machine, up, req, expiring, overdue, history>>

\* `close_out_print` of a print still open that the printer shows is over, or
\* replaced by a later one: by a turn or a read, or as a start begins.  The
\* print's turn lets one close-out of it run at a time.  It lists what is
\* active on the print.
CloseOut(e, p) ==
  /\ <<e, up>> \in {<<"closer", "up">>, <<"start", "starting">>}
  /\ At(e, "idle") /\ p \in OpenPrints
  /\ ~running \/ ~IsNewest(p)
  /\ Goes(e, [Idle EXCEPT !.pc = "next", !.print = p,
                          !.todo = ActiveOn(p), !.listed = ActiveOn(p)])
  /\ UNCHANGED <<store, machine, up, req, expiring, deadline, history>>

\* MUTANT of Lock: the print's expiries are not kept apart.
LockIgnored(e, i) ==
  /\ At(e, "next") /\ i \in exp[e].todo
  /\ expiring' = [expiring EXCEPT ![ivs[i].print] = e]
  /\ Goes(e, [exp[e] EXCEPT !.pc = "checking", !.it = i, !.todo = @ \ {i}])
  /\ UNCHANGED <<store, machine, up, req, deadline, history>>

\* The next one on the list, with the expiries of its print held.
Lock(e, i) ==
  /\ At(e, "next") /\ i \in exp[e].todo
  /\ expiring[ivs[i].print] = None
  /\ expiring' = [expiring EXCEPT ![ivs[i].print] = e]
  /\ Goes(e, [exp[e] EXCEPT !.pc = "checking", !.it = i, !.todo = @ \ {i}])
  /\ UNCHANGED <<store, machine, up, req, deadline, history>>

\* MUTANT of PutsBack: the intervention is taken as it was listed.
PutsBackAsListed(i) == ivs[i].prior # None

\* Read again, an intervention settled meanwhile and one with no prior value
\* have nothing to put back.
PutsBack(i) == Active(i) /\ ivs[i].prior # None

\* A value to put back is judged against the print as it is read now, from no
\* printer state.  A refusal for the bounds or the grants of now comes to what
\* a refusal by the printer does, and is left to `Restore`.
Check(e) ==
  /\ At(e, "checking")
  /\ LET i == exp[e].it IN
     Goes(e, CASE ~PutsBack(i) ->
                    [exp[e] EXCEPT !.pc = "settling", !.will = "unavailable"]
               [] PutsBack(i) /\ prints[ivs[i].print] = "open" ->
                    [exp[e] EXCEPT !.pc = "restoring", !.will = "restored"]
               [] OTHER ->
                    [exp[e] EXCEPT !.pc = "restoring", !.will = "failed"])
  /\ UNCHANGED <<store, machine, up, req, expiring, deadline, history>>

\* The restoration is recorded against the newest open print; one accepted is
\* asked of the printer, which puts the value back or refuses.
Restore(e) ==
  /\ At(e, "restoring") /\ OpenPrints # {}
  /\ \/ /\ exp[e].will = "restored"
        /\ value' = ivs[exp[e].it].prior
        /\ putBack' = putBack \union {exp[e].it}
        /\ Goes(e, [exp[e] EXCEPT !.pc = "settling"])
     \/ /\ Goes(e, [exp[e] EXCEPT !.pc = "settling", !.will = "failed"])
        /\ UNCHANGED <<value, putBack>>
  /\ UNCHANGED <<store, running, due, up, req, expiring, deadline, crashes>>

\* The outcome is settled unless another one won, the print's expiries are let
\* go and the count is forgotten.
Settle(e) ==
  /\ At(e, "settling")
  /\ LET i == exp[e].it IN
     /\ ivs' = SettledAs(i, exp[e].will, None)
     /\ expiring' = [expiring EXCEPT ![ivs[i].print] = None]
     /\ counting' = counting \ {i}
  /\ Goes(e, Next1(e))
  /\ UNCHANGED <<prints, machine, up, req, adopted, overdue, history>>

\* With no print open the restoration cannot be recorded, and the expiry fails
\* as it stands.  A sweep and a close-out go on with the next one; the sweep
\* will come back to this one.
FailToRecord(e) ==
  /\ At(e, "restoring") /\ OpenPrints = {}
  /\ e = "start" => exp[e].print # None
  /\ expiring' = [expiring EXCEPT ![ivs[exp[e].it].print] = None]
  /\ Goes(e, Next1(e))
  /\ UNCHANGED <<store, machine, up, req, deadline, history>>

\* The sweep is over.
SweepEnds ==
  /\ At("driver", "next") /\ exp["driver"].todo = {}
  /\ Goes("driver", Idle)
  /\ UNCHANGED <<store, machine, up, req, expiring, deadline, history>>

\* MUTANT of CloseOutEnds: the print is ended before what it has running.
CloseOutEndsEarly(e) ==
  /\ At(e, "next") /\ exp[e].print # None
  /\ prints' = [prints EXCEPT ![exp[e].print] = "ended"]
  /\ Goes(e, Idle)
  /\ overdue' = {i \in overdue : ivs[i].print # exp[e].print}
  /\ UNCHANGED <<ivs, machine, up, req, expiring, counting, adopted, history>>

\* With its list done, the close-out ends the print; a start sets aside what
\* was overdue on it.
CloseOutEnds(e) ==
  /\ At(e, "next") /\ exp[e].todo = {} /\ exp[e].print # None
  /\ prints' = [prints EXCEPT ![exp[e].print] = "ended"]
  /\ Goes(e, Idle)
  /\ overdue' = {i \in overdue : ivs[i].print # exp[e].print}
  /\ UNCHANGED <<ivs, machine, up, req, expiring, counting, adopted, history>>

\* An operator closes a record whose job is over and which has no intervention
\* standing: the check, and then the end.
CheckClose(p) ==
  /\ up = "up" /\ At("operator", "idle")
  /\ p \in OpenPrints /\ (~running \/ ~IsNewest(p)) /\ ActiveOn(p) = {}
  /\ Goes("operator", [Idle EXCEPT !.pc = "closing", !.print = p])
  /\ UNCHANGED <<store, machine, up, req, expiring, deadline, history>>

CloseByOperator ==
  /\ At("operator", "closing")
  /\ prints' = [prints EXCEPT ![exp["operator"].print] = "ended"]
  /\ Goes("operator", Idle)
  /\ UNCHANGED <<ivs, machine, up, req, expiring, deadline, history>>

Expire(e) ==
  \/ \E i \in Requests : Lock(e, i)
  \/ Check(e) \/ Restore(e) \/ Settle(e) \/ FailToRecord(e) \/ CloseOutEnds(e)

-----------------------------------------------------------------------------
(***************************************************************************)
(* The server's death and its next start.                                  *)
(***************************************************************************)
\* Nothing but the store and the machine is left of a server that is gone.
Gone ==
  /\ req' = [r \in Requests |-> IF req[r].pc = "idle" THEN NoRequest ELSE Answered]
  /\ exp' = [e \in Tasks |-> Idle]
  /\ expiring' = [p \in Prints |-> None]
  /\ counting' = {} /\ adopted' = FALSE /\ overdue' = {}
  /\ putBack' = {}

Crash ==
  /\ up \in {"starting", "up"} /\ crashes < MaxCrashes
  /\ up' = "down" /\ crashes' = crashes + 1
  /\ Gone
  /\ UNCHANGED <<store, machine>>

\* A start reads what is due before its supervisor exists.
Start ==
  /\ up \in {"down", "refused"}
  /\ up' = "starting"
  /\ overdue' = {i \in due : Active(i)}
  /\ UNCHANGED <<store, machine, req, exp, expiring, counting, adopted, history>>

\* The prints the printer shows are over closed, it expires what was overdue.
Reconcile ==
  /\ up = "starting" /\ At("start", "idle")
  /\ Goes("start", [Idle EXCEPT !.pc = "next", !.todo = overdue])
  /\ overdue' = {}
  /\ UNCHANGED <<store, machine, up, req, expiring, counting, adopted, history>>

\* An expiry that fails as it stands is the reconciliation's own failure, and
\* the start is refused.
RefuseStart ==
  /\ At("start", "restoring") /\ OpenPrints = {} /\ exp["start"].print = None
  /\ up' = "refused"
  /\ Gone
  /\ UNCHANGED <<store, machine, crashes>>

\* Reconciled, the server serves.
Serve ==
  /\ At("start", "next") /\ exp["start"].todo = {} /\ exp["start"].print = None
  /\ up' = "up"
  /\ Goes("start", Idle)
  /\ UNCHANGED <<store, machine, req, expiring, deadline, history>>

Next ==
  \/ JobEnds \/ JobBegins \/ \E i \in Requests : TimePasses(i)
  \/ \E r \in Requests : Proceed(r) \/ \E p \in Prints : Accept(r, p)
  \/ Sweep \/ SweepEnds
  \/ \E e \in Tasks : Expire(e) \/ \E p \in Prints : CloseOut(e, p)
  \/ \E p \in Prints : CheckClose(p)
  \/ CloseByOperator
  \/ Crash \/ Start \/ Reconcile \/ RefuseStart \/ Serve

Spec == Init /\ [][Next]_vars

\* What is begun is carried through: a request once accepted, an expiry once
\* listed, the driver's poll, a start once the process runs, and the restart of
\* a process that died, which the service manager makes.  The clock moves.
\* Nothing obliges anybody to ask, a job to end or a close-out to begin.
Fairness ==
  /\ \A r \in Requests : WF_vars(Proceed(r)) /\ WF_vars(TimePasses(r))
  /\ \A e \in Tasks : WF_vars(Expire(e))
  /\ WF_vars(Sweep) /\ WF_vars(SweepEnds) /\ WF_vars(CloseByOperator)
  /\ WF_vars(Start) /\ WF_vars(Reconcile) /\ WF_vars(RefuseStart) /\ WF_vars(Serve)

FairSpec == Spec /\ Fairness

-----------------------------------------------------------------------------
(***************************************************************************)
(* What holds.                                                             *)
(***************************************************************************)
InterventionRecord ==
  [state : Outcomes, print : Prints \union {None}, prior : Values \union {None},
   at : Nat, by : Requests \union {None}]
RequestRecord ==
  [pc : {"idle", "accepted", "recorded", "changed", "gathered", "opened",
         "superseding", "done"},
   print : Prints \union {None}, at : Nat, read : Values \union {None},
   bound : Prints \union {None}, earlier : SUBSET Requests]
TaskRecord ==
  [pc : {"idle", "next", "checking", "restoring", "settling", "closing"},
   print : Prints \union {None}, todo : SUBSET Requests, listed : SUBSET Requests,
   it : Requests \union {None}, will : Outcomes]

TypeOK ==
  /\ prints \in [Prints -> {"unborn", "open", "ended"}]
  /\ ivs \in [Requests -> InterventionRecord]
  /\ running \in BOOLEAN /\ value \in Values /\ due \subseteq Requests
  /\ up \in {"down", "starting", "up", "refused"}
  /\ req \in [Requests -> RequestRecord]
  /\ exp \in [Tasks -> TaskRecord]
  /\ expiring \in [Prints -> Tasks \union {None}]
  /\ counting \subseteq Requests /\ adopted \in BOOLEAN /\ overdue \subseteq Requests
  /\ putBack \subseteq Requests /\ crashes \in Nat

\* Inside `expire_once`, with the print's expiries held.
Inside(e) == exp[e].pc \in {"checking", "restoring", "settling"}

\* Every intervention a request or a task is concerned with has been opened, a
\* request opens its own once, what is being put back is a value, and an expiry
\* that comes to be settled knows as what.
ListsWhatWasOpened ==
  /\ \A i \in Requests : Opened(i) => ivs[i].print \in Prints
  /\ \A r \in Requests :
       /\ req[r].pc \in {"recorded", "changed", "gathered"} => req[r].bound \in Prints
       /\ req[r].pc \in {"idle", "accepted", "recorded", "changed", "gathered"} => ~Opened(r)
       /\ req[r].pc \in {"opened", "superseding"} => Opened(r)
       /\ \A i \in req[r].earlier : Opened(i)
  /\ \A e \in Tasks :
       /\ \A i \in exp[e].todo : Opened(i)
       /\ Inside(e) => exp[e].it \in Requests /\ Opened(exp[e].it)
       /\ exp[e].pc = "restoring" => ivs[exp[e].it].prior # None
       /\ exp[e].pc \in {"restoring", "settling"} => exp[e].will # "none"
  /\ \A i \in counting \union overdue : Opened(i)

\* A task is inside `expire_once` for an intervention of a print exactly while
\* it holds that print's expiries, so no two tasks are for one print
\* (expiry.rs 389, the guard held to the end of `expire_once`).
ExpiriesAreKeptApart ==
  /\ \A e \in Tasks : Inside(e) => expiring[ivs[exp[e].it].print] = e
  /\ \A p \in Prints : expiring[p] # None =>
       Inside(expiring[p]) /\ ivs[exp[expiring[p]].it].print = p

IInv == TypeOK /\ ListsWhatWasOpened /\ ExpiriesAreKeptApart

\* actions.rs 483-486, "carries the earlier's prior value forward": whatever
\* supersedes an intervention would put back a value an intervention asked for
\* no later than it would have, never the superseded change's own.
SupersededPriorLives ==
  \A i \in Requests : ivs[i].by # None =>
    \E k \in Requests \ {ivs[i].by} :
      /\ Opened(k) /\ ivs[k].at <= ivs[i].at
      /\ ivs[ivs[i].by].prior = ivs[k].prior

\* events.rs 646-648, "the interventions are expired before the print is
\* ended": when a close-out ends an open print, nothing it found active on it
\* is active still.
CloseOutExpiresFirst ==
  [][\A e \in Tasks :
       exp[e].print # None /\ exp'[e] = Idle
       /\ prints[exp[e].print] = "open" /\ prints'[exp[e].print] = "ended"
         => \A i \in exp[e].listed : ~Active(i)]_vars

\* intervention-policy.md 147-170: an intervention is expired by the clock
\* alone and settled whatever became of the restoration, through crashes,
\* restarts and refusals, as long as there is an open print to record the
\* restoration against.
EveryChangeIsSettled ==
  \A i \in Requests : Active(i) ~> (~Active(i) \/ OpenPrints = {})

\* The store and the machine keep what BoundedChanges promises.
Abstract == INSTANCE BoundedChanges
  WITH Changes <- Requests, outcome <- [i \in Requests |-> ivs[i].state]
ImplementsBoundedChanges == Abstract!Spec

-----------------------------------------------------------------------------
(***************************************************************************)
(* What the documentation says and the code does not keep.                 *)
(***************************************************************************)
\* actions.rs 483-486 and intervention-policy.md 158-160: "restoring still
\* reaches the value the print started from".  Said here of the first print.
PriorIsTheStartingValue ==
  \A i \in Requests : Opened(i) /\ ivs[i].print = 1 => ivs[i].prior \in {None, First}

\* reconcile.rs 220-222: "an intervention that could not be expired is recorded
\* rather than answered here", so no start is refused for one.
NoExpiryRefusesAStart == up # "refused"
=============================================================================
