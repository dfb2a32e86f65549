------------------------- MODULE Interventions_proofs -------------------------
(***************************************************************************)
(* That the expiries of a print are kept apart, that what supersedes an    *)
(* intervention carries its prior value, that a close-out has expired what *)
(* it found before it ends its print, and that the whole refines           *)
(* BoundedChanges: for any requests, prints, values and number of crashes. *)
(* ExpiriesAreKeptApart is not inductive alone: a task inside              *)
(* `expire_once` must be concerned with an intervention whose print no     *)
(* request can rewrite, which is what ListsWhatWasOpened adds.             *)
(***************************************************************************)
EXTENDS Interventions, FiniteSetTheorems, TLAPS

\* There is a print.
LEMMA PrintsExist == 1 \in Prints
BY Constants DEF Prints

\* None is no task.
LEMMA NoTaskIsNone == None \notin Tasks
BY Constants DEF Tasks

\* A request that goes on keeps a request's record.
LEMMA RequestRecords ==
  ASSUME NEW q \in RequestRecord, NEW p \in Prints, NEW S \in SUBSET Requests
  PROVE  /\ Answered \in RequestRecord
         /\ [q EXCEPT !.pc = "recorded", !.bound = p] \in RequestRecord
         /\ [q EXCEPT !.pc = "gathered", !.earlier = S] \in RequestRecord
         /\ [q EXCEPT !.earlier = S] \in RequestRecord
<1>1. Answered \in RequestRecord
  BY DEF Answered, NoRequest, RequestRecord
<1>2. [q EXCEPT !.pc = "recorded", !.bound = p] \in RequestRecord
  BY DEF RequestRecord
<1>3. [q EXCEPT !.pc = "gathered", !.earlier = S] \in RequestRecord
  BY DEF RequestRecord
<1>4. [q EXCEPT !.earlier = S] \in RequestRecord
  BY DEF RequestRecord
<1> QED
  BY <1>1, <1>2, <1>3, <1>4

\* The same of a task that takes the next intervention, or leaves one.
LEMMA TaskRecords ==
  ASSUME NEW t \in TaskRecord, NEW i \in Requests
  PROVE  /\ [t EXCEPT !.pc = "checking", !.it = i, !.todo = @ \ {i}] \in TaskRecord
         /\ [t EXCEPT !.pc = "next", !.it = None, !.will = "none"] \in TaskRecord
<1>1. [t EXCEPT !.pc = "checking", !.it = i, !.todo = @ \ {i}] \in TaskRecord
  BY DEF TaskRecord
<1>2. [t EXCEPT !.pc = "next", !.it = None, !.will = "none"] \in TaskRecord
  BY DEF TaskRecord, Outcomes
<1> QED
  BY <1>1, <1>2

\* memory.rs 288-322: settling writes an outcome and who superseded it, and
\* leaves what was opened, where and from which value as it was.
LEMMA SettlingKeepsTheRest ==
  ASSUME TypeOK, NEW i \in Requests, NEW outcome \in Outcomes \ {"none"},
         NEW by \in Requests \union {None}
  PROVE  /\ SettledAs(i, outcome, by) \in [Requests -> InterventionRecord]
         /\ \A j \in Requests :
              /\ SettledAs(i, outcome, by)[j].print = ivs[j].print
              /\ SettledAs(i, outcome, by)[j].prior = ivs[j].prior
              /\ SettledAs(i, outcome, by)[j].state # "none" <=> ivs[j].state # "none"
<1>1. CASE ~Active(i)
  BY <1>1 DEF SettledAs, TypeOK
<1>2. CASE Active(i)
  <2> DEFINE rec == [ivs[i] EXCEPT !.state = outcome, !.by = by]
  <2>1. SettledAs(i, outcome, by) = [ivs EXCEPT ![i] = rec]
    BY <1>2 DEF SettledAs, TypeOK
  <2>2. rec \in InterventionRecord
    BY ZenonT(30) DEF TypeOK, InterventionRecord
  <2>3. /\ rec.print = ivs[i].print /\ rec.prior = ivs[i].prior
        /\ rec.state # "none" /\ ivs[i].state # "none"
    BY <1>2 DEF Active, TypeOK, InterventionRecord
  <2> QED
    BY <2>1, <2>2, <2>3 DEF TypeOK
<1> QED
  BY <1>1, <1>2

\* A task that leaves `expire_once` lets go the expiries of its own print, and
\* no other's.
LEMMA LettingGo ==
  ASSUME IInv, NEW e \in Tasks, Inside(e),
         \A j \in Requests : ivs'[j].print = ivs[j].print,
         exp' = [exp EXCEPT ![e] = Next1(e)],
         expiring' = [expiring EXCEPT ![ivs[exp[e].it].print] = None]
  PROVE  ExpiriesAreKeptApart'
<1>1. ~Inside(e)' /\ \A f \in Tasks \ {e} : exp'[f] = exp[f]
  BY DEF Next1, IInv, TypeOK, TaskRecord, Inside
<1>2. \A f \in Tasks : Inside(f) =>
        exp[f].it \in Requests /\ ivs[exp[f].it].print \in Prints
  BY DEF IInv, ListsWhatWasOpened
<1>3. expiring[ivs[exp[e].it].print] = e
  BY DEF IInv, ExpiriesAreKeptApart
<1>4. ASSUME NEW f \in Tasks, Inside(f)' PROVE (expiring[ivs[exp[f].it].print] = f)'
  <2>1. f # e /\ Inside(f) /\ exp'[f] = exp[f]
    BY <1>1, <1>4 DEF Inside
  <2>2. expiring[ivs[exp[f].it].print] = f
    BY <2>1 DEF IInv, ExpiriesAreKeptApart
  <2> QED
    BY <1>2, <1>3, <2>1, <2>2 DEF IInv, TypeOK
<1>5. ASSUME NEW p \in Prints, expiring'[p] # None
      PROVE  Inside(expiring[p])' /\ (ivs[exp[expiring[p]].it].print = p)'
  <2>1. expiring'[p] = expiring[p] /\ expiring[p] # e
    BY <1>2, <1>3, <1>5 DEF IInv, TypeOK, ExpiriesAreKeptApart
  <2>2. expiring[p] \in Tasks
    BY <1>5, <2>1 DEF IInv, TypeOK
  <2>3. exp'[expiring[p]] = exp[expiring[p]]
    BY <1>1, <2>1, <2>2
  <2> QED
    BY <1>2, <1>5, <2>1, <2>2, <2>3 DEF IInv, ExpiriesAreKeptApart, Inside
<1> QED
  BY <1>4, <1>5 DEF ExpiriesAreKeptApart

\* The first print's supervision begins with nothing opened.
LEMMA InitIInv == Init => IInv
<1> SUFFICES ASSUME Init PROVE IInv
  OBVIOUS
<1>1. NoIntervention \in InterventionRecord /\ NoRequest \in RequestRecord /\ Idle \in TaskRecord
  BY DEF NoIntervention, NoRequest, Idle, InterventionRecord, RequestRecord, TaskRecord,
     Outcomes
<1>2. TypeOK
  BY <1>1, Constants DEF Init, TypeOK
<1>3. ListsWhatWasOpened
  BY DEF Init, ListsWhatWasOpened, NoIntervention, NoRequest, Idle, Inside, Opened
<1>4. ExpiriesAreKeptApart
  BY DEF Init, ExpiriesAreKeptApart, Idle, Inside
<1> QED
  BY <1>2, <1>3, <1>4 DEF IInv

\* Every step of a request, an expiring task, the machine or the server keeps it.
LEMMA StepIInv == IInv /\ [Next]_vars => IInv'
<1> SUFFICES ASSUME IInv, [Next]_vars PROVE IInv'
  OBVIOUS
<1>a. TypeOK /\ ListsWhatWasOpened /\ ExpiriesAreKeptApart
  BY DEF IInv
<1> USE <1>a, Constants
<1>1. ASSUME JobEnds PROVE IInv'
  <2>1. TypeOK'
    BY <1>1 DEF JobEnds, store, machine, deadline, history, TypeOK, Tasks,
       ListsWhatWasOpened
  <2>2. ListsWhatWasOpened'
    BY <1>1 DEF JobEnds, store, machine, deadline, history, TypeOK, InterventionRecord,
       RequestRecord, TaskRecord,
       ListsWhatWasOpened, Inside, Opened, Active, Tasks
  <2>3. ExpiriesAreKeptApart'
    BY <1>1 DEF JobEnds, store, machine, deadline, history, TypeOK, InterventionRecord,
       RequestRecord, TaskRecord,
       ListsWhatWasOpened, ExpiriesAreKeptApart, Inside, Opened, Tasks
  <2> QED
    BY <2>1, <2>2, <2>3 DEF IInv
<1>2. ASSUME JobBegins PROVE IInv'
  <2>1. TypeOK'
    BY <1>2 DEF JobBegins, store, machine, deadline, history, TypeOK, Tasks,
       ListsWhatWasOpened
  <2>2. ListsWhatWasOpened'
    BY <1>2 DEF JobBegins, store, machine, deadline, history, TypeOK, InterventionRecord,
       RequestRecord, TaskRecord,
       ListsWhatWasOpened, Inside, Opened, Active, Tasks
  <2>3. ExpiriesAreKeptApart'
    BY <1>2 DEF JobBegins, store, machine, deadline, history, TypeOK, InterventionRecord,
       RequestRecord, TaskRecord,
       ListsWhatWasOpened, ExpiriesAreKeptApart, Inside, Opened, Tasks
  <2> QED
    BY <2>1, <2>2, <2>3 DEF IInv
<1>3. ASSUME NEW i \in Requests, TimePasses(i) PROVE IInv'
  <2>1. TypeOK'
    BY <1>3 DEF TimePasses, store, machine, deadline, history, TypeOK, Tasks,
       ListsWhatWasOpened
  <2>2. ListsWhatWasOpened'
    BY <1>3 DEF TimePasses, store, machine, deadline, history, TypeOK, InterventionRecord,
       RequestRecord, TaskRecord,
       ListsWhatWasOpened, Inside, Opened, Active, Tasks
  <2>3. ExpiriesAreKeptApart'
    BY <1>3 DEF TimePasses, store, machine, deadline, history, TypeOK, InterventionRecord,
       RequestRecord, TaskRecord,
       ListsWhatWasOpened, ExpiriesAreKeptApart, Inside, Opened, Tasks
  <2> QED
    BY <2>1, <2>2, <2>3 DEF IInv
<1>4. ASSUME NEW r \in Requests, NEW p \in Prints, Accept(r, p) PROVE IInv'
  <2>a. req' \in [Requests -> RequestRecord]
    <3>1. PICK read \in {value, None} : req' = [req EXCEPT ![r] = [NoRequest EXCEPT
              !.pc = "accepted", !.print = p, !.read = read,
              !.at = Cardinality({q \in Requests : req[q].pc # "idle"})]]
      BY <1>4 DEF Accept, Moves
    <3>2. Cardinality({q \in Requests : req[q].pc # "idle"}) \in Nat
      BY FS_Subset, FS_CardinalityType DEF Constants
    <3>3. [NoRequest EXCEPT !.pc = "accepted", !.print = p, !.read = read,
              !.at = Cardinality({q \in Requests : req[q].pc # "idle"})] \in RequestRecord
      BY <3>2 DEF NoRequest, TypeOK, RequestRecord
    <3> QED
      BY <3>1, <3>3 DEF TypeOK
  <2>1. TypeOK'
    BY <1>4, <2>a DEF Accept, store, machine, deadline, history, Moves, NoRequest, TypeOK,
       Tasks, ListsWhatWasOpened
  <2>2. ListsWhatWasOpened'
    BY <1>4 DEF Accept, store, machine, deadline, history, Moves, NoRequest, TypeOK,
       InterventionRecord, RequestRecord, TaskRecord,
       ListsWhatWasOpened, Inside, Opened, Active, Tasks
  <2>3. ExpiriesAreKeptApart'
    BY <1>4 DEF Accept, store, machine, deadline, history, Moves, NoRequest, TypeOK,
       InterventionRecord, RequestRecord, TaskRecord,
       ListsWhatWasOpened, ExpiriesAreKeptApart, Inside, Opened, Tasks
  <2> QED
    BY <2>1, <2>2, <2>3 DEF IInv
<1>5. ASSUME NEW r \in Requests, Record(r) PROVE IInv'
  <2>a. req' \in [Requests -> RequestRecord]
    <3>1. \A p \in Prints : [req[r] EXCEPT !.pc = "recorded", !.bound = p] \in RequestRecord
      BY RequestRecords DEF TypeOK
    <3>2. Answered \in RequestRecord
      BY DEF Answered, NoRequest, RequestRecord
    <3>3. \/ req' = [req EXCEPT ![r] = Answered]
          \/ \E p \in Prints : req' = [req EXCEPT ![r] = [req[r] EXCEPT !.pc = "recorded", !.bound = p]]
      BY <1>5 DEF Record, Moves
    <3>4. CASE req' = [req EXCEPT ![r] = Answered]
      BY <3>2, <3>4 DEF TypeOK
    <3>5. ASSUME NEW p \in Prints, req' = [req EXCEPT ![r] = [req[r] EXCEPT !.pc = "recorded", !.bound = p]]
          PROVE  req' \in [Requests -> RequestRecord]
      <4> DEFINE to == [req[r] EXCEPT !.pc = "recorded", !.bound = p]
      <4>1. to \in RequestRecord
        BY <3>1
      <4>2. req' = [req EXCEPT ![r] = to]
        BY <3>5
      <4> HIDE DEF to
      <4> QED
        BY <4>1, <4>2 DEF TypeOK
    <3> QED
      BY <3>3, <3>4, <3>5
  <2>1. TypeOK'
    BY <1>5, <2>a DEF Record, store, machine, deadline, history, Moves, Answered,
       NoRequest, TypeOK, Tasks, ListsWhatWasOpened
  <2>2. ListsWhatWasOpened'
    <3>1. UNCHANGED <<ivs, exp, counting, overdue>> /\ req[r].pc = "accepted"
      BY <1>5 DEF Record, store, deadline
    <3>2. CASE req' = [req EXCEPT ![r] = Answered]
      BY <3>1, <3>2 DEF Answered, NoRequest, TypeOK, ListsWhatWasOpened, Inside, Opened
    <3>3. ASSUME NEW p \in Prints,
                 req' = [req EXCEPT ![r] = [req[r] EXCEPT !.pc = "recorded", !.bound = p]]
          PROVE  ListsWhatWasOpened'
      <4> DEFINE to == [req[r] EXCEPT !.pc = "recorded", !.bound = p]
      <4>1. /\ req'[r] = to /\ \A q \in Requests \ {r} : req'[q] = req[q]
        BY <3>3 DEF TypeOK
      <4>2. to.pc = "recorded" /\ to.bound = p /\ to.earlier = req[r].earlier
        BY DEF TypeOK, RequestRecord
      <4> HIDE DEF to
      <4> QED
        BY <3>1, <4>1, <4>2 DEF ListsWhatWasOpened, Inside, Opened
    <3> QED
      BY <1>5, <3>2, <3>3 DEF Record, Moves
  <2>3. ExpiriesAreKeptApart'
    BY <1>5 DEF Record, store, machine, deadline, history, Moves, Answered, NoRequest,
       TypeOK, InterventionRecord, RequestRecord, TaskRecord,
       ListsWhatWasOpened, ExpiriesAreKeptApart, Inside, Opened, Tasks
  <2> QED
    BY <2>1, <2>2, <2>3 DEF IInv
<1>6. ASSUME NEW r \in Requests, Change(r) PROVE IInv'
  <2>a. req' \in [Requests -> RequestRecord]
    <3>1. Answered \in RequestRecord
      BY DEF Answered, NoRequest, RequestRecord
    <3>2. [req[r] EXCEPT !.pc = "changed"] \in RequestRecord
      BY SMTT(20) DEF TypeOK, RequestRecord
    <3> QED
      BY <1>6, <3>1, <3>2 DEF Change, Moves, TypeOK
  <2>1. TypeOK'
    BY <1>6, <2>a DEF Change, store, machine, deadline, history, Moves, Answered,
       NoRequest, TypeOK, Tasks, ListsWhatWasOpened
  <2>2. ListsWhatWasOpened'
    <3>1. UNCHANGED <<ivs, exp, counting, overdue>> /\ req[r].pc = "recorded"
      BY <1>6 DEF Change, store, deadline
    <3>2. CASE req' = [req EXCEPT ![r] = Answered]
      BY <3>1, <3>2 DEF Answered, NoRequest, TypeOK, ListsWhatWasOpened, Inside, Opened
    <3>3. CASE req' = [req EXCEPT ![r] = [req[r] EXCEPT !.pc = "changed"]]
      <4>1. /\ req'[r].pc = "changed" /\ req'[r].bound = req[r].bound
            /\ req'[r].earlier = req[r].earlier
            /\ \A q \in Requests \ {r} : req'[q] = req[q]
        BY <3>3 DEF TypeOK, RequestRecord
      <4> QED
        BY <3>1, <4>1 DEF ListsWhatWasOpened, Inside, Opened
    <3> QED
      BY <1>6, <3>2, <3>3 DEF Change, Moves
  <2>3. ExpiriesAreKeptApart'
    BY <1>6 DEF Change, store, machine, deadline, history, Moves, Answered, NoRequest,
       TypeOK, InterventionRecord, RequestRecord, TaskRecord,
       ListsWhatWasOpened, ExpiriesAreKeptApart, Inside, Opened, Tasks
  <2> QED
    BY <2>1, <2>2, <2>3 DEF IInv
<1>7. ASSUME NEW r \in Requests, Gather(r) PROVE IInv'
  <2>a. req' \in [Requests -> RequestRecord]
    <3>1. ActiveOn(req[r].print) \subseteq Requests
      BY DEF ActiveOn
    <3>2. [req[r] EXCEPT !.pc = "gathered", !.earlier = ActiveOn(req[r].print)] \in RequestRecord
      BY <3>1, RequestRecords, PrintsExist DEF TypeOK
    <3> QED
      BY <1>7, <3>2 DEF Gather, Moves, TypeOK
  <2>1. TypeOK'
    BY <1>7, <2>a DEF Gather, store, machine, deadline, history, Moves, ActiveOn, TypeOK,
       Tasks, ListsWhatWasOpened
  <2>2. ListsWhatWasOpened'
    BY <1>7 DEF Gather, store, machine, deadline, history, Moves, ActiveOn, TypeOK,
       InterventionRecord, RequestRecord, TaskRecord,
       ListsWhatWasOpened, Inside, Opened, Active, Tasks
  <2>3. ExpiriesAreKeptApart'
    BY <1>7 DEF Gather, store, machine, deadline, history, Moves, ActiveOn, TypeOK,
       InterventionRecord, RequestRecord, TaskRecord,
       ListsWhatWasOpened, ExpiriesAreKeptApart, Inside, Opened, Tasks
  <2> QED
    BY <2>1, <2>2, <2>3 DEF IInv
<1>8. ASSUME NEW r \in Requests, OpenIntervention(r) PROVE IInv'
  <2>a. req' \in [Requests -> RequestRecord]
    <3>1. [req[r] EXCEPT !.pc = "opened"] \in RequestRecord
      BY DEF TypeOK, RequestRecord
    <3> QED
      BY <1>8, <3>1 DEF OpenIntervention, Moves, TypeOK
  <2>c. ivs' \in [Requests -> InterventionRecord]
    <3>1. PICK prior \in Prior(r) :
            ivs' = [ivs EXCEPT ![r] = [state |-> "active", print |-> req[r].bound,
                                       prior |-> prior, at |-> req[r].at, by |-> None]]
      BY <1>8 DEF OpenIntervention
    <3>2. prior \in Values \union {None}
      BY <3>1 DEF Prior, Earliest, TypeOK, InterventionRecord, RequestRecord
    <3>3. [state |-> "active", print |-> req[r].bound, prior |-> prior,
           at |-> req[r].at, by |-> None] \in InterventionRecord
      BY <3>2 DEF TypeOK, InterventionRecord, RequestRecord, Outcomes
    <3> QED
      BY <3>1, <3>3 DEF TypeOK
  <2>1. TypeOK'
    BY <1>8, <2>a, <2>c DEF OpenIntervention, store, machine, deadline, history, Moves,
       Prior, Earliest, TypeOK, Tasks, ListsWhatWasOpened
  <2>2. ListsWhatWasOpened'
    BY <1>8 DEF OpenIntervention, store, machine, deadline, history, Moves, Prior,
       Earliest, TypeOK, InterventionRecord, RequestRecord, TaskRecord,
       ListsWhatWasOpened, Inside, Opened, Active, Tasks
  <2>3. ExpiriesAreKeptApart'
    BY <1>8 DEF OpenIntervention, store, machine, deadline, history, Moves, Prior,
       Earliest, TypeOK, InterventionRecord, RequestRecord, TaskRecord,
       ListsWhatWasOpened, ExpiriesAreKeptApart, Inside, Opened, Tasks
  <2> QED
    BY <2>1, <2>2, <2>3 DEF IInv
<1>9. ASSUME NEW r \in Requests, CountDown(r) PROVE IInv'
  <2>a. req' \in [Requests -> RequestRecord]
    <3>1. [req[r] EXCEPT !.pc = "superseding"] \in RequestRecord
      BY DEF TypeOK, RequestRecord
    <3> QED
      BY <1>9, <3>1 DEF CountDown, Moves, TypeOK
  <2>1. TypeOK'
    BY <1>9, <2>a DEF CountDown, store, machine, deadline, history, Moves, TypeOK, Tasks,
       ListsWhatWasOpened
  <2>2. ListsWhatWasOpened'
    BY <1>9 DEF CountDown, store, machine, deadline, history, Moves, TypeOK,
       InterventionRecord, RequestRecord, TaskRecord,
       ListsWhatWasOpened, Inside, Opened, Active, Tasks
  <2>3. ExpiriesAreKeptApart'
    BY <1>9 DEF CountDown, store, machine, deadline, history, Moves, TypeOK,
       InterventionRecord, RequestRecord, TaskRecord,
       ListsWhatWasOpened, ExpiriesAreKeptApart, Inside, Opened, Tasks
  <2> QED
    BY <2>1, <2>2, <2>3 DEF IInv
<1>10. ASSUME NEW r \in Requests, Supersede(r) PROVE IInv'
  <2>a. req' \in [Requests -> RequestRecord]
    <3>1. ASSUME NEW i \in req[r].earlier
          PROVE  [req[r] EXCEPT !.earlier = @ \ {i}] \in RequestRecord
      BY SMTT(20) DEF TypeOK, RequestRecord
    <3> QED
      BY <1>10, <3>1 DEF Supersede, Moves, TypeOK
  <2>c. ivs' \in [Requests -> InterventionRecord]
    <3>1. \A i \in req[r].earlier : i \in Requests
      BY DEF TypeOK, RequestRecord
    <3>2. "superseded" \in Outcomes \ {"none"}
      BY DEF Outcomes
    <3>3. PICK i \in req[r].earlier : ivs' = SettledAs(i, "superseded", r)
      BY <1>10 DEF Supersede
    <3> QED
      BY <3>1, <3>2, <3>3, SettlingKeepsTheRest
  <2>1. TypeOK'
    BY <1>10, <2>a, <2>c DEF Supersede, store, machine, deadline, history, Moves,
       SettledAs, TypeOK, Tasks, ListsWhatWasOpened
  <2>2. ListsWhatWasOpened'
    BY <1>10 DEF Supersede, store, machine, deadline, history, Moves, SettledAs, TypeOK,
       InterventionRecord, RequestRecord, TaskRecord,
       ListsWhatWasOpened, Inside, Opened, Active, Tasks
  <2>3. ExpiriesAreKeptApart'
    BY <1>10 DEF Supersede, store, machine, deadline, history, Moves, SettledAs, TypeOK,
       InterventionRecord, RequestRecord, TaskRecord,
       ListsWhatWasOpened, ExpiriesAreKeptApart, Inside, Opened, Tasks
  <2> QED
    BY <2>1, <2>2, <2>3 DEF IInv
<1>11. ASSUME NEW r \in Requests, Answer(r) PROVE IInv'
  <2>a. req' \in [Requests -> RequestRecord]
    <3>1. Answered \in RequestRecord
      BY DEF Answered, NoRequest, RequestRecord
    <3> QED
      BY <1>11, <3>1 DEF Answer, Moves, TypeOK
  <2>1. TypeOK'
    BY <1>11, <2>a DEF Answer, store, machine, deadline, history, Moves, Answered,
       NoRequest, TypeOK, Tasks, ListsWhatWasOpened
  <2>2. ListsWhatWasOpened'
    BY <1>11 DEF Answer, store, machine, deadline, history, Moves, Answered, NoRequest,
       TypeOK, InterventionRecord, RequestRecord, TaskRecord,
       ListsWhatWasOpened, Inside, Opened, Active, Tasks
  <2>3. ExpiriesAreKeptApart'
    BY <1>11 DEF Answer, store, machine, deadline, history, Moves, Answered, NoRequest,
       TypeOK, InterventionRecord, RequestRecord, TaskRecord,
       ListsWhatWasOpened, ExpiriesAreKeptApart, Inside, Opened, Tasks
  <2> QED
    BY <2>1, <2>2, <2>3 DEF IInv
<1>12. ASSUME Sweep PROVE IInv'
  <2>b. exp' \in [Tasks -> TaskRecord]
    BY <1>12 DEF Sweep, store, machine, deadline, history, At, Goes, Idle, Adopting,
       TypeOK, TaskRecord, Outcomes, Tasks
  <2>1. TypeOK'
    BY <1>12, <2>b DEF Sweep, store, machine, deadline, history, At, Goes, Idle, Adopting,
       TypeOK, Tasks, ListsWhatWasOpened
  <2>2. ListsWhatWasOpened'
    BY <1>12 DEF Sweep, store, machine, deadline, history, At, Goes, Idle, Adopting,
       TypeOK, InterventionRecord, RequestRecord, TaskRecord,
       ListsWhatWasOpened, Inside, Opened, Active, Tasks
  <2>3. ExpiriesAreKeptApart'
    BY <1>12 DEF Sweep, store, machine, deadline, history, At, Goes, Idle, Adopting,
       TypeOK, InterventionRecord, RequestRecord, TaskRecord,
       ListsWhatWasOpened, ExpiriesAreKeptApart, Inside, Opened, Tasks
  <2> QED
    BY <2>1, <2>2, <2>3 DEF IInv
<1>13. ASSUME SweepEnds PROVE IInv'
  <2>b. exp' \in [Tasks -> TaskRecord]
    BY <1>13 DEF SweepEnds, store, machine, deadline, history, At, Goes, Idle, TypeOK,
       TaskRecord, Outcomes, Tasks
  <2>1. TypeOK'
    BY <1>13, <2>b DEF SweepEnds, store, machine, deadline, history, At, Goes, Idle,
       TypeOK, Tasks, ListsWhatWasOpened
  <2>2. ListsWhatWasOpened'
    BY <1>13 DEF SweepEnds, store, machine, deadline, history, At, Goes, Idle, TypeOK,
       InterventionRecord, RequestRecord, TaskRecord,
       ListsWhatWasOpened, Inside, Opened, Active, Tasks
  <2>3. ExpiriesAreKeptApart'
    BY <1>13 DEF SweepEnds, store, machine, deadline, history, At, Goes, Idle, TypeOK,
       InterventionRecord, RequestRecord, TaskRecord,
       ListsWhatWasOpened, ExpiriesAreKeptApart, Inside, Opened, Tasks
  <2> QED
    BY <2>1, <2>2, <2>3 DEF IInv
<1>14. ASSUME NEW e \in Tasks, NEW p \in Prints, CloseOut(e, p) PROVE IInv'
  <2>b. exp' \in [Tasks -> TaskRecord]
    BY <1>14 DEF CloseOut, store, machine, deadline, history, At, Goes, Idle, ActiveOn,
       TypeOK, TaskRecord, Outcomes, Tasks
  <2>1. TypeOK'
    BY <1>14, <2>b DEF CloseOut, store, machine, deadline, history, At, Goes, Idle,
       ActiveOn, TypeOK, Tasks, ListsWhatWasOpened
  <2>2. ListsWhatWasOpened'
    BY <1>14 DEF CloseOut, store, machine, deadline, history, At, Goes, Idle, ActiveOn,
       TypeOK, InterventionRecord, RequestRecord, TaskRecord,
       ListsWhatWasOpened, Inside, Opened, Active, Tasks
  <2>3. ExpiriesAreKeptApart'
    BY <1>14 DEF CloseOut, store, machine, deadline, history, At, Goes, Idle, ActiveOn,
       TypeOK, InterventionRecord, RequestRecord, TaskRecord,
       ListsWhatWasOpened, ExpiriesAreKeptApart, Inside, Opened, Tasks
  <2> QED
    BY <2>1, <2>2, <2>3 DEF IInv
<1>15. ASSUME NEW e \in Tasks, NEW i \in Requests, Lock(e, i) PROVE IInv'
  <2>b. exp' \in [Tasks -> TaskRecord]
    <3>1. [exp[e] EXCEPT !.pc = "checking", !.it = i, !.todo = @ \ {i}] \in TaskRecord
      BY TaskRecords DEF TypeOK
    <3> QED
      BY <1>15, <3>1 DEF Lock, Goes, TypeOK
  <2>1. TypeOK'
    BY <1>15, <2>b DEF Lock, store, machine, deadline, history, At, Goes, TypeOK, Tasks,
       ListsWhatWasOpened
  <2>2. ListsWhatWasOpened'
    BY <1>15 DEF Lock, store, machine, deadline, history, At, Goes, TypeOK,
       InterventionRecord, RequestRecord, TaskRecord,
       ListsWhatWasOpened, Inside, Opened, Active, Tasks
  <2>3. ExpiriesAreKeptApart'
    BY <1>15 DEF Lock, store, machine, deadline, history, At, Goes, TypeOK,
       InterventionRecord, RequestRecord, TaskRecord,
       ListsWhatWasOpened, ExpiriesAreKeptApart, Inside, Opened, Tasks
  <2> QED
    BY <2>1, <2>2, <2>3 DEF IInv
<1>16. ASSUME NEW e \in Tasks, Check(e) PROVE IInv'
  <2>b. exp' \in [Tasks -> TaskRecord]
    <3>1. /\ [exp[e] EXCEPT !.pc = "settling", !.will = "unavailable"] \in TaskRecord
          /\ [exp[e] EXCEPT !.pc = "restoring", !.will = "restored"] \in TaskRecord
          /\ [exp[e] EXCEPT !.pc = "restoring", !.will = "failed"] \in TaskRecord
      BY ZenonT(30) DEF TypeOK, TaskRecord, Outcomes
    <3> QED
      BY <1>16, <3>1 DEF Check, Goes, TypeOK
  <2>1. TypeOK'
    BY <1>16, <2>b DEF Check, store, machine, deadline, history, At, Goes, PutsBack,
       TypeOK, Tasks, ListsWhatWasOpened
  <2>2. ListsWhatWasOpened'
    <3>1. /\ exp'[e].pc \in {"restoring", "settling"} /\ exp'[e].will # "none"
          /\ exp'[e].it = exp[e].it /\ exp'[e].todo = exp[e].todo
          /\ \A f \in Tasks \ {e} : exp'[f] = exp[f]
      BY <1>16 DEF Check, At, Goes, TypeOK, TaskRecord
    <3>2. exp'[e].pc = "restoring" => ivs[exp[e].it].prior # None
      BY <1>16 DEF Check, At, Goes, PutsBack, TypeOK, TaskRecord
    <3>3. UNCHANGED <<ivs, req, counting, overdue>> /\ exp[e].pc = "checking"
      BY <1>16 DEF Check, At, store, deadline
    <3> QED
      BY <3>1, <3>2, <3>3 DEF ListsWhatWasOpened, Inside, Opened
  <2>3. ExpiriesAreKeptApart'
    <3>1. /\ Inside(e) /\ Inside(e)' /\ exp'[e].it = exp[e].it
          /\ \A f \in Tasks \ {e} : exp'[f] = exp[f]
          /\ UNCHANGED <<ivs, expiring>>
      BY <1>16 DEF Check, store, At, Goes, TypeOK, TaskRecord, Inside
    <3>2. \A f \in Tasks : (Inside(f)' <=> Inside(f)) /\ exp'[f].it = exp[f].it
      BY <3>1 DEF Inside
    <3>3. \A p \in Prints : expiring[p] \in Tasks \union {None}
      BY DEF TypeOK
    <3> QED
      BY <3>1, <3>2, <3>3 DEF ExpiriesAreKeptApart
  <2> QED
    BY <2>1, <2>2, <2>3 DEF IInv
<1>17. ASSUME NEW e \in Tasks, Restore(e) PROVE IInv'
  <2>b. exp' \in [Tasks -> TaskRecord]
    <3>1. /\ [exp[e] EXCEPT !.pc = "settling"] \in TaskRecord
          /\ [exp[e] EXCEPT !.pc = "settling", !.will = "failed"] \in TaskRecord
      BY ZenonT(30) DEF TypeOK, TaskRecord, Outcomes
    <3> QED
      BY <1>17, <3>1 DEF Restore, Goes, TypeOK
  <2>1. TypeOK'
    <3>1. exp[e].it \in Requests /\ ivs[exp[e].it].prior \in Values
      BY <1>17 DEF Restore, At, ListsWhatWasOpened, Inside, TypeOK, InterventionRecord
    <3>2. value' \in Values /\ putBack' \subseteq Requests
      BY <1>17, <3>1 DEF Restore, TypeOK
    <3> QED
      BY <1>17, <2>b, <3>2 DEF Restore, store, deadline, TypeOK
  <2>2. ListsWhatWasOpened'
    <3>1. PICK will \in {exp[e].will, "failed"} :
            exp' = [exp EXCEPT ![e] = [exp[e] EXCEPT !.pc = "settling", !.will = will]]
      <4>1. [exp[e] EXCEPT !.pc = "settling"]
              = [exp[e] EXCEPT !.pc = "settling", !.will = exp[e].will]
        BY DEF TypeOK, TaskRecord
      <4> QED
        BY <1>17, <4>1 DEF Restore, Goes
    <3>2. /\ exp'[e].pc = "settling" /\ exp'[e].it = exp[e].it /\ exp'[e].todo = exp[e].todo
          /\ exp'[e].will = will
          /\ \A f \in Tasks \ {e} : exp'[f] = exp[f]
      BY <3>1 DEF TypeOK, TaskRecord
    <3>3. UNCHANGED <<ivs, req, counting, overdue>> /\ exp[e].pc = "restoring"
      BY <1>17 DEF Restore, At, store, deadline
    <3>4. will # "none"
      BY <3>3 DEF ListsWhatWasOpened
    <3> QED
      BY <3>2, <3>3, <3>4 DEF ListsWhatWasOpened, Inside, Opened
  <2>3. ExpiriesAreKeptApart'
    <3>1. /\ exp'[e].pc = "settling" /\ exp'[e].it = exp[e].it
          /\ \A f \in Tasks \ {e} : exp'[f] = exp[f]
      <4>1. CASE Goes(e, [exp[e] EXCEPT !.pc = "settling"])
        BY <4>1 DEF Goes, TypeOK, TaskRecord
      <4>2. CASE Goes(e, [exp[e] EXCEPT !.pc = "settling", !.will = "failed"])
        BY <4>2 DEF Goes, TypeOK, TaskRecord
      <4> QED
        BY <1>17, <4>1, <4>2 DEF Restore
    <3>2. UNCHANGED <<ivs, expiring>> /\ exp[e].pc = "restoring"
      BY <1>17 DEF Restore, At, store
    <3> QED
      BY <3>1, <3>2, NoTaskIsNone DEF ExpiriesAreKeptApart, Inside, TypeOK
  <2> QED
    BY <2>1, <2>2, <2>3 DEF IInv
<1>18. ASSUME NEW e \in Tasks, Settle(e) PROVE IInv'
  <2>b. exp' \in [Tasks -> TaskRecord]
    <3>1. exp[e].it \in Requests
      BY <1>18 DEF Settle, At, ListsWhatWasOpened, Inside
    <3>2. Next1(e) \in TaskRecord
      BY <3>1, TaskRecords DEF TypeOK, Next1
    <3> QED
      BY <1>18, <3>2 DEF Settle, Goes, TypeOK
  <2>c. ivs' \in [Requests -> InterventionRecord]
    <3>1. exp[e].it \in Requests /\ exp[e].will \in Outcomes \ {"none"}
      BY <1>18 DEF Settle, At, ListsWhatWasOpened, Inside, TypeOK, TaskRecord
    <3> QED
      BY <1>18, <3>1, SettlingKeepsTheRest DEF Settle
  <2>1. TypeOK'
    BY <1>18, <2>b, <2>c DEF Settle, store, machine, deadline, history, At, Goes, Next1,
       SettledAs, TypeOK, Tasks, ListsWhatWasOpened
  <2>2. ListsWhatWasOpened'
    <3>1. exp[e].it \in Requests /\ exp[e].will \in Outcomes \ {"none"}
      BY <1>18 DEF Settle, At, ListsWhatWasOpened, Inside, TypeOK, TaskRecord
    <3>2. \A j \in Requests :
             /\ ivs'[j].print = ivs[j].print /\ ivs'[j].prior = ivs[j].prior
             /\ ivs'[j].state # "none" <=> ivs[j].state # "none"
      BY <1>18, <3>1, SettlingKeepsTheRest DEF Settle
    <3>3. /\ exp' = [exp EXCEPT ![e] = Next1(e)] /\ req' = req
          /\ counting' \subseteq counting /\ overdue' = overdue
      BY <1>18 DEF Settle, Goes
    <3>4. /\ exp'[e].pc = "next" /\ exp'[e].todo = exp[e].todo
          /\ \A f \in Tasks \ {e} : exp'[f] = exp[f]
      BY <3>3 DEF Next1, TypeOK, TaskRecord
    <3>5. \A q \in Requests : req[q].earlier \subseteq Requests
      BY DEF TypeOK, RequestRecord
    <3>6. \A f \in Tasks : exp[f].todo \subseteq Requests
      BY DEF TypeOK, TaskRecord
    <3>7. counting \subseteq Requests /\ overdue \subseteq Requests
      BY DEF TypeOK
    <3> QED
      BY <3>2, <3>3, <3>4, <3>5, <3>6, <3>7 DEF ListsWhatWasOpened, Inside, Opened
  <2>3. ExpiriesAreKeptApart'
    <3>1. exp[e].it \in Requests /\ exp[e].will \in Outcomes \ {"none"}
      BY <1>18 DEF Settle, At, ListsWhatWasOpened, Inside, TypeOK, TaskRecord
    <3>2. \A j \in Requests : ivs'[j].print = ivs[j].print
      BY <1>18, <3>1, SettlingKeepsTheRest DEF Settle
    <3> QED
      BY <1>18, <3>2, LettingGo DEF Settle, At, Goes, Inside, IInv
  <2> QED
    BY <2>1, <2>2, <2>3 DEF IInv
<1>19. ASSUME NEW e \in Tasks, FailToRecord(e) PROVE IInv'
  <2>b. exp' \in [Tasks -> TaskRecord]
    <3>1. exp[e].it \in Requests
      BY <1>19 DEF FailToRecord, At, ListsWhatWasOpened, Inside
    <3>2. Next1(e) \in TaskRecord
      BY <3>1, TaskRecords DEF TypeOK, Next1
    <3> QED
      BY <1>19, <3>2 DEF FailToRecord, Goes, TypeOK
  <2>1. TypeOK'
    BY <1>19, <2>b DEF FailToRecord, store, machine, deadline, history, At, Goes, Next1,
       TypeOK, Tasks, ListsWhatWasOpened
  <2>2. ListsWhatWasOpened'
    BY <1>19 DEF FailToRecord, store, machine, deadline, history, At, Goes, Next1, TypeOK,
       InterventionRecord, RequestRecord, TaskRecord,
       ListsWhatWasOpened, Inside, Opened, Active, Tasks
  <2>3. ExpiriesAreKeptApart'
    <3>1. ivs' = ivs
      BY <1>19 DEF FailToRecord, store
    <3> QED
      BY <1>19, <3>1, LettingGo DEF FailToRecord, At, Goes, Inside, IInv
  <2> QED
    BY <2>1, <2>2, <2>3 DEF IInv
<1>20. ASSUME NEW e \in Tasks, CloseOutEnds(e) PROVE IInv'
  <2>b. exp' \in [Tasks -> TaskRecord]
    BY <1>20 DEF CloseOutEnds, store, machine, deadline, history, At, Goes, Idle, TypeOK,
       TaskRecord, Outcomes, Tasks
  <2>1. TypeOK'
    BY <1>20, <2>b DEF CloseOutEnds, store, machine, deadline, history, At, Goes, Idle,
       TypeOK, Tasks, ListsWhatWasOpened
  <2>2. ListsWhatWasOpened'
    BY <1>20 DEF CloseOutEnds, store, machine, deadline, history, At, Goes, Idle, TypeOK,
       InterventionRecord, RequestRecord, TaskRecord,
       ListsWhatWasOpened, Inside, Opened, Active, Tasks
  <2>3. ExpiriesAreKeptApart'
    BY <1>20 DEF CloseOutEnds, store, machine, deadline, history, At, Goes, Idle, TypeOK,
       InterventionRecord, RequestRecord, TaskRecord,
       ListsWhatWasOpened, ExpiriesAreKeptApart, Inside, Opened, Tasks
  <2> QED
    BY <2>1, <2>2, <2>3 DEF IInv
<1>21. ASSUME NEW p \in Prints, CheckClose(p) PROVE IInv'
  <2>b. exp' \in [Tasks -> TaskRecord]
    BY <1>21 DEF CheckClose, store, machine, deadline, history, At, Goes, Idle, TypeOK,
       TaskRecord, Outcomes, Tasks
  <2>1. TypeOK'
    BY <1>21, <2>b DEF CheckClose, store, machine, deadline, history, At, Goes, Idle,
       TypeOK, Tasks, ListsWhatWasOpened
  <2>2. ListsWhatWasOpened'
    BY <1>21 DEF CheckClose, store, machine, deadline, history, At, Goes, Idle, TypeOK,
       InterventionRecord, RequestRecord, TaskRecord,
       ListsWhatWasOpened, Inside, Opened, Active, Tasks
  <2>3. ExpiriesAreKeptApart'
    BY <1>21 DEF CheckClose, store, machine, deadline, history, At, Goes, Idle, TypeOK,
       InterventionRecord, RequestRecord, TaskRecord,
       ListsWhatWasOpened, ExpiriesAreKeptApart, Inside, Opened, Tasks
  <2> QED
    BY <2>1, <2>2, <2>3 DEF IInv
<1>22. ASSUME CloseByOperator PROVE IInv'
  <2>b. exp' \in [Tasks -> TaskRecord]
    BY <1>22 DEF CloseByOperator, store, machine, deadline, history, At, Goes, Idle,
       TypeOK, TaskRecord, Outcomes, Tasks
  <2>1. TypeOK'
    BY <1>22, <2>b DEF CloseByOperator, store, machine, deadline, history, At, Goes, Idle,
       TypeOK, Tasks, ListsWhatWasOpened
  <2>2. ListsWhatWasOpened'
    BY <1>22 DEF CloseByOperator, store, machine, deadline, history, At, Goes, Idle,
       TypeOK, InterventionRecord, RequestRecord, TaskRecord,
       ListsWhatWasOpened, Inside, Opened, Active, Tasks
  <2>3. ExpiriesAreKeptApart'
    BY <1>22 DEF CloseByOperator, store, machine, deadline, history, At, Goes, Idle,
       TypeOK, InterventionRecord, RequestRecord, TaskRecord,
       ListsWhatWasOpened, ExpiriesAreKeptApart, Inside, Opened, Tasks
  <2> QED
    BY <2>1, <2>2, <2>3 DEF IInv
<1>23. ASSUME Crash PROVE IInv'
  <2>a. req' \in [Requests -> RequestRecord]
    BY <1>23 DEF Crash, store, machine, deadline, history, Gone, NoRequest, Answered, Idle,
       TypeOK, RequestRecord
  <2>b. exp' \in [Tasks -> TaskRecord]
    BY <1>23 DEF Crash, store, machine, deadline, history, Gone, NoRequest, Answered, Idle,
       TypeOK, TaskRecord, Outcomes, Tasks
  <2>1. TypeOK'
    <3>1. crashes' \in Nat
      BY <1>23 DEF Crash, TypeOK
    <3>2. /\ expiring' = [p \in Prints |-> None] /\ counting' = {} /\ adopted' = FALSE
          /\ overdue' = {} /\ putBack' = {} /\ up' = "down"
          /\ UNCHANGED <<prints, ivs, running, value, due>>
      BY <1>23 DEF Crash, Gone, store, machine
    <3> QED
      BY <2>a, <2>b, <3>1, <3>2 DEF TypeOK
  <2>2. ListsWhatWasOpened'
    BY <1>23 DEF Crash, store, machine, deadline, history, Gone, NoRequest, Answered, Idle,
       TypeOK, InterventionRecord, RequestRecord, TaskRecord,
       ListsWhatWasOpened, Inside, Opened, Active, Tasks
  <2>3. ExpiriesAreKeptApart'
    BY <1>23 DEF Crash, store, machine, deadline, history, Gone, NoRequest, Answered, Idle,
       TypeOK, InterventionRecord, RequestRecord, TaskRecord,
       ListsWhatWasOpened, ExpiriesAreKeptApart, Inside, Opened, Tasks
  <2> QED
    BY <2>1, <2>2, <2>3 DEF IInv
<1>24. ASSUME Start PROVE IInv'
  <2>1. TypeOK'
    BY <1>24 DEF Start, store, machine, deadline, history, TypeOK, Tasks, ListsWhatWasOpened
  <2>2. ListsWhatWasOpened'
    BY <1>24 DEF Start, store, machine, deadline, history, TypeOK, InterventionRecord,
       RequestRecord, TaskRecord,
       ListsWhatWasOpened, Inside, Opened, Active, Tasks
  <2>3. ExpiriesAreKeptApart'
    BY <1>24 DEF Start, store, machine, deadline, history, TypeOK, InterventionRecord,
       RequestRecord, TaskRecord,
       ListsWhatWasOpened, ExpiriesAreKeptApart, Inside, Opened, Tasks
  <2> QED
    BY <2>1, <2>2, <2>3 DEF IInv
<1>25. ASSUME Reconcile PROVE IInv'
  <2>b. exp' \in [Tasks -> TaskRecord]
    BY <1>25 DEF Reconcile, store, machine, deadline, history, At, Goes, Idle, TypeOK,
       TaskRecord, Outcomes, Tasks
  <2>1. TypeOK'
    BY <1>25, <2>b DEF Reconcile, store, machine, deadline, history, At, Goes, Idle,
       TypeOK, Tasks, ListsWhatWasOpened
  <2>2. ListsWhatWasOpened'
    BY <1>25 DEF Reconcile, store, machine, deadline, history, At, Goes, Idle, TypeOK,
       InterventionRecord, RequestRecord, TaskRecord,
       ListsWhatWasOpened, Inside, Opened, Active, Tasks
  <2>3. ExpiriesAreKeptApart'
    BY <1>25 DEF Reconcile, store, machine, deadline, history, At, Goes, Idle, TypeOK,
       InterventionRecord, RequestRecord, TaskRecord,
       ListsWhatWasOpened, ExpiriesAreKeptApart, Inside, Opened, Tasks
  <2> QED
    BY <2>1, <2>2, <2>3 DEF IInv
<1>26. ASSUME RefuseStart PROVE IInv'
  <2>a. req' \in [Requests -> RequestRecord]
    BY <1>26 DEF RefuseStart, store, machine, deadline, history, Gone, At, NoRequest,
       Answered, Idle, TypeOK, RequestRecord
  <2>b. exp' \in [Tasks -> TaskRecord]
    BY <1>26 DEF RefuseStart, store, machine, deadline, history, Gone, At, NoRequest,
       Answered, Idle, TypeOK, TaskRecord, Outcomes, Tasks
  <2>1. TypeOK'
    BY <1>26, <2>a, <2>b DEF RefuseStart, store, machine, deadline, history, Gone, At,
       NoRequest, Answered, Idle, TypeOK, Tasks, ListsWhatWasOpened
  <2>2. ListsWhatWasOpened'
    BY <1>26 DEF RefuseStart, store, machine, deadline, history, Gone, At, NoRequest,
       Answered, Idle, TypeOK, InterventionRecord, RequestRecord, TaskRecord,
       ListsWhatWasOpened, Inside, Opened, Active, Tasks
  <2>3. ExpiriesAreKeptApart'
    BY <1>26 DEF RefuseStart, store, machine, deadline, history, Gone, At, NoRequest,
       Answered, Idle, TypeOK, InterventionRecord, RequestRecord, TaskRecord,
       ListsWhatWasOpened, ExpiriesAreKeptApart, Inside, Opened, Tasks
  <2> QED
    BY <2>1, <2>2, <2>3 DEF IInv
<1>27. ASSUME Serve PROVE IInv'
  <2>b. exp' \in [Tasks -> TaskRecord]
    BY <1>27 DEF Serve, store, machine, deadline, history, At, Goes, Idle, TypeOK,
       TaskRecord, Outcomes, Tasks
  <2>1. TypeOK'
    BY <1>27, <2>b DEF Serve, store, machine, deadline, history, At, Goes, Idle, TypeOK,
       Tasks, ListsWhatWasOpened
  <2>2. ListsWhatWasOpened'
    BY <1>27 DEF Serve, store, machine, deadline, history, At, Goes, Idle, TypeOK,
       InterventionRecord, RequestRecord, TaskRecord,
       ListsWhatWasOpened, Inside, Opened, Active, Tasks
  <2>3. ExpiriesAreKeptApart'
    BY <1>27 DEF Serve, store, machine, deadline, history, At, Goes, Idle, TypeOK,
       InterventionRecord, RequestRecord, TaskRecord,
       ListsWhatWasOpened, ExpiriesAreKeptApart, Inside, Opened, Tasks
  <2> QED
    BY <2>1, <2>2, <2>3 DEF IInv
<1>28. CASE UNCHANGED vars
  BY <1>28 DEF vars, store, machine, deadline, history, IInv, TypeOK, ListsWhatWasOpened,
     ExpiriesAreKeptApart, Inside, Opened
<1> QED
  BY <1>1, <1>2, <1>3, <1>4, <1>5, <1>6, <1>7, <1>8, <1>9, <1>10, <1>11, <1>12, <1>13,
     <1>14, <1>15, <1>16, <1>17, <1>18, <1>19, <1>20, <1>21, <1>22, <1>23, <1>24, <1>25,
     <1>26, <1>27, <1>28 DEF Next, Proceed, Expire

\* Every reachable state satisfies the inductive invariant.
THEOREM Invariance == Spec => []IInv
BY InitIInv, StepIInv, PTL DEF Spec

\* expiry.rs 389: no two tasks are expiring interventions of one print.
THEOREM OneExpiryPerPrint == Spec => []ExpiriesAreKeptApart
<1>1. IInv => ExpiriesAreKeptApart
  BY DEF IInv
<1> QED
  BY <1>1, Invariance, PTL

-----------------------------------------------------------------------------
(***************************************************************************)
(* What supersedes an intervention carries its prior value.  A request     *)
(* takes the value as it opens its own intervention and settles what it    *)
(* superseded one by one after that, so in between it must owe each that   *)
(* is left the value it took.                                              *)
(***************************************************************************)
\* What r opened would put back a value asked for no later than i's.
Carries(r, i) ==
  \E k \in Requests \ {r} :
    /\ Opened(k) /\ ivs[k].at <= ivs[i].at
    /\ ivs[r].prior = ivs[k].prior

CarriedForward ==
  /\ \A r \in Requests :
       /\ r \notin req[r].earlier
       /\ req[r].pc \in {"opened", "superseding"} => \A i \in req[r].earlier : Carries(r, i)
  /\ \A i \in Requests : ivs[i].by # None =>
       Opened(i) /\ Opened(ivs[i].by) /\ Carries(ivs[i].by, i)

\* The store's interventions are written by three steps alone.
LEMMA WritesOfInterventions ==
  [Next]_vars => \/ UNCHANGED ivs
                 \/ \E r \in Requests : OpenIntervention(r) \/ Supersede(r)
                 \/ \E e \in Tasks : Settle(e)
<1> SUFFICES ASSUME [Next]_vars,
                    \A r \in Requests : ~OpenIntervention(r) /\ ~Supersede(r),
                    \A e \in Tasks : ~Settle(e)
             PROVE  UNCHANGED ivs
  OBVIOUS
<1> USE DEF store
<1>1. CASE UNCHANGED vars BY <1>1 DEF vars
<1>2. CASE JobEnds \/ JobBegins \/ \E i \in Requests : TimePasses(i)
  BY <1>2 DEF JobEnds, JobBegins, TimePasses
<1>3. CASE \E r \in Requests : Proceed(r) \/ \E p \in Prints : Accept(r, p)
  BY <1>3 DEF Proceed, Accept, Record, Change, Gather, CountDown, Answer
<1>4. CASE Sweep \/ SweepEnds \/ CloseByOperator \/ \E p \in Prints : CheckClose(p)
  BY <1>4 DEF Sweep, SweepEnds, CloseByOperator, CheckClose
<1>5. CASE \E e \in Tasks : Expire(e) \/ \E p \in Prints : CloseOut(e, p)
  BY <1>5 DEF Expire, CloseOut, Lock, Check, Restore, FailToRecord, CloseOutEnds
<1>6. CASE Crash \/ Start \/ Reconcile \/ RefuseStart \/ Serve
  BY <1>6 DEF Crash, Start, Reconcile, RefuseStart, Serve
<1> QED BY <1>1, <1>2, <1>3, <1>4, <1>5, <1>6 DEF Next

\* memory.rs 288-322: only an active intervention is settled, and of it only
\* the outcome and who superseded it are written.
LEMMA Settling ==
  ASSUME TypeOK, NEW i \in Requests, NEW outcome, NEW by
  PROVE  \A j \in Requests :
           /\ SettledAs(i, outcome, by)[j].at = ivs[j].at
           /\ SettledAs(i, outcome, by)[j].prior = ivs[j].prior
           /\ SettledAs(i, outcome, by)[j].print = ivs[j].print
           /\ SettledAs(i, outcome, by)[j].state = IF j = i /\ Active(i) THEN outcome ELSE ivs[j].state
           /\ SettledAs(i, outcome, by)[j].by = IF j = i /\ Active(i) THEN by ELSE ivs[j].by
<1>1. CASE ~Active(i) BY <1>1 DEF SettledAs
<1>2. CASE Active(i)
  <2> DEFINE rec == [ivs[i] EXCEPT !.state = outcome, !.by = by]
  <2>1. \A j \in Requests : SettledAs(i, outcome, by)[j] = IF j = i THEN rec ELSE ivs[j]
    BY <1>2 DEF SettledAs, TypeOK
  <2>2. /\ rec.at = ivs[i].at /\ rec.prior = ivs[i].prior /\ rec.print = ivs[i].print
        /\ rec.state = outcome /\ rec.by = by
    BY DEF TypeOK, InterventionRecord
  <2> QED BY <1>2, <2>1, <2>2
<1> QED BY <1>1, <1>2

\* What has been opened keeps when and from which value it was, and no step
\* makes it active again.
LEMMA OpenedStays ==
  ASSUME IInv, [Next]_vars
  PROVE  \A k \in Requests : Opened(k) =>
           /\ Opened(k)' /\ (Active(k)' => Active(k))
           /\ ivs'[k].at = ivs[k].at /\ ivs'[k].prior = ivs[k].prior
           /\ ivs'[k].print = ivs[k].print
<1> USE DEF Opened, Active
<1>0. TypeOK BY DEF IInv
<1>1. CASE UNCHANGED ivs BY <1>1
<1>2. ASSUME NEW r \in Requests, OpenIntervention(r) PROVE ~Opened(r) /\ \A k \in Requests \ {r} : ivs'[k] = ivs[k]
  BY <1>0, <1>2 DEF OpenIntervention, IInv, ListsWhatWasOpened, TypeOK
<1>3. ASSUME NEW r \in Requests, Supersede(r) PROVE \E i \in Requests : ivs' = SettledAs(i, "superseded", r)
  BY <1>0, <1>3 DEF Supersede, TypeOK, RequestRecord
<1>4. ASSUME NEW e \in Tasks, Settle(e)
      PROVE  \E i \in Requests, outcome \in Outcomes : outcome # "none" /\ ivs' = SettledAs(i, outcome, None)
  <2>1. exp[e].it \in Requests /\ exp[e].will \in Outcomes \ {"none"}
    BY <1>0, <1>4 DEF Settle, At, IInv, ListsWhatWasOpened, Inside, TypeOK, TaskRecord
  <2> QED BY <1>4, <2>1 DEF Settle
<1>5. ASSUME NEW i \in Requests, NEW outcome, outcome # "none", NEW by,
             ivs' = SettledAs(i, outcome, by)
      PROVE  \A k \in Requests : Opened(k) =>
               /\ Opened(k)' /\ (Active(k)' => Active(k))
               /\ ivs'[k].at = ivs[k].at /\ ivs'[k].prior = ivs[k].prior
               /\ ivs'[k].print = ivs[k].print
  BY <1>0, <1>5, Settling
<1> QED BY <1>1, <1>2, <1>3, <1>4, <1>5, WritesOfInterventions

\* What a request does while it writes no intervention: it gathers what is
\* active before it opens its own, and forgets nothing it owes.
LEMMA RequestsMove ==
  ASSUME IInv, [Next]_vars, UNCHANGED ivs,
         \A r \in Requests : ~OpenIntervention(r) /\ ~Supersede(r)
  PROVE  \A r \in Requests :
           \/ /\ req'[r].earlier = req[r].earlier
              /\ req'[r].pc \in {"opened", "superseding"} => req[r].pc \in {"opened", "superseding"}
           \/ /\ req'[r].earlier = {} \/ (~Opened(r) /\ req'[r].earlier \subseteq {i \in Requests : Active(i)})
              /\ req'[r].pc \notin {"opened", "superseding"}
<1> DEFINE Goal ==
      \A r \in Requests :
        \/ /\ req'[r].earlier = req[r].earlier
           /\ req'[r].pc \in {"opened", "superseding"} => req[r].pc \in {"opened", "superseding"}
        \/ /\ req'[r].earlier = {} \/ (~Opened(r) /\ req'[r].earlier \subseteq {i \in Requests : Active(i)})
           /\ req'[r].pc \notin {"opened", "superseding"}
<1> SUFFICES Goal OBVIOUS
<1>0. req \in [Requests -> RequestRecord] BY DEF IInv, TypeOK
<1>1. CASE UNCHANGED req BY <1>1
<1>2. ASSUME NEW r \in Requests, NEW to, req' = [req EXCEPT ![r] = to],
             \/ /\ to.earlier = req[r].earlier
                /\ to.pc \in {"opened", "superseding"} => req[r].pc \in {"opened", "superseding"}
             \/ /\ to.earlier = {} \/ (~Opened(r) /\ to.earlier \subseteq {i \in Requests : Active(i)})
                /\ to.pc \notin {"opened", "superseding"}
      PROVE Goal
  BY <1>0, <1>2
<1>3. Answered.earlier = {} /\ Answered.pc = "done" /\ NoRequest.earlier = {} /\ NoRequest.pc = "idle"
  BY DEF Answered, NoRequest
<1>a. ASSUME NEW r \in Requests, req' = [req EXCEPT ![r] = Answered] PROVE Goal
  <2> DEFINE to == Answered
  <2>1. to.earlier = {} /\ to.pc \notin {"opened", "superseding"} BY <1>3
  <2>2. req' = [req EXCEPT ![r] = to] BY <1>a
  <2> HIDE DEF to, Goal
  <2> QED BY <1>2, <2>1, <2>2
<1>4. ASSUME NEW r \in Requests, NEW p \in Prints, Accept(r, p) PROVE Goal
  <2>1. PICK read \in {value, None} : req' = [req EXCEPT ![r] = [NoRequest EXCEPT
              !.pc = "accepted", !.print = p, !.read = read,
              !.at = Cardinality({q \in Requests : req[q].pc # "idle"})]]
    BY <1>4 DEF Accept, Moves
  <2> DEFINE to == [NoRequest EXCEPT
              !.pc = "accepted", !.print = p, !.read = read,
              !.at = Cardinality({q \in Requests : req[q].pc # "idle"})]
  <2>2. to.earlier = {} /\ to.pc \notin {"opened", "superseding"} BY DEF NoRequest
  <2>3. req' = [req EXCEPT ![r] = to] BY <2>1
  <2> HIDE DEF to, Goal
  <2> QED BY <1>2, <2>2, <2>3
<1>5. ASSUME NEW r \in Requests, NEW pc, NEW bound, pc \notin {"opened", "superseding"},
             req' = [req EXCEPT ![r] = [req[r] EXCEPT !.pc = pc, !.bound = bound]]
      PROVE Goal
  <2> DEFINE to == [req[r] EXCEPT !.pc = pc, !.bound = bound]
  <2>1. to.earlier = req[r].earlier /\ to.pc \notin {"opened", "superseding"}
    BY <1>0, <1>5 DEF RequestRecord
  <2>2. req' = [req EXCEPT ![r] = to] BY <1>5
  <2> HIDE DEF to, Goal
  <2> QED BY <1>2, <2>1, <2>2
<1>6. ASSUME NEW r \in Requests, NEW pc,
             pc \in {"opened", "superseding"} => req[r].pc \in {"opened", "superseding"},
             req' = [req EXCEPT ![r] = [req[r] EXCEPT !.pc = pc]]
      PROVE Goal
  <2> DEFINE to == [req[r] EXCEPT !.pc = pc]
  <2>1. to.earlier = req[r].earlier /\ to.pc = pc BY <1>0 DEF RequestRecord
  <2>2. req' = [req EXCEPT ![r] = to] BY <1>6
  <2> HIDE DEF to, Goal
  <2> QED BY <1>2, <1>6, <2>1, <2>2
<1>7. ASSUME NEW r \in Requests, Gather(r) PROVE Goal
  <2> DEFINE to == [req[r] EXCEPT !.pc = "gathered", !.earlier = ActiveOn(req[r].print)]
  <2>1. to.pc = "gathered" /\ to.earlier = ActiveOn(req[r].print) BY <1>0 DEF RequestRecord
  <2>2. ~Opened(r) BY <1>7 DEF Gather, IInv, ListsWhatWasOpened
  <2>3. to.earlier \subseteq {i \in Requests : Active(i)} BY <2>1 DEF ActiveOn
  <2>4. req' = [req EXCEPT ![r] = to] BY <1>7 DEF Gather, Moves
  <2> HIDE DEF to, Goal
  <2> QED BY <1>2, <2>1, <2>2, <2>3, <2>4
<1>8. CASE Gone
  <2>1. \A r \in Requests : req'[r] = NoRequest \/ req'[r] = Answered BY <1>8 DEF Gone
  <2> QED BY <1>3, <2>1
<1> HIDE DEF Goal
<1>9. ASSUME NEW r \in Requests, Proceed(r) PROVE Goal
  <2>1. CASE Record(r)
    <3>1. \/ req' = [req EXCEPT ![r] = Answered]
          \/ \E p \in Prints : req' = [req EXCEPT ![r] = [req[r] EXCEPT !.pc = "recorded", !.bound = p]]
      BY <2>1 DEF Record, Moves
    <3>2. ASSUME NEW p \in Prints,
                 req' = [req EXCEPT ![r] = [req[r] EXCEPT !.pc = "recorded", !.bound = p]]
          PROVE Goal
      <4>1. "recorded" \notin {"opened", "superseding"} OBVIOUS
      <4> QED BY <1>5, <3>2, <4>1
    <3> QED BY <1>a, <3>1, <3>2
  <2>2. CASE Change(r) BY <1>a, <1>6, <2>2 DEF Change, Moves
  <2>3. CASE CountDown(r) BY <1>6, <2>3 DEF CountDown, Moves
  <2>4. CASE Answer(r) BY <1>a, <2>4 DEF Answer, Moves
  <2> QED BY <1>7, <1>9, <2>1, <2>2, <2>3, <2>4 DEF Proceed
<1>10. CASE \/ UNCHANGED vars \/ JobEnds \/ JobBegins \/ \E i \in Requests : TimePasses(i)
            \/ Sweep \/ SweepEnds \/ CloseByOperator \/ \E p \in Prints : CheckClose(p)
  BY <1>1, <1>10 DEF vars, JobEnds, JobBegins, TimePasses, Sweep, SweepEnds, CloseByOperator, CheckClose
<1>11. CASE \E e \in Tasks : Expire(e) \/ \E p \in Prints : CloseOut(e, p)
  BY <1>1, <1>11 DEF Expire, CloseOut, Lock, Check, Restore, Settle, FailToRecord, CloseOutEnds
<1>12. CASE Crash \/ Start \/ Reconcile \/ RefuseStart \/ Serve
  BY <1>1, <1>8, <1>12 DEF Crash, Start, Reconcile, RefuseStart, Serve
<1>13. CASE \E r \in Requests : Proceed(r) \/ \E p \in Prints : Accept(r, p)
  BY <1>4, <1>9, <1>13
<1> QED BY <1>10, <1>11, <1>12, <1>13 DEF Next

\* What a request owes it goes on owing, as long as what was opened stays.
LEMMA CarryingOn ==
  ASSUME NEW r \in Requests, NEW i \in Requests, Opened(r), Opened(i), Carries(r, i),
         \A k \in Requests : Opened(k) => /\ Opened(k)' /\ ivs'[k].at = ivs[k].at
                                          /\ ivs'[k].prior = ivs[k].prior
  PROVE  Carries(r, i)'
  BY DEF Carries

\* The invariant of what is carried forward, kept by every step.
LEMMA StepCarriedForward ==
  ASSUME IInv, CarriedForward, [Next]_vars
  PROVE  CarriedForward'
<1>0. TypeOK BY DEF IInv
<1>1. \A k \in Requests : Opened(k) => /\ Opened(k)' /\ ivs'[k].at = ivs[k].at
                                       /\ ivs'[k].prior = ivs[k].prior
  BY OpenedStays
<1>2. \A r \in Requests : /\ req[r].pc \in {"opened", "superseding"} => Opened(r)
                          /\ req[r].earlier \subseteq Requests
                          /\ \A i \in req[r].earlier : Opened(i)
  BY <1>0 DEF IInv, ListsWhatWasOpened, TypeOK, RequestRecord
<1>3. \A i \in Requests : ivs[i].by # None => ivs[i].by \in Requests
  BY <1>0 DEF TypeOK, InterventionRecord
\* what is owed and what was superseded, where neither changes
<1>4. ASSUME NEW r \in Requests, r \notin req'[r].earlier, req'[r].earlier \subseteq req[r].earlier,
             req'[r].pc \in {"opened", "superseding"} => req[r].pc \in {"opened", "superseding"}
      PROVE  /\ r \notin req'[r].earlier
             /\ req'[r].pc \in {"opened", "superseding"} => \A i \in req'[r].earlier : Carries(r, i)'
  BY <1>1, <1>2, <1>4, CarryingOn DEF CarriedForward
<1>5. ASSUME NEW i \in Requests, ivs'[i].by = ivs[i].by
      PROVE  ivs'[i].by # None => Opened(i)' /\ (Opened(ivs[i].by) /\ Carries(ivs[i].by, i))'
  <2> SUFFICES ASSUME ivs[i].by # None
               PROVE  Opened(i)' /\ (Opened(ivs[i].by) /\ Carries(ivs[i].by, i))'
    BY <1>5
  <2> DEFINE r == ivs[i].by
  <2>1. r \in Requests /\ Opened(i) /\ Opened(r) /\ Carries(r, i) BY <1>3 DEF CarriedForward
  <2>2. Opened(i)' /\ Opened(r)' BY <1>1, <1>5, <2>1
  <2> HIDE DEF r
  <2>3. \E q \in Requests : q = r /\ Carries(q, i) BY <2>1
  <2>4. PICK q \in Requests : q = r /\ Carries(q, i) BY <2>3
  <2>5. Carries(q, i)' BY <1>1, <2>1, <2>4, CarryingOn
  <2>6. ivs'[i].by = q BY <1>5, <2>4 DEF r
  <2>7. (ivs[i].by = q)' BY <2>6
  <2>8. Opened(q)' BY <1>1, <2>1, <2>4
  <2> QED BY <2>2, <2>5, <2>7, <2>8 DEF Carries, Opened
<1>6. ASSUME UNCHANGED ivs, \A r \in Requests : ~OpenIntervention(r) /\ ~Supersede(r)
      PROVE  CarriedForward'
  <2>1. ASSUME NEW r \in Requests
        PROVE  /\ r \notin req'[r].earlier
               /\ req'[r].pc \in {"opened", "superseding"} => \A i \in req'[r].earlier : Carries(r, i)'
    <3>1. CASE /\ req'[r].earlier = req[r].earlier
               /\ req'[r].pc \in {"opened", "superseding"} => req[r].pc \in {"opened", "superseding"}
      BY <1>4, <3>1 DEF CarriedForward
    <3>2. CASE /\ req'[r].earlier = {} \/ (~Opened(r) /\ req'[r].earlier \subseteq {i \in Requests : Active(i)})
               /\ req'[r].pc \notin {"opened", "superseding"}
      BY <3>2 DEF Opened, Active
    <3> QED BY <1>6, <3>1, <3>2, RequestsMove
  <2>2. \A i \in Requests : ivs'[i].by # None => Opened(i)' /\ (Opened(ivs[i].by) /\ Carries(ivs[i].by, i))'
    BY <1>5, <1>6
  <2> QED BY <2>1, <2>2 DEF CarriedForward
<1>7. ASSUME NEW r \in Requests, OpenIntervention(r) PROVE CarriedForward'
  <2>1. PICK prior \in Prior(r) :
          ivs' = [ivs EXCEPT ![r] = [state |-> "active", print |-> req[r].bound,
                                     prior |-> prior, at |-> req[r].at, by |-> None]]
    BY <1>7 DEF OpenIntervention
  <2>2. /\ req[r].pc = "gathered" /\ ~Opened(r)
        /\ req'[r].earlier = req[r].earlier
        /\ \A q \in Requests \ {r} : req'[q] = req[q] /\ ivs'[q] = ivs[q]
    BY <1>0, <1>7, <2>1 DEF OpenIntervention, Moves, IInv, ListsWhatWasOpened, TypeOK, RequestRecord
  <2>3. ivs'[r].by = None /\ ivs'[r].prior = prior BY <1>0, <2>1 DEF TypeOK
  <2>4. ASSUME NEW i \in req[r].earlier PROVE Carries(r, i)'
    <3>1. PICK k \in Earliest(req[r].earlier) : prior = ivs[k].prior BY <2>1, <2>4 DEF Prior
    <3>2. k \in req[r].earlier /\ ivs[k].at <= ivs[i].at BY <2>4, <3>1 DEF Earliest
    <3>3. k \in Requests \ {r} /\ i \in Requests \ {r} /\ Opened(k)
      BY <1>2, <2>4, <3>2 DEF CarriedForward
    <3>4. /\ Opened(k)' /\ ivs'[k].at <= ivs'[i].at /\ ivs'[r].prior = ivs'[k].prior
      BY <1>1, <2>2, <2>3, <3>1, <3>2, <3>3
    <3> QED BY <3>3, <3>4 DEF Carries
  <2>5. ASSUME NEW q \in Requests
        PROVE  /\ q \notin req'[q].earlier
               /\ req'[q].pc \in {"opened", "superseding"} => \A i \in req'[q].earlier : Carries(q, i)'
    <3>1. CASE q = r BY <2>2, <2>4, <3>1 DEF CarriedForward
    <3>2. CASE q # r BY <1>4, <2>2, <3>2 DEF CarriedForward
    <3> QED BY <3>1, <3>2
  <2>6. \A i \in Requests : ivs'[i].by # None => Opened(i)' /\ (Opened(ivs[i].by) /\ Carries(ivs[i].by, i))'
    <3>1. \A i \in Requests : i # r => ivs'[i].by = ivs[i].by BY <2>2
    <3> QED BY <1>5, <2>3, <3>1
  <2> QED BY <2>5, <2>6 DEF CarriedForward
<1>8. ASSUME NEW r \in Requests, Supersede(r) PROVE CarriedForward'
  <2>1. PICK j \in req[r].earlier :
          /\ ivs' = SettledAs(j, "superseded", r)
          /\ req' = [req EXCEPT ![r] = [req[r] EXCEPT !.earlier = req[r].earlier \ {j}]]
    BY <1>8 DEF Supersede, Moves
  <2> DEFINE to == [req[r] EXCEPT !.earlier = req[r].earlier \ {j}]
  <2>2. to.earlier = req[r].earlier \ {j} /\ to.pc = req[r].pc BY <1>0 DEF TypeOK, RequestRecord
  <2>3. \A q \in Requests : req'[q] = IF q = r THEN to ELSE req[q] BY <1>0, <2>1 DEF TypeOK
  <2> HIDE DEF to
  <2>4. ASSUME NEW q \in Requests
        PROVE  /\ q \notin req'[q].earlier
               /\ req'[q].pc \in {"opened", "superseding"} => \A i \in req'[q].earlier : Carries(q, i)'
    <3>1. /\ req'[q].earlier \subseteq req[q].earlier /\ q \notin req'[q].earlier
          /\ req'[q].pc = req[q].pc
      BY <2>2, <2>3 DEF CarriedForward
    <3> QED BY <1>4, <3>1
  <2>5. ASSUME NEW i \in Requests, ivs'[i].by # ivs[i].by
        PROVE  ivs'[i].by = r /\ Opened(i)' /\ Opened(r)' /\ Carries(r, i)'
    <3>1. i = j /\ ivs'[i].by = r BY <1>0, <1>2, <2>1, <2>5, Settling
    <3>2. req[r].pc = "superseding" /\ Opened(r) /\ Opened(i) /\ Carries(r, i)
      BY <1>2, <1>8, <3>1 DEF Supersede, CarriedForward
    <3> QED BY <1>1, <3>1, <3>2, CarryingOn
  <2>6. ASSUME NEW i \in Requests, ivs'[i].by # None
        PROVE  Opened(i)' /\ (Opened(ivs[i].by) /\ Carries(ivs[i].by, i))'
    <3>1. CASE ivs'[i].by = ivs[i].by BY <1>5, <2>6, <3>1
    <3>2. CASE ivs'[i].by # ivs[i].by
      <4>1. (ivs[i].by = r)' BY <2>5, <3>2
      <4> QED BY <2>5, <3>2, <4>1 DEF Carries, Opened
    <3> QED BY <3>1, <3>2
  <2> QED BY <2>4, <2>6 DEF CarriedForward
<1>9. ASSUME NEW e \in Tasks, Settle(e) PROVE CarriedForward'
  <2>1. exp[e].it \in Requests
    BY <1>9 DEF Settle, At, IInv, ListsWhatWasOpened, Inside
  <2>2. ivs' = SettledAs(exp[e].it, exp[e].will, None) /\ UNCHANGED req BY <1>9 DEF Settle
  <2>3. \A i \in Requests : ivs'[i].by = ivs[i].by \/ ivs'[i].by = None
    BY <1>0, <2>1, <2>2, Settling
  <2>4. \A i \in Requests : ivs'[i].by # None => Opened(i)' /\ (Opened(ivs[i].by) /\ Carries(ivs[i].by, i))'
    BY <1>5, <2>3
  <2>5. \A r \in Requests :
          /\ r \notin req'[r].earlier
          /\ req'[r].pc \in {"opened", "superseding"} => \A i \in req'[r].earlier : Carries(r, i)'
    BY <1>4, <2>2 DEF CarriedForward
  <2> QED BY <2>4, <2>5 DEF CarriedForward
<1> QED BY <1>6, <1>7, <1>8, <1>9, WritesOfInterventions

\* actions.rs 483-486: what supersedes an intervention carries a prior value
\* asked for no later forward, through any overlap of the requests.
THEOREM PriorValuesAreCarriedForward == Spec => []SupersededPriorLives
<1>1. Init => CarriedForward
  BY Constants DEF Init, CarriedForward, NoRequest, NoIntervention
<1>2. IInv /\ CarriedForward /\ [Next]_vars => (IInv /\ CarriedForward)'
  BY StepIInv, StepCarriedForward
<1>3. CarriedForward => SupersededPriorLives
  BY DEF CarriedForward, SupersededPriorLives, Carries
<1> QED BY InitIInv, <1>1, <1>2, <1>3, PTL DEF Spec

-----------------------------------------------------------------------------
(***************************************************************************)
(* What an expiring task does.  What a close-out listed is settled, still  *)
(* on its list or in its hands while its print is open; an expiry that     *)
(* comes to put a value back is of an intervention nobody put back before, *)
(* active or superseded meanwhile; and one that was put back and is active *)
(* is about to be settled.                                                 *)
(***************************************************************************)
ListedBy(e) ==
  /\ \A i \in exp[e].listed : Opened(i)
  /\ exp[e].print # None => prints[exp[e].print] # "unborn"
  /\ exp[e].pc = "closing" => exp[e].listed = {}
  /\ exp[e].print # None /\ prints[exp[e].print] = "open" =>
       \A i \in exp[e].listed : Active(i) => i \in exp[e].todo \/ (Inside(e) /\ i = exp[e].it)

DecidedBy(e) ==
  /\ exp[e].pc = "restoring" => exp[e].will \in {"restored", "failed"}
  /\ exp[e].pc = "settling" => exp[e].will \in {"restored", "unavailable", "failed"}
  /\ exp[e].pc = "restoring" /\ exp[e].will = "restored" =>
       ivs[exp[e].it].state \in {"active", "superseded"} /\ exp[e].it \notin putBack
  /\ exp[e].pc = "settling" /\ exp[e].will = "restored" => exp[e].it \in putBack

ToBeSettled(i) == Active(i) => \E e \in Tasks : exp[e].pc = "settling" /\ exp[e].it = i

ExpiriesInv ==
  /\ \A e \in Tasks : ListedBy(e) /\ DecidedBy(e)
  /\ \A i \in putBack : Opened(i) /\ ToBeSettled(i)

\* What holds of a task that does not move while others do.
LEMMA Elsewhere ==
  ASSUME IInv, ExpiriesInv, [Next]_vars, NEW f \in Tasks, exp'[f] = exp[f],
         \A p \in Prints : prints'[p] = prints[p] \/ prints[p] = "unborn" \/ prints'[p] = "ended",
         Inside(f) => /\ \/ ivs'[exp[f].it].state = ivs[exp[f].it].state
                         \/ /\ ivs[exp[f].it].state \in {"active", "superseded"}
                            /\ ivs'[exp[f].it].state \in {"active", "superseded"}
                      /\ exp[f].it \in putBack' <=> exp[f].it \in putBack
  PROVE  ListedBy(f)' /\ DecidedBy(f)'
<1>1. \A k \in Requests : Opened(k) => Opened(k)' /\ (Active(k)' => Active(k)) BY OpenedStays
<1>2. exp[f].print \in Prints \union {None} /\ exp[f].listed \subseteq Requests
  BY DEF IInv, TypeOK, TaskRecord
<1>3. ListedBy(f)'
  <2>1. \A i \in exp'[f].listed : Opened(i)' BY <1>1, <1>2 DEF ExpiriesInv, ListedBy
  <2>2. exp'[f].print # None => prints'[exp'[f].print] # "unborn"
    BY <1>2 DEF ExpiriesInv, ListedBy
  <2>3. ASSUME exp'[f].print # None, prints'[exp'[f].print] = "open",
               NEW i \in exp'[f].listed, Active(i)'
        PROVE  i \in exp'[f].todo \/ (Inside(f)' /\ i = exp'[f].it)
    <3>1. exp[f].print \in Prints /\ prints[exp[f].print] # "unborn"
      BY <1>2, <2>3 DEF ExpiriesInv, ListedBy
    <3>2. prints[exp[f].print] = "open" BY <2>3, <3>1
    <3>3. Active(i) BY <1>1, <1>2, <2>3 DEF ExpiriesInv, ListedBy
    <3> QED BY <2>3, <3>2, <3>3 DEF ExpiriesInv, ListedBy, Inside
  <2>4. exp'[f].pc = "closing" => exp'[f].listed = {} BY DEF ExpiriesInv, ListedBy
  <2> QED BY <2>1, <2>2, <2>3, <2>4 DEF ListedBy
<1>4. DecidedBy(f)' BY DEF ExpiriesInv, DecidedBy, Inside
<1> QED BY <1>3, <1>4

\* What is on its way to be settled stays so while nobody who settles moves.
LEMMA StillToBeSettled ==
  ASSUME IInv, ExpiriesInv, [Next]_vars, UNCHANGED putBack,
         \A e \in Tasks : exp[e].pc = "settling" => exp'[e] = exp[e]
  PROVE  \A i \in putBack' : Opened(i)' /\ ToBeSettled(i)'
<1>1. \A k \in Requests : Opened(k) => Opened(k)' /\ (Active(k)' => Active(k)) BY OpenedStays
<1>2. putBack \subseteq Requests BY DEF IInv, TypeOK
<1> QED BY <1>1, <1>2 DEF ExpiriesInv, ToBeSettled

\* No two tasks are inside for one intervention.
LEMMA NoTwoInside ==
  ASSUME IInv, NEW e \in Tasks, NEW f \in Tasks, Inside(e), Inside(f), exp[e].it = exp[f].it
  PROVE  e = f
  BY DEF IInv, ExpiriesAreKeptApart

\* A step of one task that writes no intervention and puts nothing back.
LEMMA OneTaskMoves ==
  ASSUME IInv, ExpiriesInv, [Next]_vars, UNCHANGED <<ivs, putBack>>,
         NEW e \in Tasks, exp[e].pc # "settling",
         \A f \in Tasks \ {e} : exp'[f] = exp[f],
         \A p \in Prints : prints'[p] = prints[p] \/ prints[p] = "unborn" \/ prints'[p] = "ended",
         ListedBy(e)' /\ DecidedBy(e)'
  PROVE  ExpiriesInv'
<1>1. \A f \in Tasks \ {e} : ListedBy(f)' /\ DecidedBy(f)' BY Elsewhere
<1>2. \A i \in putBack' : Opened(i)' /\ ToBeSettled(i)' BY StillToBeSettled
<1> QED BY <1>1, <1>2 DEF ExpiriesInv

\* A task that is idle, or has a list that is no close-out's.
LEMMA NothingListed ==
  ASSUME NEW e \in Tasks, exp'[e].listed = {}, exp'[e].pc \notin {"restoring", "settling"},
         exp'[e].print # None => prints'[exp'[e].print] # "unborn"
  PROVE  ListedBy(e)' /\ DecidedBy(e)'
  BY DEF ListedBy, DecidedBy

\* Each step of a task, the machine or the server keeps it.
LEMMA StepExpiriesInv ==
  ASSUME IInv, ExpiriesInv, [Next]_vars
  PROVE  ExpiriesInv'
<1>0. /\ TypeOK /\ exp \in [Tasks -> TaskRecord] /\ prints \in [Prints -> {"unborn", "open", "ended"}]
      /\ "driver" \in Tasks /\ "operator" \in Tasks /\ "start" \in Tasks
  BY DEF IInv, TypeOK, Tasks
<1>k. \A k \in Requests : Opened(k) => /\ Opened(k)' /\ (Active(k)' => Active(k))
                                       /\ ivs'[k].prior = ivs[k].prior
  BY OpenedStays
\* nobody expires anything
<1>1. ASSUME UNCHANGED <<exp, putBack>>,
             \A p \in Prints : prints'[p] = prints[p] \/ prints[p] = "unborn",
             \A k \in Requests : Opened(k) =>
                \/ ivs'[k].state = ivs[k].state
                \/ ivs[k].state \in {"active", "superseded"} /\ ivs'[k].state \in {"active", "superseded"}
      PROVE  ExpiriesInv'
  <2>1. \A f \in Tasks : Inside(f) => exp[f].it \in Requests /\ Opened(exp[f].it)
    BY DEF IInv, ListsWhatWasOpened
  <2>2. \A f \in Tasks : ListedBy(f)' /\ DecidedBy(f)' BY <1>1, <2>1, Elsewhere
  <2>3. \A i \in putBack' : Opened(i)' /\ ToBeSettled(i)' BY <1>1, StillToBeSettled
  <2> QED BY <2>2, <2>3 DEF ExpiriesInv
<1>2. CASE UNCHANGED vars \/ JobEnds \/ (\E i \in Requests : TimePasses(i)) \/ Start
  BY <1>1, <1>2 DEF vars, store, history, JobEnds, TimePasses, Start
<1>3. CASE JobBegins
  <2>1. \A p \in Prints : prints'[p] = prints[p] \/ prints[p] = "unborn"
    BY <1>0, <1>3 DEF JobBegins
  <2>2. UNCHANGED <<ivs, exp, putBack>> BY <1>3 DEF JobBegins, history
  <2> QED BY <1>1, <2>1, <2>2
<1>4. ASSUME NEW r \in Requests, Proceed(r) \/ \E p \in Prints : Accept(r, p)
      PROVE  ExpiriesInv'
  <2>1. UNCHANGED <<exp, putBack, prints>>
    BY <1>4 DEF Proceed, Accept, Record, Change, Gather, OpenIntervention, CountDown,
       Supersede, Answer, store, history
  <2>2. CASE OpenIntervention(r)
    <3>1. \A k \in Requests : Opened(k) => ivs'[k] = ivs[k]
      BY <1>0, <2>2 DEF OpenIntervention, IInv, ListsWhatWasOpened, TypeOK
    <3> QED BY <1>1, <2>1, <3>1
  <2>3. CASE Supersede(r)
    <3>1. PICK j \in Requests : ivs' = SettledAs(j, "superseded", r)
      BY <1>0, <2>3 DEF Supersede, TypeOK, RequestRecord
    <3>2. \A k \in Requests : ivs'[k].state = IF k = j /\ Active(j) THEN "superseded" ELSE ivs[k].state
      BY <1>0, <3>1, Settling
    <3> QED BY <1>1, <2>1, <3>2 DEF Active
  <2>4. CASE Record(r) \/ Change(r) \/ Gather(r) \/ CountDown(r) \/ Answer(r)
             \/ \E p \in Prints : Accept(r, p)
    <3>1. UNCHANGED ivs
      BY <2>4 DEF Accept, Record, Change, Gather, CountDown, Answer, store
    <3> QED BY <1>1, <2>1, <3>1
  <2> QED BY <1>4, <2>2, <2>3, <2>4 DEF Proceed
\* a task takes up a list that is no close-out's, or is done
<1>5. ASSUME NEW e \in Tasks, exp[e].pc \in {"idle", "next", "closing"},
             NEW to, exp' = [exp EXCEPT ![e] = to], to.listed = {}, to.print = None,
             to.pc \in {"idle", "next"}, UNCHANGED <<ivs, putBack>>,
             \A p \in Prints : prints'[p] = prints[p] \/ prints'[p] = "ended"
      PROVE  ExpiriesInv'
  <2>1. exp'[e] = to /\ \A f \in Tasks \ {e} : exp'[f] = exp[f] BY <1>0, <1>5
  <2>2. ListedBy(e)' /\ DecidedBy(e)' BY <1>5, <2>1, NothingListed
  <2> QED BY <1>5, <2>1, <2>2, OneTaskMoves
<1>i. Idle.listed = {} /\ Idle.print = None /\ Idle.pc = "idle" /\ Idle.todo = {} BY DEF Idle
<1>n. ASSUME NEW S
      PROVE  LET to == [Idle EXCEPT !.pc = "next", !.todo = S]
             IN  to.listed = {} /\ to.print = None /\ to.pc = "next"
  BY DEF Idle
<1>6. CASE Sweep
  <2>1. PICK S : exp' = [exp EXCEPT !["driver"] = [Idle EXCEPT !.pc = "next", !.todo = S]]
    BY <1>6 DEF Sweep, Goes
  <2> DEFINE to == [Idle EXCEPT !.pc = "next", !.todo = S]
  <2>2. exp["driver"].pc = "idle" /\ UNCHANGED <<ivs, prints, putBack>>
    BY <1>6 DEF Sweep, At, store, history
  <2>3. to.listed = {} /\ to.print = None /\ to.pc = "next" BY <1>n
  <2>4. exp' = [exp EXCEPT !["driver"] = to] BY <2>1
  <2> HIDE DEF to
  <2> QED BY <1>0, <1>5, <2>2, <2>3, <2>4
<1>7. CASE Reconcile
  <2> DEFINE to == [Idle EXCEPT !.pc = "next", !.todo = overdue]
  <2>2. exp["start"].pc = "idle" /\ UNCHANGED <<ivs, prints, putBack>>
    BY <1>7 DEF Reconcile, At, store, history
  <2>3. to.listed = {} /\ to.print = None /\ to.pc = "next" BY <1>n
  <2>4. exp' = [exp EXCEPT !["start"] = to] BY <1>7 DEF Reconcile, Goes
  <2> HIDE DEF to
  <2> QED BY <1>0, <1>5, <2>2, <2>3, <2>4
<1>8. CASE SweepEnds
  BY <1>0, <1>5, <1>8, <1>i DEF SweepEnds, At, Goes, store, history
<1>9. CASE Serve
  BY <1>0, <1>5, <1>9, <1>i DEF Serve, At, Goes, store, history
<1>10. ASSUME NEW e \in Tasks, CloseOutEnds(e) PROVE ExpiriesInv'
  <2>1. /\ exp[e].pc = "next" /\ exp' = [exp EXCEPT ![e] = Idle] /\ UNCHANGED <<ivs, putBack>>
        /\ \A p \in Prints : prints'[p] = prints[p] \/ prints'[p] = "ended"
    BY <1>0, <1>10 DEF CloseOutEnds, At, Goes, history
  <2> QED BY <1>5, <1>i, <2>1
<1>11. CASE CloseByOperator
  <2>1. /\ exp["operator"].pc = "closing" /\ exp' = [exp EXCEPT !["operator"] = Idle]
        /\ UNCHANGED <<ivs, putBack>>
        /\ \A p \in Prints : prints'[p] = prints[p] \/ prints'[p] = "ended"
    BY <1>0, <1>11 DEF CloseByOperator, At, Goes, history
  <2> QED BY <1>0, <1>5, <1>i, <2>1
\* a print is being closed
<1>12. ASSUME NEW e \in Tasks, NEW p \in Prints, CloseOut(e, p) PROVE ExpiriesInv'
  <2> DEFINE to == [Idle EXCEPT !.pc = "next", !.print = p, !.todo = ActiveOn(p), !.listed = ActiveOn(p)]
  <2>1. /\ exp[e].pc = "idle" /\ exp' = [exp EXCEPT ![e] = to] /\ UNCHANGED <<ivs, prints, putBack>>
        /\ prints[p] = "open"
    BY <1>12 DEF CloseOut, At, Goes, store, history, OpenPrints
  <2>2. /\ to.listed = ActiveOn(p) /\ to.todo = ActiveOn(p) /\ to.print = p /\ to.pc = "next"
    BY DEF Idle
  <2> HIDE DEF to
  <2>3. exp'[e] = to /\ \A f \in Tasks \ {e} : exp'[f] = exp[f] BY <1>0, <2>1
  <2>4. \A i \in ActiveOn(p) : Opened(i) BY DEF ActiveOn, Active, Opened
  <2>5. ListedBy(e)' BY <2>1, <2>2, <2>3, <2>4 DEF ListedBy, Opened
  <2>6. DecidedBy(e)' BY <2>2, <2>3 DEF DecidedBy
  <2> QED BY <2>1, <2>3, <2>5, <2>6, OneTaskMoves
<1>13. ASSUME NEW p \in Prints, CheckClose(p) PROVE ExpiriesInv'
  <2> DEFINE to == [Idle EXCEPT !.pc = "closing", !.print = p]
  <2>1. /\ exp["operator"].pc = "idle" /\ exp' = [exp EXCEPT !["operator"] = to]
        /\ UNCHANGED <<ivs, prints, putBack>> /\ prints[p] = "open"
    BY <1>13 DEF CheckClose, At, Goes, store, history, OpenPrints
  <2>2. to.listed = {} /\ to.print = p /\ to.pc = "closing" BY DEF Idle
  <2> HIDE DEF to
  <2>3. exp'["operator"] = to /\ \A f \in Tasks \ {"operator"} : exp'[f] = exp[f] BY <1>0, <2>1
  <2>4. ListedBy("operator")' /\ DecidedBy("operator")' BY <1>0, <2>1, <2>2, <2>3, NothingListed
  <2> QED BY <1>0, <2>1, <2>3, <2>4, OneTaskMoves
\* an expiry
<1>14. ASSUME NEW e \in Tasks, NEW i \in Requests, Lock(e, i) PROVE ExpiriesInv'
  <2> DEFINE to == [exp[e] EXCEPT !.pc = "checking", !.it = i, !.todo = @ \ {i}]
  <2>1. /\ exp[e].pc = "next" /\ exp' = [exp EXCEPT ![e] = to] /\ UNCHANGED <<ivs, prints, putBack>>
    BY <1>14 DEF Lock, At, Goes, store, history
  <2>2. /\ to.listed = exp[e].listed /\ to.todo = exp[e].todo \ {i} /\ to.print = exp[e].print
        /\ to.pc = "checking" /\ to.it = i
    BY <1>0 DEF TaskRecord
  <2> HIDE DEF to
  <2>3. exp'[e] = to /\ \A f \in Tasks \ {e} : exp'[f] = exp[f] BY <1>0, <2>1
  <2>4. ListedBy(e)' BY <2>1, <2>2, <2>3 DEF ExpiriesInv, ListedBy, Inside, Active, Opened
  <2>5. DecidedBy(e)' BY <2>2, <2>3 DEF DecidedBy
  <2> QED BY <2>1, <2>3, <2>4, <2>5, OneTaskMoves
<1>15. ASSUME NEW e \in Tasks, Check(e) PROVE ExpiriesInv'
  <2> DEFINE i == exp[e].it
  <2>1. exp[e].pc = "checking" /\ UNCHANGED <<ivs, prints, putBack>> /\ Inside(e)
    BY <1>15 DEF Check, At, store, history, Inside
  <2>2. /\ exp'[e].listed = exp[e].listed /\ exp'[e].todo = exp[e].todo /\ exp'[e].print = exp[e].print
        /\ exp'[e].it = exp[e].it
        /\ \/ exp'[e].pc = "settling" /\ exp'[e].will = "unavailable"
           \/ exp'[e].pc = "restoring" /\ exp'[e].will = "failed"
           \/ exp'[e].pc = "restoring" /\ exp'[e].will = "restored" /\ Active(i)
        /\ \A f \in Tasks \ {e} : exp'[f] = exp[f]
    BY <1>0, <1>15 DEF Check, Goes, PutsBack, TaskRecord
  <2>3. ListedBy(e)' BY <2>1, <2>2 DEF ExpiriesInv, ListedBy, Inside, Active, Opened
  <2>4. Active(i) => i \notin putBack
    <3> SUFFICES ASSUME Active(i), i \in putBack PROVE FALSE OBVIOUS
    <3>1. PICK f \in Tasks : exp[f].pc = "settling" /\ exp[f].it = i
      BY DEF ExpiriesInv, ToBeSettled
    <3>2. f = e BY <2>1, <3>1, NoTwoInside DEF Inside
    <3> QED BY <2>1, <3>1, <3>2
  <2>5. DecidedBy(e)' BY <2>1, <2>2, <2>4 DEF DecidedBy, Active
  <2> QED BY <2>1, <2>2, <2>3, <2>5, OneTaskMoves
<1>16. ASSUME NEW e \in Tasks, Restore(e) PROVE ExpiriesInv'
  <2> DEFINE i == exp[e].it
  <2>1. exp[e].pc = "restoring" /\ UNCHANGED <<ivs, prints>> /\ Inside(e) /\ i \in Requests /\ Opened(i)
    BY <1>16 DEF Restore, At, store, Inside, IInv, ListsWhatWasOpened
  <2>2. /\ exp'[e].listed = exp[e].listed /\ exp'[e].todo = exp[e].todo /\ exp'[e].print = exp[e].print
        /\ exp'[e].it = i /\ exp'[e].pc = "settling"
        /\ \/ exp'[e].will = "restored" /\ putBack' = putBack \union {i}
           \/ exp'[e].will = "failed" /\ putBack' = putBack
        /\ \A f \in Tasks \ {e} : exp'[f] = exp[f]
    BY ZenonT(30), <1>0, <1>16 DEF Restore, Goes, TaskRecord
  <2>3. ListedBy(e)' BY <2>1, <2>2 DEF ExpiriesInv, ListedBy, Inside, Active, Opened
  <2>4. DecidedBy(e)' BY <2>2 DEF DecidedBy
  <2>5. ASSUME NEW f \in Tasks, f # e PROVE ListedBy(f)' /\ DecidedBy(f)'
    <3>1. Inside(f) => exp[f].it # i BY <2>1, <2>5, NoTwoInside
    <3> QED BY <2>1, <2>2, <2>5, <3>1, Elsewhere
  <2>6. ASSUME NEW j \in putBack' PROVE Opened(j)' /\ ToBeSettled(j)'
    <3>1. CASE j = i BY <2>1, <2>2, <3>1 DEF ToBeSettled, Opened
    <3>2. CASE j \in putBack
      <4>1. \A f \in Tasks : exp[f].pc = "settling" => exp'[f] = exp[f] BY <2>1, <2>2
      <4> QED BY <2>1, <3>2, <4>1 DEF ExpiriesInv, ToBeSettled, Opened, Active
    <3> QED BY <2>2, <2>6, <3>1, <3>2
  <2> QED BY <2>3, <2>4, <2>5, <2>6 DEF ExpiriesInv
<1>l. ASSUME NEW e \in Tasks, exp' = [exp EXCEPT ![e] = Next1(e)]
      PROVE  /\ exp'[e].listed = exp[e].listed /\ exp'[e].todo = exp[e].todo
             /\ exp'[e].print = exp[e].print /\ exp'[e].pc = "next"
             /\ \A f \in Tasks \ {e} : exp'[f] = exp[f]
  BY <1>0, <1>l DEF Next1, TaskRecord
<1>17. ASSUME NEW e \in Tasks, Settle(e) PROVE ExpiriesInv'
  <2>0. PICK i \in Requests : i = exp[e].it
    BY <1>17 DEF Settle, At, Inside, IInv, ListsWhatWasOpened
  <2>1. /\ exp[e].pc = "settling" /\ Inside(e)
        /\ UNCHANGED <<prints, putBack>> /\ exp[e].will \in {"restored", "unavailable", "failed"}
    BY <1>17 DEF Settle, At, history, Inside, IInv, ListsWhatWasOpened, ExpiriesInv, DecidedBy
  <2>2. /\ exp'[e].listed = exp[e].listed /\ exp'[e].todo = exp[e].todo
        /\ exp'[e].print = exp[e].print /\ exp'[e].pc = "next"
        /\ \A f \in Tasks \ {e} : exp'[f] = exp[f]
    BY <1>17, <1>l DEF Settle, Goes
  <2>3. \A k \in Requests : ivs'[k].state = IF k = i /\ Active(i) THEN exp[e].will ELSE ivs[k].state
    BY <1>0, <1>17, <2>0, Settling DEF Settle
  <2>4. ~Active(i)' BY <2>1, <2>3 DEF Active
  <2>5. ListedBy(e)'
    <3>1. exp[e].listed \subseteq Requests BY <1>0 DEF TaskRecord
    <3>2. \A j \in exp[e].listed : Opened(j) /\ Opened(j)' /\ (Active(j)' => Active(j) /\ j # i)
      BY <1>k, <2>4, <3>1 DEF ExpiriesInv, ListedBy
    <3> QED BY <2>0, <2>1, <2>2, <3>2 DEF ExpiriesInv, ListedBy
  <2>6. DecidedBy(e)' BY <2>2 DEF DecidedBy
  <2>7. ASSUME NEW f \in Tasks, f # e PROVE ListedBy(f)' /\ DecidedBy(f)'
    <3>1. Inside(f) => exp[f].it # i /\ exp[f].it \in Requests
      BY <2>0, <2>1, <2>7, NoTwoInside DEF IInv, ListsWhatWasOpened
    <3> QED BY <2>1, <2>2, <2>3, <2>7, <3>1, Elsewhere
  <2>8. ASSUME NEW j \in putBack' PROVE Opened(j)' /\ ToBeSettled(j)'
    <3>1. j \in putBack /\ j \in Requests /\ Opened(j) BY <1>0, <2>1, <2>8 DEF TypeOK, ExpiriesInv
    <3>2. ASSUME Active(j)' PROVE \E f \in Tasks : exp'[f].pc = "settling" /\ exp'[f].it = j
      <4>1. Active(j) /\ j # i BY <1>k, <2>4, <3>1, <3>2
      <4>2. PICK f \in Tasks : exp[f].pc = "settling" /\ exp[f].it = j
        BY <3>1, <4>1 DEF ExpiriesInv, ToBeSettled
      <4> QED BY <2>0, <2>2, <4>1, <4>2
    <3> QED BY <1>k, <3>1, <3>2 DEF ToBeSettled
  <2> QED BY <2>5, <2>6, <2>7, <2>8 DEF ExpiriesInv
<1>18. ASSUME NEW e \in Tasks, FailToRecord(e) PROVE ExpiriesInv'
  <2>1. /\ exp[e].pc = "restoring" /\ UNCHANGED <<ivs, prints, putBack>>
        /\ \A p \in Prints : prints[p] # "open"
    BY <1>18 DEF FailToRecord, At, store, history, OpenPrints
  <2>2. /\ exp'[e].listed = exp[e].listed /\ exp'[e].todo = exp[e].todo
        /\ exp'[e].print = exp[e].print /\ exp'[e].pc = "next"
        /\ \A f \in Tasks \ {e} : exp'[f] = exp[f]
    BY <1>18, <1>l DEF FailToRecord, Goes
  <2>3. exp[e].print \in Prints \union {None} BY <1>0 DEF TaskRecord
  <2>4. ListedBy(e)' BY <2>1, <2>2, <2>3 DEF ExpiriesInv, ListedBy, Opened
  <2>5. DecidedBy(e)' BY <2>2 DEF DecidedBy
  <2> QED BY <2>1, <2>2, <2>4, <2>5, OneTaskMoves
\* nothing is left of a server that is gone
<1>19. CASE Gone
  <2>1. putBack' = {} /\ \A e \in Tasks : exp'[e] = Idle BY <1>19 DEF Gone
  <2>2. \A e \in Tasks : ListedBy(e)' /\ DecidedBy(e)' BY <1>i, <2>1, NothingListed
  <2> QED BY <2>1, <2>2 DEF ExpiriesInv
<1>20. CASE Crash \/ RefuseStart BY <1>19, <1>20 DEF Crash, RefuseStart
<1>21. CASE \E e \in Tasks : Expire(e) \/ \E p \in Prints : CloseOut(e, p)
  BY <1>10, <1>12, <1>14, <1>15, <1>16, <1>17, <1>18, <1>21 DEF Expire
<1> QED BY <1>2, <1>3, <1>4, <1>6, <1>7, <1>8, <1>9, <1>11, <1>13, <1>20, <1>21 DEF Next

\* A print is ended by a close-out or by an operator's close, and no other step.
LEMMA PrintsEnd ==
  ASSUME IInv, [Next]_vars, NEW p \in Prints, prints[p] = "open", prints'[p] = "ended"
  PROVE  (\E e \in Tasks : CloseOutEnds(e)) \/ CloseByOperator
<1> USE DEF store
<1>1. CASE UNCHANGED vars BY <1>1 DEF vars
<1>2. CASE JobEnds \/ (\E i \in Requests : TimePasses(i)) BY <1>2 DEF JobEnds, TimePasses
<1>3. CASE JobBegins
  <2>1. PICK q \in Prints : prints[q] = "unborn" /\ prints' = [prints EXCEPT ![q] = "open"]
    BY <1>3 DEF JobBegins
  <2> QED BY <2>1 DEF IInv, TypeOK
<1>4. CASE \E r \in Requests : Proceed(r) \/ \E q \in Prints : Accept(r, q)
  BY <1>4 DEF Proceed, Accept, Record, Change, Gather, OpenIntervention, CountDown, Supersede, Answer
<1>5. CASE Sweep \/ SweepEnds \/ \E q \in Prints : CheckClose(q)
  BY <1>5 DEF Sweep, SweepEnds, CheckClose
<1>6. CASE \E e \in Tasks : Expire(e) \/ \E q \in Prints : CloseOut(e, q)
  BY <1>6 DEF Expire, CloseOut, Lock, Check, Restore, Settle, FailToRecord
<1>7. CASE Crash \/ Start \/ Reconcile \/ RefuseStart \/ Serve
  BY <1>7 DEF Crash, Start, Reconcile, RefuseStart, Serve
<1> QED BY <1>1, <1>2, <1>3, <1>4, <1>5, <1>6, <1>7 DEF Next

LEMMA InitExpiries == Init => CarriedForward /\ ExpiriesInv
<1> SUFFICES ASSUME Init PROVE CarriedForward /\ ExpiriesInv OBVIOUS
<1>1. CarriedForward BY Constants DEF Init, CarriedForward, NoRequest, NoIntervention
<1>2. \A e \in Tasks : exp[e] = Idle BY DEF Init
<1>3. Idle.listed = {} /\ Idle.print = None /\ Idle.pc = "idle" BY DEF Idle
<1>4. \A e \in Tasks : ListedBy(e) /\ DecidedBy(e) BY <1>2, <1>3 DEF ListedBy, DecidedBy
<1>5. putBack = {} BY DEF Init
<1> QED BY <1>1, <1>4, <1>5 DEF ExpiriesInv

\* The invariants of this module together hold of every reachable state.
InterventionsInv == IInv /\ CarriedForward /\ ExpiriesInv

LEMMA StepInterventionsInv == InterventionsInv /\ [Next]_vars => InterventionsInv'
  BY StepIInv, StepCarriedForward, StepExpiriesInv DEF InterventionsInv

\* events.rs 646-648: when a close-out ends a print, nothing it found active on
\* it is active still, whatever the driver and the requests did meanwhile.
THEOREM CloseOutsExpireFirst == Spec => CloseOutExpiresFirst
<1> DEFINE A ==
      \A e \in Tasks :
        exp[e].print # None /\ exp'[e] = Idle
        /\ prints[exp[e].print] = "open" /\ prints'[exp[e].print] = "ended"
          => \A i \in exp[e].listed : ~Active(i)
<1>1. ASSUME InterventionsInv, [Next]_vars PROVE A
  <2> SUFFICES ASSUME NEW e \in Tasks, exp[e].print # None, exp'[e] = Idle,
                      prints[exp[e].print] = "open", prints'[exp[e].print] = "ended",
                      NEW i \in exp[e].listed PROVE ~Active(i)
    OBVIOUS
  <2>0. exp \in [Tasks -> TaskRecord] /\ "operator" \in Tasks
    BY <1>1 DEF InterventionsInv, IInv, TypeOK, Tasks
  <2>1. exp[e].print \in Prints BY <2>0 DEF TaskRecord
  <2>2. exp[e] # Idle BY DEF Idle
  <2>3. ListedBy(e) BY <1>1 DEF InterventionsInv, ExpiriesInv
  <2>4. ASSUME NEW f \in Tasks, CloseOutEnds(f) PROVE ~Active(i)
    <3>1. f = e BY <2>0, <2>2, <2>4 DEF CloseOutEnds, Goes
    <3>2. exp[e].todo = {} /\ ~Inside(e) BY <2>4, <3>1 DEF CloseOutEnds, At, Inside
    <3> QED BY <2>3, <3>2 DEF ListedBy
  <2>5. CASE CloseByOperator
    <3>1. e = "operator" BY <2>0, <2>2, <2>5 DEF CloseByOperator, Goes
    <3>2. exp[e].pc = "closing" BY <2>5, <3>1 DEF CloseByOperator, At
    <3> QED BY <2>3, <3>2 DEF ListedBy
  <2> QED BY <1>1, <2>1, <2>4, <2>5, PrintsEnd DEF InterventionsInv
<1>2. Init => InterventionsInv BY InitIInv, InitExpiries DEF InterventionsInv
<1>3. InterventionsInv /\ [Next]_vars => [A]_vars BY <1>1
<1> QED BY <1>2, <1>3, StepInterventionsInv, PTL DEF Spec, CloseOutExpiresFirst

-----------------------------------------------------------------------------
(***************************************************************************)
(* The refinement of BoundedChanges.                                       *)
(***************************************************************************)
\* What a reader of the store sees of the interventions.
Seen == [i \in Requests |-> ivs[i].state]

\* The outcome of one intervention is written over an active one alone.
LEMMA SettlingSeen ==
  ASSUME TypeOK, NEW i \in Requests, NEW outcome, NEW by, ivs' = SettledAs(i, outcome, by)
  PROVE  Seen' = IF Active(i) THEN [Seen EXCEPT ![i] = outcome] ELSE Seen
<1>1. \A j \in Requests : ivs'[j].state = IF j = i /\ Active(i) THEN outcome ELSE ivs[j].state
  BY Settling
<1> QED BY <1>1 DEF Seen

\* Every step opens, puts back or settles a change as BoundedChanges allows,
\* restarts, or changes nothing that it speaks of.
LEMMA StepRefines ==
  ASSUME InterventionsInv, [Next]_vars
  PROVE  [Abstract!Next]_<<Seen, putBack>>
<1>0. TypeOK /\ IInv BY DEF InterventionsInv, IInv
<1> USE DEF Abstract!Next, Seen
<1>1. ASSUME NEW r \in Requests, OpenIntervention(r) PROVE Abstract!Open(r)
  <2>1. ivs[r].state = "none" BY <1>0, <1>1 DEF OpenIntervention, IInv, ListsWhatWasOpened, Opened
  <2>2. ivs'[r].state = "active" /\ \A i \in Requests \ {r} : ivs'[i] = ivs[i] /\ putBack' = putBack
    BY <1>0, <1>1 DEF OpenIntervention, TypeOK, history
  <2>3. Seen' = [Seen EXCEPT ![r] = "active"] BY <2>2
  <2>4. UNCHANGED putBack BY <1>1 DEF OpenIntervention, history
  <2> QED BY <2>1, <2>3, <2>4 DEF Abstract!Open
<1>2. ASSUME NEW r \in Requests, Supersede(r)
      PROVE  (\E i \in Requests : Abstract!Settle(i, "superseded")) \/ UNCHANGED <<Seen, putBack>>
  <2>1. PICK j \in req[r].earlier : ivs' = SettledAs(j, "superseded", r) BY <1>2 DEF Supersede
  <2>2. /\ j \in Requests \ {r} /\ Opened(r) /\ UNCHANGED putBack
    BY <1>0, <1>2, <2>1 DEF Supersede, TypeOK, RequestRecord, InterventionsInv, CarriedForward,
       IInv, ListsWhatWasOpened, history
  <2>3. Seen' = IF Active(j) THEN [Seen EXCEPT ![j] = "superseded"] ELSE Seen
    BY <1>0, <2>1, <2>2, SettlingSeen
  <2> QED BY <2>2, <2>3 DEF Abstract!Settle, Active, Opened
<1>3. ASSUME NEW e \in Tasks, Settle(e)
      PROVE  \/ \E i \in Requests : \E as \in Abstract!Settled : Abstract!Settle(i, as)
             \/ UNCHANGED <<Seen, putBack>>
  <2>1. PICK i \in Requests : i = exp[e].it
    BY <1>0, <1>3 DEF Settle, At, Inside, IInv, ListsWhatWasOpened
  <2>2. PICK as \in {"restored", "unavailable", "failed"} :
          as = exp[e].will /\ (as = "restored" => i \in putBack)
    BY <1>3, <2>1 DEF Settle, At, InterventionsInv, ExpiriesInv, DecidedBy
  <2>3. Seen' = IF Active(i) THEN [Seen EXCEPT ![i] = as] ELSE Seen
    BY <1>0, <1>3, <2>1, <2>2, SettlingSeen DEF Settle
  <2>4. UNCHANGED putBack BY <1>3 DEF Settle, history
  <2>5. as \in Abstract!Settled BY DEF Abstract!Settled
  <2> QED BY <2>2, <2>3, <2>4, <2>5 DEF Abstract!Settle, Active
<1>4. ASSUME NEW e \in Tasks, Restore(e)
      PROVE  (\E i \in Requests : Abstract!PutBack(i)) \/ UNCHANGED <<Seen, putBack>>
  <2>1. PICK i \in Requests : i = exp[e].it
    BY <1>0, <1>4 DEF Restore, At, Inside, IInv, ListsWhatWasOpened
  <2>2. UNCHANGED ivs BY <1>4 DEF Restore, store
  <2>3. CASE exp[e].will = "restored" /\ putBack' = putBack \union {exp[e].it}
    BY <1>4, <2>1, <2>2, <2>3
       DEF Restore, At, InterventionsInv, ExpiriesInv, DecidedBy, Abstract!PutBack
  <2>4. CASE UNCHANGED putBack BY <2>2, <2>4
  <2> QED BY <1>4, <2>3, <2>4 DEF Restore
<1>5. CASE Crash \/ RefuseStart
  BY <1>5 DEF Crash, RefuseStart, Gone, store, Abstract!Restart
<1>6. CASE /\ \A r \in Requests : ~OpenIntervention(r) /\ ~Supersede(r)
           /\ \A e \in Tasks : ~Settle(e) /\ ~Restore(e)
           /\ ~Crash /\ ~RefuseStart
  <2>1. UNCHANGED ivs BY <1>6, WritesOfInterventions
  <2>2. UNCHANGED putBack
    <3> USE DEF history
    <3>1. CASE UNCHANGED vars BY <3>1 DEF vars
    <3>2. CASE JobEnds \/ JobBegins \/ \E i \in Requests : TimePasses(i)
      BY <3>2 DEF JobEnds, JobBegins, TimePasses
    <3>3. CASE \E r \in Requests : Proceed(r) \/ \E p \in Prints : Accept(r, p)
      BY <1>6, <3>3 DEF Proceed, Accept, Record, Change, Gather, CountDown, Answer
    <3>4. CASE Sweep \/ SweepEnds \/ CloseByOperator \/ \E p \in Prints : CheckClose(p)
      BY <3>4 DEF Sweep, SweepEnds, CloseByOperator, CheckClose
    <3>5. CASE \E e \in Tasks : Expire(e) \/ \E p \in Prints : CloseOut(e, p)
      BY <1>6, <3>5 DEF Expire, CloseOut, Lock, Check, FailToRecord, CloseOutEnds
    <3>6. CASE Start \/ Reconcile \/ Serve
      BY <3>6 DEF Start, Reconcile, Serve
    <3> QED BY <1>6, <3>1, <3>2, <3>3, <3>4, <3>5, <3>6 DEF Next
  <2> QED BY <2>1, <2>2
<1>7. "superseded" \in Abstract!Settled BY DEF Abstract!Settled
<1> QED BY <1>1, <1>2, <1>3, <1>4, <1>5, <1>6, <1>7

\* What the store and the machine keep of the interventions is what
\* BoundedChanges promises: opened once, settled once, restored only if put
\* back, and put back once by a life of the server.
THEOREM RefinesBoundedChanges == Spec => ImplementsBoundedChanges
<1>1. Init => Abstract!Init BY DEF Init, Abstract!Init, NoIntervention
<1>2. Init => InterventionsInv BY InitIInv, InitExpiries DEF InterventionsInv
<1>3. InterventionsInv /\ [Next]_vars => [Abstract!Next]_<<Seen, putBack>> BY StepRefines
<1> QED BY <1>1, <1>2, <1>3, StepInterventionsInv, PTL DEF Spec, ImplementsBoundedChanges, Abstract!Spec, Seen
=============================================================================
