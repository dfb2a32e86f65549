--------------------------- MODULE Listing_proofs ---------------------------
(***************************************************************************)
(* That the printer's job is one print's, for any number of jobs and of    *)
(* prints, however long they run and pause: whatever reads, alerts,        *)
(* starts, closes and turns find, in any order and through any restart, a  *)
(* job has one open print, no read ends the print of the job still         *)
(* running, and no read or alert of a later job takes an earlier one's.    *)
(***************************************************************************)
EXTENDS PrintListing, WellFoundedInduction, TLAPS

ListingSpec == ListingInit /\ [][ListingNext]_listing

Known == Nat \union {Unknown}
PrintRecord ==
  [file : Files \union {Unknown}, provider : Known, started : Known, longest : Known, open : BOOLEAN,
   job : Known, known : Known, merged : BOOLEAN]
JobRecord ==
  [file : Files, began : Nat, resumed : Nat, paused : Known, state : {"printing", "paused", "over"}]
Report == [state : {"printing", "paused"}, at : Nat, job : Nat, running : Known, printed : Nat]
NoReport == {[state |-> "over"], [state |-> "unread"]}

Reads == [stage : {"read"}, seen : Report \union NoReport]
Alerts == [stage : {"looked"}, job : Nat, dated : BOOLEAN, found : Known]
Starts == [stage : {"chosen"}, print : Nat, file : Files]
Closes == [stage : {"checked"}, print : Nat, sure : BOOLEAN]

-----------------------------------------------------------------------------
(* The jobs js at a time t *)

Runs(js) == {j \in DOMAIN js : js[j].state # "over"}
UntilOf(job, t) == IF job.state = "paused" THEN job.paused ELSE t
StartOf(job) == job.began + job.resumed
\* How long a job has truly printed.
PrintedOf(job, t) == UntilOf(job, t) - StartOf(job)

\* The last job alone runs, and has run since it began but for its pauses.
JobsOf(js, t) ==
  /\ t \in Nat /\ js \in Seq(JobRecord)
  /\ \A j \in Runs(js) : j = Len(js) /\ StartOf(js[j]) <= UntilOf(js[j], t) /\ UntilOf(js[j], t) <= t

\* From js at t to ks at u: a job running at both has printed no less and starts
\* no earlier, and one that runs anew began at t or later.
Onward(js, t, ks, u) ==
  /\ JobsOf(ks, u) /\ t <= u /\ DOMAIN js \subseteq DOMAIN ks
  /\ \A j \in DOMAIN js : ks[j].file = js[j].file
  /\ \A j \in Runs(ks) :
       \/ /\ j \in Runs(js) /\ ks[j].began = js[j].began
          /\ StartOf(js[j]) <= StartOf(ks[j]) /\ PrintedOf(js[j], t) <= PrintedOf(ks[j], u)
       \/ j \notin DOMAIN js /\ t <= ks[j].began

-----------------------------------------------------------------------------
(* A print's record, and what a read has seen *)

\* What an open print records: nothing of no job, and of its own job that it was
\* not seen for longer than from its start, and before any job running after it.
Recorded(print, js, t) ==
  /\ IF print.job = Unknown
       THEN /\ print.provider = Unknown /\ print.started = Unknown /\ print.longest = Unknown
            /\ print.known = Unknown /\ ~print.merged
       ELSE print.job \in DOMAIN js /\ print.file = js[print.job].file
  /\ print.provider # Unknown => print.provider \in DOMAIN js /\ print.job <= print.provider
  /\ print.known <= print.longest
  /\ (~print.merged /\ print.known # Unknown) =>
       /\ print.started # Unknown /\ print.known + print.started <= t
       /\ \A j \in Runs(js) : j # print.job => print.known + print.started <= js[j].began

\* What the print of a running job records agrees with the job, but for what a
\* pause adds.
Agrees(print, js, t) ==
  print.job \in Runs(js) =>
    LET job == js[print.job] IN
    /\ print.longest <= PrintedOf(job, t) + Pausing /\ print.known <= PrintedOf(job, t)
    /\ print.started # Unknown => job.began <= print.started
    /\ (print.started # Unknown /\ ~print.merged) => print.started <= StartOf(job)

\* A report of a job says of it, and of every job running after it, what is so.
Reported(o, js, t) ==
  /\ o.job \in DOMAIN js /\ o.at <= t /\ o.printed <= o.at
  /\ o.running # Unknown => o.printed <= o.running /\ o.running <= o.at
  /\ (o.running # Unknown /\ o.state = "printing") => o.running <= o.printed + Pausing
  /\ \A j \in Runs(js) : j # o.job => o.at <= js[j].began
  /\ o.job \in Runs(js) =>
       /\ o.printed <= PrintedOf(js[o.job], t)
       /\ o.running # Unknown => /\ js[o.job].began <= o.at - o.running
                                 /\ o.at - o.running <= StartOf(js[o.job])

\* A print is of the reported job if of one that runs, and then records no more
\* of it than the report.
SeenOf(print, o, js) ==
  /\ print.job \in Runs(js) => print.job = o.job
  /\ print.job = o.job =>
       /\ print.longest <= o.printed + Pausing /\ print.known <= o.printed
       /\ (~print.merged /\ print.started # Unknown /\ o.running # Unknown) =>
            print.started <= o.at - o.running

-----------------------------------------------------------------------------
(* The invariant *)

\* A job has one open print, and a print no job is known of is the only open one
\* of its file.
Opens(ps) == {p \in DOMAIN ps : ps[p].open}
OneEach(ps) ==
  \A p, q \in Opens(ps) : p # q =>
    /\ ps[p].job = ps[q].job => ps[p].job = Unknown
    /\ ps[p].job = Unknown => ps[p].file # ps[q].file
PrintsInv(ps, js, t) ==
  /\ ps \in Seq(PrintRecord) /\ OneEach(ps)
  /\ \A p \in Opens(ps) : Recorded(ps[p], js, t) /\ Agrees(ps[p], js, t)

OpTypes ==
  /\ DOMAIN ops = Actors
  /\ ops["read"] \in Reads \union {Idle} /\ ops["alert"] \in Alerts \union {Idle}
  /\ ops["start"] \in Starts \union {Idle} /\ ops["close"] \in Closes \union {Idle}
TurnTypes == turn = NoTurn \/ turn \in [print : DOMAIN prints, idle : BOOLEAN, stage : {"held", "closing"}]
\* The resolution of prints is one actor's.
OneInFlight == \A a, b \in Actors : ops[a] # Idle /\ ops[b] # Idle => a = b

ReadSaw ==
  ops["read"] # Idle =>
    LET o == ops["read"].seen IN
    /\ o.state = "over" => \A p \in Opens(prints) : prints[p].job \notin Runs(jobs)
    /\ o.state \in {"printing", "paused"} =>
         Reported(o, jobs, now) /\ \A p \in Opens(prints) : SeenOf(prints[p], o, jobs)

\* An alert that found no print leaves none of its job, and none of its file with
\* no job known; one that found a print found one it may attach to.
AlertFound ==
  ops["alert"] # Idle =>
    LET j == ops["alert"].job
        found == ops["alert"].found
    IN /\ j \in DOMAIN jobs
       /\ \A p \in Opens(prints) :
            /\ prints[p].job <= j
            /\ found = Unknown => /\ prints[p].job # j
                                  /\ prints[p].job = Unknown => prints[p].file # jobs[j].file
       /\ found # Unknown =>
            /\ found \in DOMAIN prints
            /\ ~prints[found].open => prints[found].job = Unknown
            /\ prints[found].open =>
                 /\ prints[found].provider = Unknown /\ prints[found].file = jobs[j].file
                 /\ ops["alert"].dated =>
                      \/ prints[found].job \in {Unknown, j} \/ prints[found].merged
                      \/ prints[found].known <= Tolerance

StartGiven == ops["start"] # Idle => ops["start"].print \in DOMAIN prints

CloseSaw ==
  ops["close"] # Idle =>
    LET print == prints[ops["close"].print] IN
    /\ ops["close"].print \in DOMAIN prints
    /\ ops["close"].sure /\ print.open => print.job \notin Runs(jobs)

OpsInv == ReadSaw /\ AlertFound /\ StartGiven /\ CloseSaw
ListingIInv ==
  JobsOf(jobs, now) /\ PrintsInv(prints, jobs, now) /\ OpTypes /\ TurnTypes /\ OneInFlight /\ OpsInv

-----------------------------------------------------------------------------
(* Jobs going on *)

\* A running job is the last, and what it has printed is a natural number.
LEMMA RunsIs ==
  ASSUME NEW js, NEW t, JobsOf(js, t), NEW j \in Runs(js)
  PROVE  /\ j \in DOMAIN js /\ j = Len(js) /\ js[j] \in JobRecord /\ StartOf(js[j]) \in Nat
         /\ UntilOf(js[j], t) \in Nat /\ PrintedOf(js[j], t) \in Nat
         /\ StartOf(js[j]) <= UntilOf(js[j], t) /\ UntilOf(js[j], t) <= t
         /\ js[j].began <= StartOf(js[j])
<1>1. j \in DOMAIN js /\ j = Len(js) /\ StartOf(js[j]) <= UntilOf(js[j], t) /\ UntilOf(js[j], t) <= t
  BY DEF JobsOf, Runs
<1>2. js[j] \in JobRecord BY <1>1 DEF JobsOf
<1>3. t \in Nat BY DEF JobsOf
<1>4. StartOf(js[j]) \in Nat /\ js[j].began <= StartOf(js[j]) BY <1>2 DEF JobRecord, StartOf
<1>5. UntilOf(js[j], t) \in Int BY <1>2, <1>3 DEF JobRecord, UntilOf, Known, Unknown
<1>6. UntilOf(js[j], t) \in Nat /\ PrintedOf(js[j], t) \in Nat BY <1>1, <1>4, <1>5 DEF PrintedOf
<1> QED BY <1>1, <1>2, <1>4, <1>6

LEMMA DomainsAre ==
  ASSUME NEW S,
         NEW s \in Seq(S) PROVE DOMAIN s = 1..Len(s) /\ Len(s) \in Nat /\ \A i \in DOMAIN s : s[i] \in S
  OBVIOUS

\* Time passes.
LEMMA TimePasses ==
  ASSUME NEW js, NEW t, JobsOf(js, t) PROVE Onward(js, t, js, t + 1)
<1>1. t \in Nat /\ js \in Seq(JobRecord) BY DEF JobsOf
<1>2. ASSUME NEW j \in Runs(js)
      PROVE  /\ StartOf(js[j]) <= UntilOf(js[j], t + 1) /\ UntilOf(js[j], t + 1) <= t + 1
             /\ PrintedOf(js[j], t) <= PrintedOf(js[j], t + 1)
  <2>1. UntilOf(js[j], t + 1) = UntilOf(js[j], t) \/ (UntilOf(js[j], t) = t /\ UntilOf(js[j], t + 1) = t + 1)
    BY DEF UntilOf
  <2> QED BY <1>1, <2>1, RunsIs DEF PrintedOf
<1>3. JobsOf(js, t + 1) BY <1>1, <1>2 DEF JobsOf
<1>4. \A j \in Runs(js) : StartOf(js[j]) \in Nat BY RunsIs
<1> QED BY <1>1, <1>2, <1>3, <1>4 DEF Onward

\* A job begins.
LEMMA BeginsAfter ==
  ASSUME NEW js, NEW t, JobsOf(js, t), Runs(js) = {}, NEW file \in Files,
         NEW job, job = [file |-> file, began |-> t, resumed |-> 0, paused |-> Unknown, state |-> "printing"]
  PROVE  /\ Onward(js, t, Append(js, job), t) /\ Runs(Append(js, job)) = {Len(js) + 1}
         /\ Append(js, job)[Len(js) + 1] = job /\ Len(js) + 1 \notin DOMAIN js
         /\ Len(js) + 1 \in DOMAIN Append(js, job) /\ PrintedOf(job, t) = 0
<1> DEFINE ks == Append(js, job)
<1>1. t \in Nat /\ js \in Seq(JobRecord) BY DEF JobsOf
<1>2. job \in JobRecord BY <1>1 DEF JobRecord, Known
<1>3. /\ ks \in Seq(JobRecord) /\ Len(ks) = Len(js) + 1 /\ DOMAIN ks = 1..(Len(js) + 1)
      /\ DOMAIN js = 1..Len(js) /\ Len(js) \in Nat
      /\ ks[Len(js) + 1] = job /\ \A j \in DOMAIN js : ks[j] = js[j]
  BY <1>1, <1>2
<1>4. job.state = "printing" /\ job.began = t /\ job.resumed = 0 OBVIOUS
<1>5. Runs(ks) = {Len(js) + 1}
  <2>1. ASSUME NEW j \in Runs(ks) PROVE j = Len(js) + 1
    <3>1. j \in DOMAIN js => j \in Runs(js) BY <1>3 DEF Runs
    <3> QED BY <1>3, <3>1 DEF Runs
  <2>2. Len(js) + 1 \in Runs(ks) BY <1>3, <1>4 DEF Runs
  <2> QED BY <2>1, <2>2
<1>6. StartOf(job) = t /\ UntilOf(job, t) = t /\ PrintedOf(job, t) = 0
  BY <1>1, <1>4 DEF StartOf, UntilOf, PrintedOf
<1> HIDE DEF ks
<1>7. JobsOf(ks, t) BY <1>1, <1>3, <1>5, <1>6 DEF JobsOf
<1>8. Onward(js, t, ks, t) BY <1>1, <1>3, <1>4, <1>5, <1>7 DEF Onward
<1> QED BY <1>3, <1>5, <1>6, <1>8 DEF ks

\* A job changes its state and no other does.
LEMMA ChangesOnly ==
  ASSUME NEW js, NEW t, JobsOf(js, t), NEW j \in Runs(js), NEW job \in JobRecord,
         job.file = js[j].file,
         job.state # "over" =>
           /\ job.began = js[j].began /\ StartOf(js[j]) <= StartOf(job)
           /\ PrintedOf(job, t) = PrintedOf(js[j], t) /\ UntilOf(job, t) <= t
  PROVE  Onward(js, t, [js EXCEPT ![j] = job], t)
<1> DEFINE ks == [js EXCEPT ![j] = job]
<1>1. t \in Nat /\ js \in Seq(JobRecord) BY DEF JobsOf
<1>2. j \in DOMAIN js /\ j = Len(js) BY RunsIs
<1>3. /\ ks \in Seq(JobRecord) /\ DOMAIN ks = DOMAIN js /\ Len(ks) = Len(js)
      /\ ks[j] = job /\ \A k \in DOMAIN js : k # j => ks[k] = js[k]
  BY <1>1, <1>2
<1> HIDE DEF ks
<1>4. ASSUME NEW k \in Runs(ks) PROVE k = j /\ job.state # "over"
  <2>1. k \in DOMAIN js BY <1>3 DEF Runs
  <2>2. k # j => k \in Runs(js) BY <1>3, <2>1 DEF Runs
  <2>3. k = j BY <1>2, <2>2, RunsIs
  <2> QED BY <1>3, <2>3 DEF Runs
<1>5. StartOf(js[j]) \in Nat /\ PrintedOf(js[j], t) \in Nat BY RunsIs
<1>6. job.state # "over" => StartOf(job) <= UntilOf(job, t)
  <2>1. UntilOf(job, t) \in Int /\ StartOf(job) \in Nat
    BY <1>1 DEF JobRecord, UntilOf, StartOf, Known, Unknown
  <2> QED BY <1>5, <2>1 DEF PrintedOf
<1>7. JobsOf(ks, t) BY <1>1, <1>2, <1>3, <1>4, <1>6 DEF JobsOf
<1>8. Onward(js, t, ks, t) BY <1>1, <1>2, <1>3, <1>4, <1>5, <1>7 DEF Onward
<1> QED BY <1>8 DEF ks

\* What is so of a print and of a report stays so as the jobs go on.
LEMMA RunsOnward ==
  ASSUME NEW js, NEW t, NEW ks, NEW u, JobsOf(js, t), Onward(js, t, ks, u)
  PROVE  /\ \A j \in Runs(ks) : j \in DOMAIN js => j \in Runs(js)
         /\ DOMAIN js \subseteq DOMAIN ks /\ t \in Nat /\ u \in Nat /\ t <= u
  BY DEF Onward, JobsOf

LEMMA PrintsGoOn ==
  ASSUME NEW js, NEW t, NEW ks, NEW u, JobsOf(js, t), Onward(js, t, ks, u),
         NEW print \in PrintRecord, Recorded(print, js, t), Agrees(print, js, t)
  PROVE  Recorded(print, ks, u) /\ Agrees(print, ks, u) /\ (print.job \in Runs(ks) => print.job \in Runs(js))
<1>1. /\ print.job \in Known /\ print.known \in Known /\ print.started \in Known /\ print.longest \in Known
      /\ print.provider \in Known /\ print.merged \in BOOLEAN
  BY DEF PrintRecord
<1>2. print.job # Unknown => print.job \in DOMAIN js BY DEF Recorded
<1>3. print.job \in Runs(ks) => print.job \in Runs(js)
  <2>1. Unknown \notin Runs(ks)
    <3>1. ks \in Seq(JobRecord) BY DEF Onward, JobsOf
    <3> QED BY <3>1 DEF Runs, Unknown
  <2> QED BY <1>2, <2>1, RunsOnward
<1>4. ASSUME ~print.merged, print.known # Unknown
      PROVE  /\ print.known + print.started <= u
             /\ \A j \in Runs(ks) : j # print.job => print.known + print.started <= ks[j].began
  <2>1. /\ print.known + print.started <= t
        /\ \A j \in Runs(js) : j # print.job => print.known + print.started <= js[j].began
    BY <1>4 DEF Recorded
  <2>2. print.known + print.started \in Int BY <1>1 DEF Known, Unknown
  <2>3. print.known + print.started <= u BY <2>1, <2>2, RunsOnward
  <2>4. ASSUME NEW j \in Runs(ks), j # print.job PROVE print.known + print.started <= ks[j].began
    <3>1. CASE j \in Runs(js) /\ ks[j].began = js[j].began BY <2>1, <2>4, <3>1
    <3>2. CASE t <= ks[j].began
      <4>1. ks[j] \in JobRecord BY RunsIs DEF Onward
      <4>2. ks[j].began \in Nat BY <4>1 DEF JobRecord
      <4> QED BY <2>1, <2>2, <3>2, <4>2, RunsOnward
    <3> QED BY <3>1, <3>2 DEF Onward
  <2> QED BY <2>3, <2>4
<1>5. Recorded(print, ks, u)
  <2>1. print.job # Unknown => print.job \in DOMAIN ks /\ print.file = ks[print.job].file
    BY <1>2, RunsOnward DEF Recorded, Onward
  <2>2. print.provider # Unknown => print.provider \in DOMAIN ks /\ print.job <= print.provider
    BY RunsOnward DEF Recorded
  <2> QED BY <1>4, <2>1, <2>2 DEF Recorded
<1>6. Agrees(print, ks, u)
  <2> SUFFICES ASSUME print.job \in Runs(ks)
               PROVE  /\ print.longest <= PrintedOf(ks[print.job], u) + Pausing
                      /\ print.known <= PrintedOf(ks[print.job], u)
                      /\ print.started # Unknown => ks[print.job].began <= print.started
                      /\ (print.started # Unknown /\ ~print.merged) => print.started <= StartOf(ks[print.job])
    BY DEF Agrees
  <2>1. print.job \in Runs(js) BY <1>3
  <2>2. print.job \in DOMAIN js BY <2>1 DEF Runs
  <2>3. /\ ks[print.job].began = js[print.job].began /\ StartOf(js[print.job]) <= StartOf(ks[print.job])
        /\ PrintedOf(js[print.job], t) <= PrintedOf(ks[print.job], u)
    BY <2>2 DEF Onward
  <2>4. /\ StartOf(js[print.job]) \in Nat /\ PrintedOf(js[print.job], t) \in Nat
    BY <2>1, RunsIs
  <2>5. JobsOf(ks, u) BY DEF Onward
  <2>6. StartOf(ks[print.job]) \in Nat /\ PrintedOf(ks[print.job], u) \in Nat
    BY <2>5, RunsIs
  <2>7. Pausing \in Nat BY ListingConstants
  <2> QED BY <1>1, <2>1, <2>3, <2>4, <2>6, <2>7 DEF Agrees, Known, Unknown
<1> QED BY <1>3, <1>5, <1>6

LEMMA ReportsGoOn ==
  ASSUME NEW js, NEW t, NEW ks, NEW u, JobsOf(js, t), Onward(js, t, ks, u), NEW o \in Report,
         Reported(o, js, t)
  PROVE  Reported(o, ks, u)
<1>1. o.at \in Nat /\ o.printed \in Nat /\ o.running \in Known BY DEF Report
<1>2. o.job \in DOMAIN ks /\ o.at <= u BY <1>1, RunsOnward DEF Reported
<1>3. ASSUME NEW j \in Runs(ks), j # o.job PROVE o.at <= ks[j].began
  <2>1. CASE j \in Runs(js) /\ ks[j].began = js[j].began BY <1>3, <2>1 DEF Reported
  <2>2. CASE t <= ks[j].began
    <3>1. ks[j] \in JobRecord BY RunsIs DEF Onward
    <3>2. ks[j].began \in Nat BY <3>1 DEF JobRecord
    <3> QED BY <1>1, <2>2, <3>2, RunsOnward DEF Reported
  <2> QED BY <2>1, <2>2 DEF Onward
<1>4. ASSUME o.job \in Runs(ks)
      PROVE  /\ o.printed <= PrintedOf(ks[o.job], u)
             /\ o.running # Unknown => /\ ks[o.job].began <= o.at - o.running
                                       /\ o.at - o.running <= StartOf(ks[o.job])
  <2>1. o.job \in DOMAIN js /\ o.job \in Runs(js) BY <1>4, RunsOnward DEF Reported
  <2>2. /\ ks[o.job].began = js[o.job].began /\ StartOf(js[o.job]) <= StartOf(ks[o.job])
        /\ PrintedOf(js[o.job], t) <= PrintedOf(ks[o.job], u)
    BY <1>4, <2>1 DEF Onward
  <2>3. StartOf(js[o.job]) \in Nat /\ PrintedOf(js[o.job], t) \in Nat BY <2>1, RunsIs
  <2>4. JobsOf(ks, u) BY DEF Onward
  <2>5. StartOf(ks[o.job]) \in Nat /\ PrintedOf(ks[o.job], u) \in Nat BY <1>4, <2>4, RunsIs
  <2> QED BY <1>1, <2>1, <2>2, <2>3, <2>5 DEF Reported, Known, Unknown
<1> QED BY <1>2, <1>3, <1>4 DEF Reported

LEMMA SightGoesOn ==
  ASSUME NEW js, NEW t, NEW ks, NEW u, JobsOf(js, t), Onward(js, t, ks, u), NEW o,
         NEW print \in PrintRecord, Recorded(print, js, t), Agrees(print, js, t), SeenOf(print, o, js)
  PROVE  SeenOf(print, o, ks)
  BY PrintsGoOn DEF SeenOf

-----------------------------------------------------------------------------
(* A print ended, opened, and taken for the job a read reported *)

LEMMA NewIs ==
  ASSUME NEW file \in Files \union {Unknown}, NEW provider \in Known, NEW job \in Known
  PROVE  LET print == NewPrint(file, provider, job) IN
         /\ print \in PrintRecord /\ print.file = file /\ print.provider = provider /\ print.job = job
         /\ print.open /\ ~print.merged
         /\ print.started = Unknown /\ print.longest = Unknown /\ print.known = Unknown
  BY DEF NewPrint, PrintRecord, Known

LEMMA EndedIs ==
  ASSUME NEW print \in PrintRecord
  PROVE  Ended(print) \in PrintRecord /\ ~Ended(print).open /\ Ended(print).job = Unknown
         /\ ~Ended(print).merged /\ Ended(print).provider = print.provider
<1>1. print.provider \in Known BY DEF PrintRecord
<1> QED BY <1>1, NewIs DEF Ended, NewPrint, PrintRecord, Known

LEMMA LaterIs ==
  ASSUME NEW a \in Known, NEW b \in Known
  PROVE  Later(a, b) \in Known /\ a <= Later(a, b) /\ b <= Later(a, b)
         /\ \A c \in Int : a <= c /\ b <= c => Later(a, b) <= c
         /\ (a <= b => Later(a, b) = b) /\ (b = Unknown => Later(a, b) = a)
  BY DEF Later, Known, Unknown

\* What a report of no running time, or of one, leaves of a print.
LEMMA SightedIs ==
  ASSUME NEW print \in PrintRecord, NEW o \in Report, o.running # Unknown => o.running <= o.at
  PROVE  LET seen == Sighted(print, o) IN
         /\ seen \in PrintRecord
         /\ seen.file = print.file /\ seen.provider = print.provider /\ seen.open = print.open
         /\ seen.job = print.job /\ seen.known = print.known /\ seen.merged = print.merged
         /\ o.running = Unknown => seen = print
         /\ o.running # Unknown =>
              /\ seen.longest = Later(print.longest, PrintingTime(o))
              /\ \/ seen.started = print.started /\ print.started # Unknown
                 \/ seen.started = o.at - o.running
              /\ seen.started \in Nat
<1>1. CASE o.running = Unknown BY <1>1 DEF Sighted
<1>2. CASE o.running # Unknown
  <2>1. print.longest \in Known /\ print.started \in Known BY DEF PrintRecord
  <2>2. PrintingTime(o) \in Known BY DEF PrintingTime, Report, Known
  <2>3. Later(print.longest, PrintingTime(o)) \in Known BY <2>1, <2>2, LaterIs
  <2>4. o.at - o.running \in Nat BY <1>2 DEF Report, Known, Unknown
  <2>5. PICK started \in Nat :
          /\ started = IF print.started # Unknown /\ Apart(print.started, o.at - o.running) <= Tolerance
                         THEN print.started ELSE o.at - o.running
          /\ \/ started = print.started /\ print.started # Unknown
             \/ started = o.at - o.running
    BY <2>1, <2>4 DEF Known, Unknown
  <2>6. Sighted(print, o) = [print EXCEPT !.started = started, !.longest = Later(print.longest, PrintingTime(o))]
    BY <1>2, <2>5 DEF Sighted, PrintRecord
  <2> QED BY <1>2, <2>3, <2>5, <2>6 DEF PrintRecord, Known
<1> QED BY <1>1, <1>2

LEMMA TakenIs ==
  ASSUME NEW print \in PrintRecord, NEW o \in Report
  PROVE  LET taken == Taken(print, o) IN
         /\ taken \in PrintRecord
         /\ taken.file = print.file /\ taken.provider = print.provider /\ taken.open = print.open
         /\ taken.started = print.started /\ taken.longest = print.longest
         /\ taken.job = IF print.job = Unknown THEN o.job ELSE print.job
         /\ taken.merged = (print.merged \/ print.job \notin {Unknown, o.job})
         /\ taken.known = IF print.job \in {Unknown, o.job} /\ o.state = "printing" /\ o.running # Unknown
                            THEN Later(print.known, o.printed) ELSE print.known
<1>1. Later(print.known, o.printed) \in Known BY LaterIs DEF PrintRecord, Report, Known
<1>2. o.job \in Known BY DEF Report, Known
<1> QED BY <1>1, <1>2 DEF Taken, PrintRecord

\* A print of the job's file that may be of the reported job, taken for it,
\* records what is so.
LEMMA TakenFits ==
  ASSUME NEW print \in PrintRecord, NEW o \in Report, JobsOf(jobs, now), Reported(o, jobs, now),
         Recorded(print, jobs, now), Agrees(print, jobs, now), SeenOf(print, o, jobs),
         print.file = jobs[o.job].file
  PROVE  LET taken == Taken(Sighted(print, o), o) IN
         /\ taken \in PrintRecord /\ taken.file = print.file /\ taken.open = print.open
         /\ taken.job = IF print.job = Unknown THEN o.job ELSE print.job
         /\ Recorded(taken, jobs, now) /\ Agrees(taken, jobs, now)
<1> DEFINE seen == Sighted(print, o)
           taken == Taken(seen, o)
<1>1. /\ print.job \in Known /\ print.known \in Known /\ print.started \in Known /\ print.longest \in Known
      /\ print.provider \in Known /\ print.merged \in BOOLEAN
  BY DEF PrintRecord
<1>2. /\ o.at \in Nat /\ o.printed \in Nat /\ o.running \in Known /\ o.job \in Nat
      /\ o.state \in {"printing", "paused"}
  BY DEF Report
<1>3. /\ seen \in PrintRecord
      /\ seen.file = print.file /\ seen.provider = print.provider /\ seen.open = print.open
      /\ seen.job = print.job /\ seen.known = print.known /\ seen.merged = print.merged
      /\ o.running = Unknown => seen.started = print.started /\ seen.longest = print.longest
      /\ o.running # Unknown =>
           /\ seen.longest = Later(print.longest, PrintingTime(o))
           /\ \/ seen.started = print.started /\ print.started # Unknown
              \/ seen.started = o.at - o.running
           /\ seen.started \in Nat
  BY SightedIs DEF Reported
<1>4. /\ taken \in PrintRecord
      /\ taken.file = print.file /\ taken.provider = print.provider /\ taken.open = print.open
      /\ taken.started = seen.started /\ taken.longest = seen.longest
      /\ taken.job = IF print.job = Unknown THEN o.job ELSE print.job
      /\ taken.merged = (print.merged \/ print.job \notin {Unknown, o.job})
      /\ taken.known = IF print.job \in {Unknown, o.job} /\ o.state = "printing" /\ o.running # Unknown
                         THEN Later(print.known, o.printed) ELSE print.known
  BY <1>3, TakenIs
<1> HIDE DEF seen, taken
<1>5. taken.longest \in Known /\ taken.known \in Known /\ taken.started \in Known
  BY <1>4 DEF PrintRecord
<1>6. o.job # Unknown /\ o.job \in DOMAIN jobs BY <1>2 DEF Unknown, Reported
<1>7. PrintingTime(o) \in Known /\ (PrintingTime(o) # Unknown => PrintingTime(o) = o.running /\ o.state = "printing")
  BY <1>2 DEF PrintingTime, Known
\* How the longest and what is known are taken on.
<1>8. /\ print.longest <= taken.longest
      /\ \/ taken.longest <= print.longest
         \/ o.state = "printing" /\ o.running # Unknown /\ taken.longest = o.running
  <2>1. CASE o.running = Unknown BY <1>1, <1>3, <1>4, <2>1 DEF Known, Unknown
  <2>2. CASE o.running # Unknown
    <3>1. taken.longest = Later(print.longest, PrintingTime(o)) BY <1>3, <1>4, <2>2
    <3>2. CASE PrintingTime(o) = Unknown
      <4>1. taken.longest = print.longest BY <1>1, <3>1, <3>2 DEF Later, Known, Unknown
      <4> QED BY <1>1, <4>1 DEF Known, Unknown
    <3>3. CASE PrintingTime(o) # Unknown
      <4>1. taken.longest = IF print.longest > o.running THEN print.longest ELSE o.running
        BY <1>7, <3>1, <3>3 DEF Later
      <4> QED BY <1>1, <1>2, <1>7, <2>2, <3>3, <4>1 DEF Known, Unknown
    <3> QED BY <3>2, <3>3
  <2> QED BY <2>1, <2>2
<1>9. \/ taken.known = print.known
      \/ /\ print.job \in {Unknown, o.job} /\ o.state = "printing" /\ o.running # Unknown
         /\ taken.known = o.printed
         /\ taken.longest = Later(print.longest, o.running)
  <2>1. CASE print.job \in {Unknown, o.job} /\ o.state = "printing" /\ o.running # Unknown
    <3>1. taken.known = IF print.known > o.printed THEN print.known ELSE o.printed
      BY <1>4, <2>1 DEF Later
    <3>2. taken.longest = Later(print.longest, o.running)
      BY <1>3, <1>4, <2>1 DEF PrintingTime
    <3> QED BY <2>1, <3>1, <3>2
  <2>2. CASE ~(print.job \in {Unknown, o.job} /\ o.state = "printing" /\ o.running # Unknown)
    BY <1>4, <2>2
  <2> QED BY <2>1, <2>2
<1>10. print.job = Unknown => print.longest = Unknown /\ print.known = Unknown /\ print.started = Unknown
  BY DEF Recorded
<1>11. print.job = o.job => print.longest <= o.printed + Pausing /\ print.known <= o.printed
  BY DEF SeenOf
<1>12. o.running # Unknown => o.printed <= o.running /\ o.running <= o.at BY DEF Reported
<1>13. Pausing \in Nat BY ListingConstants
<1>14. taken.known <= taken.longest
  <2>1. CASE taken.known = print.known
    <3>1. print.known <= print.longest BY DEF Recorded
    <3> QED BY <1>1, <1>5, <1>8, <2>1, <3>1 DEF Known, Unknown
  <2>2. CASE o.running # Unknown /\ taken.known = o.printed /\ taken.longest = Later(print.longest, o.running)
    <3>1. o.running <= taken.longest BY <1>1, <1>2, <2>2, LaterIs
    <3> QED BY <1>2, <1>5, <1>12, <2>2, <3>1 DEF Known, Unknown
  <2> QED BY <1>9, <2>1, <2>2
<1>15. ASSUME ~taken.merged, taken.known # Unknown
       PROVE  /\ taken.started # Unknown /\ taken.known + taken.started <= now
              /\ \A j \in Runs(jobs) : j # taken.job => taken.known + taken.started <= jobs[j].began
  <2>1. ~print.merged /\ print.job \in {Unknown, o.job} /\ taken.job = o.job BY <1>4, <1>15, <1>1
  <2>2. now \in Nat BY DEF JobsOf
  <2>3. \A j \in Runs(jobs) : j # o.job => o.at <= jobs[j].began /\ jobs[j].began \in Nat
    BY RunsIs DEF Reported, JobRecord
  <2>4. o.at <= now BY DEF Reported
  <2>5. CASE o.running # Unknown
    <3>1. /\ taken.started \in Nat
          /\ \/ taken.started = o.at - o.running
             \/ taken.started = print.started /\ print.started # Unknown
      BY <1>3, <1>4, <2>5
    <3>2. taken.started <= o.at - o.running
      <4>1. CASE taken.started = o.at - o.running BY <3>1, <4>1
      <4>2. CASE taken.started = print.started /\ print.started # Unknown
        <5>1. print.job = o.job BY <1>10, <2>1, <4>2
        <5> QED BY <2>1, <2>5, <4>2, <5>1 DEF SeenOf
      <4> QED BY <3>1, <4>1, <4>2
    <3>3. taken.known <= o.running
      <4>1. taken.known <= o.printed
        <5>1. CASE taken.known = print.known
          <6>1. print.job = o.job BY <1>10, <1>15, <2>1, <5>1
          <6> QED BY <1>11, <5>1, <6>1
        <5>2. CASE taken.known = o.printed BY <1>2, <5>2
        <5> QED BY <1>9, <5>1, <5>2
      <4> QED BY <1>2, <1>5, <1>12, <2>5, <4>1 DEF Known, Unknown
    <3>4. taken.known + taken.started <= o.at
      BY <1>2, <1>5, <2>5, <3>1, <3>2, <3>3 DEF Known, Unknown
    <3>5. taken.started # Unknown BY <3>1 DEF Unknown
    <3>6. taken.known + taken.started \in Int BY <1>5 DEF Known, Unknown
    <3> QED BY <1>2, <2>1, <2>2, <2>3, <2>4, <3>4, <3>5, <3>6
  <2>6. CASE o.running = Unknown
    <3>1. taken.known = print.known /\ taken.started = print.started BY <1>3, <1>4, <1>9, <2>6
    <3>2. print.job = o.job BY <1>10, <1>15, <2>1, <3>1
    <3> QED BY <1>15, <2>1, <3>1, <3>2 DEF Recorded
  <2> QED BY <2>5, <2>6
<1>16. Recorded(taken, jobs, now)
  <2>1. taken.job # Unknown /\ taken.job \in DOMAIN jobs /\ taken.file = jobs[taken.job].file
    BY <1>4, <1>6 DEF Recorded
  <2>2. taken.provider # Unknown => taken.provider \in DOMAIN jobs /\ taken.job <= taken.provider
    BY <1>4 DEF Recorded
  <2> QED BY <1>14, <1>15, <2>1, <2>2 DEF Recorded
<1>17. Agrees(taken, jobs, now)
  <2> SUFFICES ASSUME taken.job \in Runs(jobs)
               PROVE  /\ taken.longest <= PrintedOf(jobs[taken.job], now) + Pausing
                      /\ taken.known <= PrintedOf(jobs[taken.job], now)
                      /\ taken.started # Unknown => jobs[taken.job].began <= taken.started
                      /\ (taken.started # Unknown /\ ~taken.merged) => taken.started <= StartOf(jobs[taken.job])
    BY DEF Agrees
  <2>1. taken.job = o.job /\ o.job \in Runs(jobs) /\ print.job \in {Unknown, o.job} BY <1>4 DEF SeenOf
  <2> DEFINE printed == PrintedOf(jobs[o.job], now)
             start == StartOf(jobs[o.job])
             began == jobs[o.job].began
  <2>2. printed \in Nat /\ start \in Nat /\ began \in Nat /\ began <= start
    BY <2>1, RunsIs DEF JobRecord
  <2>3. o.printed <= printed /\ (o.running # Unknown => began <= o.at - o.running /\ o.at - o.running <= start)
    BY <2>1 DEF Reported
  <2>4. print.job = o.job => /\ print.started # Unknown => began <= print.started
                             /\ (print.started # Unknown /\ ~print.merged) => print.started <= start
    BY <2>1 DEF Agrees
  <2> HIDE DEF printed, start, began
  <2>5. taken.longest <= printed + Pausing
    <3>1. CASE taken.longest <= print.longest
      BY <1>1, <1>2, <1>5, <1>10, <1>11, <1>13, <2>1, <2>2, <2>3, <3>1 DEF Known, Unknown
    <3>2. CASE o.state = "printing" /\ o.running # Unknown /\ taken.longest = o.running
      <4>1. o.running <= o.printed + Pausing BY <3>2 DEF Reported
      <4> QED BY <1>2, <1>13, <2>2, <2>3, <3>2, <4>1 DEF Known, Unknown
    <3> QED BY <1>8, <3>1, <3>2
  <2>6. taken.known <= printed
    BY <1>1, <1>2, <1>5, <1>9, <1>10, <1>11, <2>1, <2>2, <2>3 DEF Known, Unknown
  <2>7. taken.started # Unknown => began <= taken.started /\ (~taken.merged => taken.started <= start)
    <3>1. CASE o.running # Unknown /\ taken.started = o.at - o.running BY <2>3, <3>1
    <3>2. CASE taken.started = print.started BY <1>4, <1>10, <2>1, <2>4, <3>2
    <3> QED BY <1>3, <1>4, <3>1, <3>2
  <2> QED BY <2>1, <2>5, <2>6, <2>7 DEF printed, start, began
<1> QED BY <1>4, <1>16, <1>17 DEF taken, seen

-----------------------------------------------------------------------------
(* The open prints *)

LEMMA PrintsOnward ==
  ASSUME NEW js, NEW t, NEW ks, NEW u, JobsOf(js, t), Onward(js, t, ks, u), NEW ps, PrintsInv(ps, js, t)
  PROVE  PrintsInv(ps, ks, u)
<1>1. ASSUME NEW p \in Opens(ps) PROVE Recorded(ps[p], ks, u) /\ Agrees(ps[p], ks, u)
  <2>1. ps[p] \in PrintRecord BY DEF PrintsInv, Opens
  <2> QED BY <2>1, PrintsGoOn DEF PrintsInv
<1> QED BY <1>1 DEF PrintsInv

\* One open print alone may have changed, its job known now or as it was, and some
\* have ended.
Becomes(ps, qs, c, js, t) ==
  \A p \in Opens(qs) :
    /\ p \in Opens(ps)
    /\ \/ qs[p] = ps[p]
       \/ /\ p = c /\ qs[p].file = ps[p].file
          /\ Recorded(qs[p], js, t) /\ Agrees(qs[p], js, t)
          /\ \/ qs[p].job = ps[p].job
             \/ /\ ps[p].job = Unknown /\ qs[p].job # Unknown
                /\ \A q \in Opens(ps) : ps[q].job = qs[p].job => ps[q].file = ps[p].file

LEMMA ChangesKeep ==
  ASSUME NEW js, NEW t, NEW ps, PrintsInv(ps, js, t), NEW qs \in Seq(PrintRecord),
         DOMAIN qs = DOMAIN ps, NEW c,
         Becomes(ps, qs, c, js, t)
  PROVE  PrintsInv(qs, js, t)
<1>1. \A p \in Opens(qs) : Recorded(qs[p], js, t) /\ Agrees(qs[p], js, t) BY DEF PrintsInv, Becomes
<1>2. ASSUME NEW p \in Opens(qs), NEW q \in Opens(qs), p # q
      PROVE  /\ qs[p].job = qs[q].job => qs[p].job = Unknown
             /\ qs[p].job = Unknown => qs[p].file # qs[q].file
  <2>1. p \in Opens(ps) /\ q \in Opens(ps) /\ qs[p].file = ps[p].file /\ qs[q].file = ps[q].file
    BY DEF Becomes
  <2>2. /\ ps[p].job = ps[q].job => ps[p].job = Unknown
        /\ ps[p].job = Unknown => ps[p].file # ps[q].file
        /\ ps[q].job = Unknown => ps[p].file # ps[q].file
    BY <1>2, <2>1 DEF PrintsInv, OneEach
  <2>3. qs[p].job = Unknown => ps[p].job = Unknown BY DEF Becomes
  <2>4. CASE qs[p].job = ps[p].job /\ qs[q].job = ps[q].job BY <2>1, <2>2, <2>4
  <2>5. CASE qs[p].job # ps[p].job
    <3>1. p = c /\ ps[p].job = Unknown /\ qs[p].job # Unknown
          /\ (ps[q].job = qs[p].job => ps[q].file = ps[p].file)
      BY <2>1, <2>5 DEF Becomes
    <3>2. qs[q].job = ps[q].job BY <1>2, <3>1 DEF Becomes
    <3> QED BY <2>1, <2>2, <2>3, <3>1, <3>2
  <2>6. CASE qs[q].job # ps[q].job
    <3>1. q = c /\ ps[q].job = Unknown /\ qs[q].job # Unknown
          /\ (ps[p].job = qs[q].job => ps[p].file = ps[q].file)
      BY <2>1, <2>6 DEF Becomes
    <3>2. qs[p].job = ps[p].job BY <1>2, <3>1 DEF Becomes
    <3> QED BY <2>1, <2>2, <2>3, <3>1, <3>2
  <2> QED BY <2>4, <2>5, <2>6
<1>3. OneEach(qs) BY <1>2 DEF OneEach
<1> QED BY <1>1, <1>3 DEF PrintsInv

\* A print opened is of a job of no open print, and of a file of none whose job is
\* not known.
LEMMA OpensKeep ==
  ASSUME NEW js, NEW t, NEW ps, PrintsInv(ps, js, t), NEW print \in PrintRecord,
         Recorded(print, js, t), Agrees(print, js, t),
         \A p \in Opens(ps) : /\ ps[p].job = print.job => print.job = Unknown
                              /\ ps[p].job = Unknown \/ print.job = Unknown => ps[p].file # print.file
  PROVE  PrintsInv(Append(ps, print), js, t)
<1> DEFINE qs == Append(ps, print)
<1>1. ps \in Seq(PrintRecord) BY DEF PrintsInv
<1>2. /\ qs \in Seq(PrintRecord) /\ DOMAIN qs = DOMAIN ps \union {Len(ps) + 1} /\ Len(ps) + 1 \notin DOMAIN ps
      /\ qs[Len(ps) + 1] = print /\ \A p \in DOMAIN ps : qs[p] = ps[p]
  BY <1>1
<1> HIDE DEF qs
<1>3. \A p \in Opens(qs) : p = Len(ps) + 1 \/ (p \in Opens(ps) /\ qs[p] = ps[p]) BY <1>2 DEF Opens
<1>4. \A p \in Opens(qs) : Recorded(qs[p], js, t) /\ Agrees(qs[p], js, t) BY <1>2, <1>3 DEF PrintsInv
<1>5. ASSUME NEW p \in Opens(qs), NEW q \in Opens(qs), p # q
      PROVE  /\ qs[p].job = qs[q].job => qs[p].job = Unknown
             /\ qs[p].job = Unknown => qs[p].file # qs[q].file
  <2>1. CASE p = Len(ps) + 1 BY <1>2, <1>3, <1>5, <2>1
  <2>2. CASE q = Len(ps) + 1 BY <1>2, <1>3, <1>5, <2>2
  <2>3. CASE p \in Opens(ps) /\ q \in Opens(ps)
    BY <1>3, <1>5, <2>3, <1>2 DEF PrintsInv, OneEach, Opens
  <2> QED BY <1>3, <2>1, <2>2, <2>3
<1>6. OneEach(qs) BY <1>5 DEF OneEach
<1> QED BY <1>2, <1>4, <1>6 DEF PrintsInv, qs

-----------------------------------------------------------------------------
(* A read settled *)

\* What a read in flight saw is still so.
Sees(o) ==
  \/ o.state = "over" /\ \A p \in Opens(prints) : prints[p].job \notin Runs(jobs)
  \/ /\ o \in Report /\ Reported(o, jobs, now)
     /\ \A p \in Opens(prints) : SeenOf(prints[p], o, jobs)

LEMMA ReadSees ==
  ASSUME ListingIInv, ops["read"].stage = "read",
         ops["read"].seen.state # "unread" PROVE Sees(ops["read"].seen)
<1> DEFINE o == ops["read"].seen
<1>1. ops["read"] # Idle /\ o \in Report \union NoReport
  <2>1. ops["read"] # Idle BY DEF Idle
  <2> QED BY <2>1 DEF ListingIInv, OpTypes, Reads
<1>2. CASE o \in Report
  <2>1. o.state \in {"printing", "paused"} BY <1>2 DEF Report
  <2> QED BY <1>1, <1>2, <2>1 DEF ListingIInv, OpsInv, ReadSaw, Sees
<1>3. CASE o \notin Report
  <2>1. o.state = "over" BY <1>1, <1>3 DEF NoReport
  <2> QED BY <1>1, <2>1 DEF ListingIInv, OpsInv, ReadSaw, Sees
<1> QED BY <1>2, <1>3

\* A set of places in a sequence has a newest: the one the fewest from the end,
\* as the natural numbers are well founded.
LEMMA NewestIs ==
  ASSUME NEW n \in Nat, NEW S, S \subseteq 1 .. n,
         S # {} PROVE Newest(S) \in S /\ \A q \in S : q <= Newest(S)
<1> DEFINE R == OpToRel(<, Nat)
           Distances == {n - p : p \in S}
<1>1. PICK x \in Distances : \A y \in Distances : <<y, x>> \notin R
  <2>1. Distances \subseteq Nat OBVIOUS
  <2>2. Distances # {}
    <3>1. PICK p \in S : TRUE OBVIOUS
    <3>2. n - p \in Distances BY <3>1
    <3> QED BY <3>2
  <2>3. IsWellFoundedOn(R, Nat) BY NatLessThanWellFounded
  <2> HIDE DEF R, Distances
  <2> QED BY <2>1, <2>2, <2>3, WFMin
<1>2. \A y \in Distances : ~(y < x)
  <2>1. Distances \subseteq Nat OBVIOUS
  <2> HIDE DEF Distances
  <2> QED BY <1>1, <2>1 DEF OpToRel
<1>3. PICK p \in S : x = n - p OBVIOUS
<1>4. \A q \in S : ~(n - q < x) BY <1>2
<1>5. \A q \in S : q <= p BY <1>3, <1>4
<1> QED BY <1>5 DEF Newest

\* What becomes of each print: nothing, its end, or being taken for the job.
LEMMA SettledIs ==
  ASSUME PrintsInv(prints, jobs, now), NEW o, Sees(o), NEW p \in DOMAIN prints, JobsOf(jobs, now)
  PROVE  /\ Settled(o)[p] \in PrintRecord
         /\ \/ Settled(o)[p] = prints[p]
            \/ /\ Settled(o)[p] = Ended(prints[p])
               /\ o.state = "over" \/ (p \in OfFile(o) /\ p \notin Matching(o))
            \/ /\ o.state # "over" /\ p \in Matching(o) /\ p = Newest(Matching(o))
               /\ Settled(o)[p] = Taken(Sighted(prints[p], o), o)
<1>1. prints[p] \in PrintRecord BY DEF PrintsInv
<1>2. Ended(prints[p]) \in PrintRecord BY <1>1, EndedIs
<1>3. ASSUME o.state # "over" PROVE Taken(Sighted(prints[p], o), o) \in PrintRecord
  <2>1. o \in Report /\ Reported(o, jobs, now) BY <1>3 DEF Sees
  <2>2. Sighted(prints[p], o) \in PrintRecord BY <1>1, <2>1, SightedIs DEF Reported
  <2> QED BY <2>1, <2>2, TakenIs
<1>4. CASE p \in Closing(o)
  <2>1. Settled(o)[p] = Ended(prints[p]) BY <1>4 DEF Settled
  <2> QED BY <1>2, <1>4, <2>1 DEF Closing
<1>5. CASE p \notin Closing(o) /\ o.state # "over" /\ Matching(o) # {} /\ p = Newest(Matching(o))
  <2>1. Settled(o)[p] = Taken(Sighted(prints[p], o), o) BY <1>5 DEF Settled
  <2>2. p \in Matching(o)
    <3>1. prints \in Seq(PrintRecord) BY DEF PrintsInv
    <3>2. Matching(o) \subseteq 1 .. Len(prints) /\ Len(prints) \in Nat
      BY <3>1 DEF Matching, OfFile, OpenPrints
    <3> QED BY <1>5, <3>2, NewestIs
  <2> QED BY <1>3, <1>5, <2>1, <2>2
<1>6. CASE p \notin Closing(o) /\ ~(o.state # "over" /\ Matching(o) # {} /\ p = Newest(Matching(o)))
  <2>1. Settled(o)[p] = prints[p] BY <1>6 DEF Settled
  <2> QED BY <1>1, <2>1
<1> QED BY <1>4, <1>5, <1>6

\* The print of the reported job may be its own, whatever a pause has added, and
\* so may one that was never seen.
LEMMA ItsOwnMayBe ==
  ASSUME NEW print \in PrintRecord, NEW o \in Report, Reported(o, jobs, now),
         print.longest = Unknown \/ (print.job = o.job /\ SeenOf(print, o, jobs))
  PROVE  MayBeSameJob(print, o)
<1>1. /\ print.longest \in Known /\ o.running \in Known /\ o.printed \in Nat
      /\ Pausing \in Nat /\ Tolerance \in Nat
  BY ListingConstants DEF PrintRecord, Report
<1>2. o.running # Unknown => o.printed <= o.running BY DEF Reported
<1>3. print.longest = Unknown \/ print.longest <= o.printed + Pausing BY DEF SeenOf
<1> QED BY <1>1, <1>2, <1>3, PausingIsTolerated DEF MayBeSameJob, Known, Unknown

\* A report with a running time sees a print and takes it for its job.
LEMMA TakesIs ==
  ASSUME PrintsInv(prints, jobs, now), JobsOf(jobs, now), NEW o, Sees(o), o.state # "over",
         NEW p \in Matching(o)
  PROVE  LET taken == Taken(Sighted(prints[p], o), o) IN
         /\ p \in Opens(prints) /\ prints[p] \in PrintRecord /\ o \in Report
         /\ prints[p].file = jobs[o.job].file /\ MayBeSameJob(prints[p], o)
         /\ taken \in PrintRecord /\ taken.file = prints[p].file /\ taken.open
         /\ taken.job = (IF prints[p].job = Unknown THEN o.job ELSE prints[p].job)
         /\ taken.merged = (prints[p].merged \/ prints[p].job \notin {Unknown, o.job})
         /\ Recorded(taken, jobs, now) /\ Agrees(taken, jobs, now)
<1>1. /\ p \in Opens(prints) /\ prints[p].file = jobs[o.job].file /\ MayBeSameJob(prints[p], o)
      /\ prints[p].open
  BY DEF Matching, OfFile, OpenPrints, Opens
<1>2. prints[p] \in PrintRecord BY <1>1 DEF PrintsInv, Opens
<1>3. o \in Report /\ Reported(o, jobs, now) /\ SeenOf(prints[p], o, jobs) BY <1>1 DEF Sees
<1>4. Recorded(prints[p], jobs, now) /\ Agrees(prints[p], jobs, now) BY <1>1 DEF PrintsInv
<1>5. Taken(Sighted(prints[p], o), o).merged = (prints[p].merged \/ prints[p].job \notin {Unknown, o.job})
  <2>1. /\ Sighted(prints[p], o) \in PrintRecord /\ Sighted(prints[p], o).merged = prints[p].merged
        /\ Sighted(prints[p], o).job = prints[p].job
    BY <1>2, <1>3, SightedIs DEF Reported
  <2> QED BY <1>3, <2>1, TakenIs
<1> QED BY <1>1, <1>2, <1>3, <1>4, <1>5, TakenFits

LEMMA SettledKeeps ==
  ASSUME PrintsInv(prints, jobs, now), JobsOf(jobs, now), NEW o, Sees(o)
  PROVE  PrintsInv(Settled(o), jobs, now) /\ DOMAIN Settled(o) = DOMAIN prints
<1> DEFINE qs == Settled(o)
           c == Newest(Matching(o))
<1>1. prints \in Seq(PrintRecord) BY DEF PrintsInv
<1>2. DOMAIN qs = DOMAIN prints /\ qs = [p \in DOMAIN prints |-> qs[p]] BY DEF Settled
<1>3. \A p \in DOMAIN prints : qs[p] \in PrintRecord BY SettledIs
<1>4. qs \in Seq(PrintRecord)
  <2>1. DOMAIN prints = 1 .. Len(prints) /\ Len(prints) \in Nat BY <1>1
  <2> HIDE DEF qs
  <2>2. qs \in [1 .. Len(prints) -> PrintRecord] BY <1>2, <1>3, <2>1
  <2> QED BY <2>1, <2>2
<1>5. ASSUME NEW p \in Opens(qs)
      PROVE  /\ p \in Opens(prints)
             /\ \/ qs[p] = prints[p]
                \/ /\ p = c /\ qs[p].file = prints[p].file
                   /\ Recorded(qs[p], jobs, now) /\ Agrees(qs[p], jobs, now)
                   /\ \/ qs[p].job = prints[p].job
                      \/ /\ prints[p].job = Unknown /\ qs[p].job # Unknown
                         /\ \A q \in Opens(prints) : prints[q].job = qs[p].job => prints[q].file = prints[p].file
  <2>1. p \in DOMAIN prints /\ qs[p].open BY <1>2, <1>5 DEF Opens
  <2>2. prints[p] \in PrintRecord BY <1>1, <2>1
  <2>3. CASE qs[p] = prints[p] BY <2>1, <2>3 DEF Opens
  <2>4. CASE qs[p] = Ended(prints[p]) BY <2>1, <2>2, <2>4, EndedIs
  <2>5. CASE /\ o.state # "over" /\ p \in Matching(o) /\ p = c
             /\ qs[p] = Taken(Sighted(prints[p], o), o)
    <3>1. /\ p \in Opens(prints) /\ o \in Report /\ prints[p].file = jobs[o.job].file
          /\ qs[p].file = prints[p].file
          /\ qs[p].job = (IF prints[p].job = Unknown THEN o.job ELSE prints[p].job)
          /\ Recorded(qs[p], jobs, now) /\ Agrees(qs[p], jobs, now)
      BY <2>5, TakesIs
    <3>2. o.job # Unknown BY <3>1 DEF Report, Unknown
    <3>3. \A q \in Opens(prints) : prints[q].job = o.job => prints[q].file = jobs[o.job].file
      BY <3>2 DEF PrintsInv, Recorded
    <3> QED BY <2>5, <3>1, <3>2, <3>3
  <2> QED BY <2>1, <2>3, <2>4, <2>5, SettledIs
<1> HIDE DEF qs, c
<1>6. Becomes(prints, qs, c, jobs, now) BY <1>5 DEF Becomes
<1>7. PrintsInv(qs, jobs, now) BY <1>2, <1>4, <1>6, ChangesKeep
<1> QED BY <1>2, <1>7 DEF qs

\* A read ends no print of a job that runs, and takes for its job only what was
\* not seen for longer.
LEMMA SettlesRightly ==
  ASSUME PrintsInv(prints, jobs, now), JobsOf(jobs, now), NEW o, Sees(o), NEW p \in DOMAIN prints
  PROVE  /\ prints[p].open /\ ~Settled(o)[p].open => prints[p].job \notin Runs(jobs)
         /\ Settled(o)[p].merged /\ ~prints[p].merged =>
              o.running = Unknown \/ prints[p].known <= o.running + Tolerance
<1>1. prints[p] \in PrintRecord BY DEF PrintsInv
<1>2. CASE Settled(o)[p] = prints[p] BY <1>2
<1>3. CASE Settled(o)[p] = Ended(prints[p]) /\ (o.state = "over" \/ (p \in OfFile(o) /\ p \notin Matching(o)))
  <2>1. ~Settled(o)[p].merged BY <1>1, <1>3, EndedIs
  <2>2. ASSUME prints[p].open, prints[p].job \in Runs(jobs) PROVE FALSE
    <3>1. p \in Opens(prints) BY <2>2 DEF Opens
    <3>2. o \in Report /\ Reported(o, jobs, now) /\ SeenOf(prints[p], o, jobs) BY <2>2, <3>1 DEF Sees
    <3>3. p \in OfFile(o) /\ p \notin Matching(o) BY <1>3, <3>2 DEF Report
    <3>4. MayBeSameJob(prints[p], o) BY <1>1, <2>2, <3>2, ItsOwnMayBe DEF SeenOf
    <3> QED BY <3>3, <3>4 DEF Matching
  <2> QED BY <2>1, <2>2
<1>4. CASE /\ o.state # "over" /\ p \in Matching(o)
           /\ Settled(o)[p] = Taken(Sighted(prints[p], o), o)
  <2>1. /\ p \in Opens(prints) /\ o \in Report /\ Settled(o)[p].open /\ MayBeSameJob(prints[p], o)
    BY <1>4, TakesIs
  <2>2. prints[p].known <= prints[p].longest BY <2>1 DEF PrintsInv, Recorded
  <2>3. Tolerance \in Nat BY ListingConstants
  <2>4. ASSUME o.running # Unknown PROVE prints[p].known <= o.running + Tolerance
    <3>1. o.running \in Nat BY <2>1, <2>4 DEF Report, Known
    <3>2. prints[p].known \in Known /\ prints[p].longest \in Known BY <1>1 DEF PrintRecord
    <3> QED BY <2>1, <2>2, <2>3, <2>4, <3>1, <3>2 DEF MayBeSameJob, Known, Unknown
  <2> QED BY <2>1, <2>4
<1> QED BY <1>2, <1>3, <1>4, SettledIs

\* A job no open print is has one opened for it.
LEMMA AdoptsKeeps ==
  ASSUME PrintsInv(prints, jobs, now), JobsOf(jobs, now), NEW o, Sees(o), o.state # "over",
         Matching(o) = {}
  PROVE  PrintsInv(Append(Settled(o), Taken(Sighted(NewPrint(jobs[o.job].file, Unknown, o.job), o), o)), jobs, now)
<1> DEFINE new == NewPrint(jobs[o.job].file, Unknown, o.job)
           taken == Taken(Sighted(new, o), o)
<1>1. o \in Report /\ Reported(o, jobs, now) /\ \A p \in Opens(prints) : SeenOf(prints[p], o, jobs)
  BY DEF Sees
<1>2. o.job \in DOMAIN jobs /\ jobs[o.job] \in JobRecord /\ o.job \in Nat /\ o.printed \in Nat
  BY <1>1 DEF Reported, Report, JobsOf
<1>3. /\ new \in PrintRecord /\ new.file = jobs[o.job].file /\ new.provider = Unknown /\ new.job = o.job
      /\ new.open /\ ~new.merged
      /\ new.started = Unknown /\ new.longest = Unknown /\ new.known = Unknown
  <2>1. jobs[o.job].file \in Files \union {Unknown} BY <1>2 DEF JobRecord
  <2>2. o.job \in Known /\ Unknown \in Known BY <1>2 DEF Known
  <2> QED BY <2>1, <2>2, NewIs
<1> HIDE DEF new
<1>4. Pausing \in Nat BY ListingConstants
<1>5. o.job # Unknown BY <1>2 DEF Unknown
<1>6. Recorded(new, jobs, now) BY <1>2, <1>3, <1>5 DEF Recorded, Unknown
<1>7. Agrees(new, jobs, now)
  <2> SUFFICES ASSUME o.job \in Runs(jobs)
               PROVE  Unknown <= PrintedOf(jobs[o.job], now) + Pausing /\ Unknown <= PrintedOf(jobs[o.job], now)
    BY <1>3 DEF Agrees
  <2>1. PrintedOf(jobs[o.job], now) \in Nat BY RunsIs
  <2> QED BY <1>4, <2>1 DEF Unknown
<1>8. SeenOf(new, o, jobs) BY <1>2, <1>3, <1>4 DEF SeenOf, Unknown
<1>9. /\ taken \in PrintRecord /\ taken.file = jobs[o.job].file /\ taken.job = o.job
      /\ Recorded(taken, jobs, now) /\ Agrees(taken, jobs, now)
  BY <1>1, <1>3, <1>5, <1>6, <1>7, <1>8, TakenFits
<1> HIDE DEF taken
<1>10. ASSUME NEW p \in Opens(Settled(o))
       PROVE  /\ Settled(o)[p].job # o.job
              /\ Settled(o)[p].job = Unknown => Settled(o)[p].file # jobs[o.job].file
  <2>1. p \in DOMAIN prints /\ Settled(o)[p].open BY SettledKeeps DEF Opens
  <2>2. prints[p] \in PrintRecord BY <2>1 DEF PrintsInv
  <2>3. Settled(o)[p] = prints[p] BY <2>1, <2>2, SettledIs, EndedIs
  <2>4. p \in Opens(prints) BY <2>1, <2>3 DEF Opens
  <2>5. prints[p].file = jobs[o.job].file => ~MayBeSameJob(prints[p], o)
    BY <2>4 DEF Matching, OfFile, OpenPrints, Opens
  <2>6. Recorded(prints[p], jobs, now) BY <2>4 DEF PrintsInv
  <2>7. prints[p].job = o.job => prints[p].file = jobs[o.job].file BY <1>5, <2>6 DEF Recorded
  <2>8. prints[p].job = Unknown => prints[p].longest = Unknown BY <2>6 DEF Recorded
  <2>9. prints[p].longest = Unknown \/ prints[p].job = o.job => MayBeSameJob(prints[p], o)
    BY <1>1, <2>2, <2>4, ItsOwnMayBe
  <2> QED BY <2>3, <2>5, <2>7, <2>8, <2>9
<1>11. PrintsInv(Settled(o), jobs, now) BY SettledKeeps
<1>12. PrintsInv(Append(Settled(o), taken), jobs, now) BY <1>5, <1>9, <1>10, <1>11, OpensKeep
<1> QED BY <1>12 DEF taken, new

-----------------------------------------------------------------------------
(* Initial states; the printer's own steps *)

LEMMA ListingInitial == ListingInit => ListingIInv
<1> SUFFICES ASSUME ListingInit PROVE ListingIInv OBVIOUS
<1>1. now = 0 /\ jobs = <<>> /\ prints = <<>> /\ turn = NoTurn /\ ops = [a \in Actors |-> Idle]
  BY DEF ListingInit
<1>2. JobsOf(jobs, now) BY <1>1 DEF JobsOf, Runs
<1>3. PrintsInv(prints, jobs, now) BY <1>1 DEF PrintsInv, OneEach, Opens
<1>4. OpTypes /\ OneInFlight /\ OpsInv
  BY <1>1 DEF OpTypes, OneInFlight, OpsInv, ReadSaw, AlertFound, StartGiven, CloseSaw, Actors
<1> QED BY <1>1, <1>2, <1>3, <1>4 DEF ListingIInv, TurnTypes

\* As the jobs go on, with the server's state as it was.
LEMMA GoingOnKeeps ==
  ASSUME ListingIInv, Onward(jobs, now, jobs', now'), UNCHANGED <<prints, ops, turn>>
  PROVE  ListingIInv'
<1>1. JobsOf(jobs, now) /\ PrintsInv(prints, jobs, now) BY DEF ListingIInv
<1>2. /\ JobsOf(jobs', now') /\ DOMAIN jobs \subseteq DOMAIN jobs'
      /\ \A j \in DOMAIN jobs : jobs'[j].file = jobs[j].file
  BY DEF Onward
<1>3. PrintsInv(prints', jobs', now') BY <1>1, PrintsOnward
<1>4. \A p \in Opens(prints) : /\ prints[p] \in PrintRecord
                               /\ Recorded(prints[p], jobs, now) /\ Agrees(prints[p], jobs, now)
  BY <1>1 DEF PrintsInv, Opens
<1>5. \A p \in Opens(prints) : prints[p].job \in Runs(jobs') => prints[p].job \in Runs(jobs)
  BY <1>1, <1>4, PrintsGoOn
<1>6. ReadSaw'
  <2> SUFFICES ASSUME ops["read"] # Idle
               PROVE  LET o == ops["read"].seen IN
                      /\ o.state = "over" => \A p \in Opens(prints) : prints[p].job \notin Runs(jobs')
                      /\ o.state \in {"printing", "paused"} =>
                           Reported(o, jobs', now') /\ \A p \in Opens(prints) : SeenOf(prints[p], o, jobs')
    BY DEF ReadSaw
  <2> DEFINE o == ops["read"].seen
  <2>1. CASE o.state = "over" BY <1>5, <2>1 DEF ListingIInv, OpsInv, ReadSaw
  <2>2. CASE o.state \in {"printing", "paused"}
    <3>1. o \in Report \union NoReport BY DEF ListingIInv, OpTypes, Reads
    <3>2. o \in Report BY <2>2, <3>1 DEF NoReport
    <3>3. Reported(o, jobs, now) /\ \A p \in Opens(prints) : SeenOf(prints[p], o, jobs)
      BY <2>2 DEF ListingIInv, OpsInv, ReadSaw
    <3> HIDE DEF o
    <3>4. Reported(o, jobs', now') BY <1>1, <3>2, <3>3, ReportsGoOn
    <3>5. \A p \in Opens(prints) : SeenOf(prints[p], o, jobs') BY <1>1, <1>4, <3>3, SightGoesOn
    <3> QED BY <2>2, <3>4, <3>5 DEF o
  <2> QED BY <2>1, <2>2
<1>7. AlertFound' BY <1>2 DEF ListingIInv, OpsInv, AlertFound
<1>8. CloseSaw'
  <2> SUFFICES ASSUME ops["close"] # Idle, ops["close"].sure, prints[ops["close"].print].open
               PROVE  prints[ops["close"].print].job \notin Runs(jobs')
    BY DEF ListingIInv, OpsInv, CloseSaw
  <2>1. ops["close"].print \in Opens(prints) /\ prints[ops["close"].print].job \notin Runs(jobs)
    BY DEF ListingIInv, OpsInv, CloseSaw, Opens
  <2> QED BY <1>5, <2>1
<1>9. OpTypes' /\ TurnTypes' /\ OneInFlight' /\ StartGiven'
  BY DEF ListingIInv, OpTypes, TurnTypes, OneInFlight, OpsInv, StartGiven
<1> QED BY <1>2, <1>3, <1>6, <1>7, <1>8, <1>9 DEF ListingIInv, OpsInv

LEMMA RunningIs == Running = Runs(jobs) /\ OpenPrints = Opens(prints)
  BY DEF Running, Runs, OpenPrints, Opens

LEMMA PrinterKeeps ==
  ASSUME ListingIInv,
         \/ Tick \/ \E file \in Files : JobBegins(file)
         \/ \E j \in DOMAIN jobs : JobPauses(j) \/ JobResumes(j) \/ JobEnds(j)
  PROVE  ListingIInv'
<1>1. JobsOf(jobs, now) /\ now \in Nat /\ jobs \in Seq(JobRecord) BY DEF ListingIInv, JobsOf
<1>2. CASE Tick BY <1>1, <1>2, TimePasses, GoingOnKeeps DEF Tick
<1>3. ASSUME NEW file \in Files, JobBegins(file) PROVE ListingIInv'
  <2>1. Onward(jobs, now, jobs', now)
    BY <1>1, <1>3, BeginsAfter, RunningIs DEF JobBegins, Began
  <2> QED BY <1>3, <2>1, GoingOnKeeps DEF JobBegins
<1>4. ASSUME NEW j \in DOMAIN jobs, JobPauses(j) \/ JobResumes(j) \/ JobEnds(j) PROVE ListingIInv'
  <2>1. jobs[j].state # "over" /\ j \in Runs(jobs) /\ jobs[j] \in JobRecord
    <3>1. jobs[j].state # "over" BY <1>4 DEF JobPauses, JobResumes, JobEnds
    <3> QED BY <1>1, <3>1 DEF Runs
  <2>2. /\ StartOf(jobs[j]) \in Nat /\ StartOf(jobs[j]) <= UntilOf(jobs[j], now)
        /\ UntilOf(jobs[j], now) \in Nat /\ UntilOf(jobs[j], now) <= now
    BY <1>1, <2>1, RunsIs
  <2>3. CASE JobPauses(j)
    <3> DEFINE job == [jobs[j] EXCEPT !.state = "paused", !.paused = now]
    <3>1. jobs[j].state = "printing" /\ jobs' = [jobs EXCEPT ![j] = job]
      BY <1>1, <2>1, <2>3 DEF JobPauses
    <3>2. /\ job \in JobRecord /\ job.file = jobs[j].file /\ job.began = jobs[j].began
          /\ job.state = "paused" /\ job.paused = now /\ job.resumed = jobs[j].resumed
      BY <1>1, <2>1 DEF JobRecord, Known
    <3> HIDE DEF job
    <3>3. StartOf(job) = StartOf(jobs[j]) /\ UntilOf(job, now) = now /\ UntilOf(jobs[j], now) = now
      BY <3>1, <3>2 DEF StartOf, UntilOf
    <3>4. /\ job.began = jobs[j].began /\ StartOf(jobs[j]) <= StartOf(job)
          /\ PrintedOf(job, now) = PrintedOf(jobs[j], now) /\ UntilOf(job, now) <= now
      BY <1>1, <2>2, <3>2, <3>3 DEF PrintedOf
    <3>5. Onward(jobs, now, jobs', now) BY <1>1, <2>1, <3>1, <3>2, <3>4, ChangesOnly
    <3> QED BY <2>3, <3>5, GoingOnKeeps DEF JobPauses
  <2>4. CASE JobResumes(j)
    <3> DEFINE resumed == jobs[j].resumed + now - jobs[j].paused
               job == [jobs[j] EXCEPT !.state = "printing", !.resumed = resumed, !.paused = Unknown]
    <3>1. jobs[j].state = "paused" /\ jobs' = [jobs EXCEPT ![j] = job]
      BY <1>1, <2>1, <2>4 DEF JobResumes
    <3>2. UntilOf(jobs[j], now) = jobs[j].paused BY <3>1 DEF UntilOf
    <3>3. jobs[j].resumed \in Nat /\ jobs[j].began \in Nat /\ jobs[j].paused \in Nat
      BY <2>1, <2>2, <3>2 DEF JobRecord
    <3>4. resumed \in Nat BY <1>1, <2>2, <3>2, <3>3
    <3> HIDE DEF resumed
    <3>5. /\ job \in JobRecord /\ job.file = jobs[j].file /\ job.began = jobs[j].began
          /\ job.state = "printing" /\ job.resumed = resumed
      BY <2>1, <3>4 DEF JobRecord, Known
    <3> HIDE DEF job
    <3>6. StartOf(job) = StartOf(jobs[j]) + now - jobs[j].paused
      BY <1>1, <3>3, <3>4, <3>5 DEF StartOf, resumed
    <3>7. UntilOf(job, now) = now BY <3>5 DEF UntilOf
    <3>8. PrintedOf(job, now) = PrintedOf(jobs[j], now) /\ StartOf(jobs[j]) <= StartOf(job)
      BY <1>1, <2>2, <3>2, <3>3, <3>6, <3>7 DEF PrintedOf
    <3>9. UntilOf(job, now) <= now BY <1>1, <3>7
    <3>10. Onward(jobs, now, jobs', now) BY <1>1, <2>1, <3>1, <3>5, <3>8, <3>9, ChangesOnly
    <3> QED BY <2>4, <3>10, GoingOnKeeps DEF JobResumes
  <2>5. CASE JobEnds(j)
    <3> DEFINE job == [jobs[j] EXCEPT !.state = "over", !.began = 0, !.resumed = 0, !.paused = Unknown]
    <3>1. jobs' = [jobs EXCEPT ![j] = job] BY <1>1, <2>1, <2>5 DEF JobEnds
    <3>2. job \in JobRecord /\ job.file = jobs[j].file /\ job.state = "over"
      BY <2>1 DEF JobRecord, Known
    <3> HIDE DEF job
    <3>3. Onward(jobs, now, jobs', now) BY <1>1, <2>1, <3>1, <3>2, ChangesOnly
    <3> QED BY <2>5, <3>3, GoingOnKeeps DEF JobEnds
  <2> QED BY <1>4, <2>3, <2>4, <2>5
<1> QED BY <1>2, <1>3, <1>4

-----------------------------------------------------------------------------
(* What an actor has in flight *)

\* Only this one may have something in flight after the step.
Only(a) == DOMAIN ops = Actors /\ \A b \in Actors : b # a => ops[b] = Idle

LEMMA NothingElseIs ==
  ASSUME OpTypes, OneInFlight, NEW a \in Actors, Free(a) \/ ops[a] # Idle,
         NEW b \in Actors, NEW v,
         ops' = [ops EXCEPT ![a] = Idle, ![b] = v] \/ (a = b /\ ops' = [ops EXCEPT ![a] = v])
  PROVE  Only(b)' /\ ops'[b] = v
<1>1. DOMAIN ops' = Actors /\ ops'[b] = v BY DEF OpTypes
<1>2. \A c \in Actors : c # a => ops[c] = Idle BY DEF Free, OneInFlight
<1>3. \A c \in Actors : c # b => ops'[c] = Idle BY <1>2 DEF OpTypes
<1> QED BY <1>1, <1>3 DEF Only

LEMMA OnlyInFlight ==
  ASSUME NEW a \in Actors, Only(a)'
  PROVE  /\ OneInFlight'
         /\ ops[a]' = Idle => OpTypes' /\ OpsInv'
         /\ a = "read" /\ ops'["read"] \in Reads /\ ReadSaw' => OpTypes' /\ OpsInv'
         /\ a = "alert" /\ ops'["alert"] \in Alerts /\ AlertFound' => OpTypes' /\ OpsInv'
         /\ a = "start" /\ ops'["start"] \in Starts /\ StartGiven' => OpTypes' /\ OpsInv'
         /\ a = "close" /\ ops'["close"] \in Closes /\ CloseSaw' => OpTypes' /\ OpsInv'
<1>1. OneInFlight' BY DEF Only, OneInFlight
<1>2. a = "read" \/ ops'["read"] = Idle BY DEF Only, Actors
<1>3. a = "alert" \/ ops'["alert"] = Idle BY DEF Only, Actors
<1>4. a = "start" \/ ops'["start"] = Idle BY DEF Only, Actors
<1>5. a = "close" \/ ops'["close"] = Idle BY DEF Only, Actors
<1>6. /\ ops'["read"] = Idle => ReadSaw'
      /\ ops'["alert"] = Idle => AlertFound'
      /\ ops'["start"] = Idle => StartGiven'
      /\ ops'["close"] = Idle => CloseSaw'
  BY DEF ReadSaw, AlertFound, StartGiven, CloseSaw
<1>7. DOMAIN ops' = Actors BY DEF Only
<1> QED BY <1>1, <1>2, <1>3, <1>4, <1>5, <1>6, <1>7 DEF OpTypes, OpsInv

LEMMA SameRecords ==
  ASSUME ListingIInv, UNCHANGED <<now, jobs, prints>> PROVE JobsOf(jobs, now)' /\ PrintsInv(prints,
         jobs, now)'
  BY DEF ListingIInv

\* What a read may report is so, and every open print agrees with it.
LEMMA ObservedSees ==
  ASSUME ListingIInv, NEW o \in Observed
  PROVE  /\ o \in Report \/ (o = [state |-> "over"] /\ Running = {})
         /\ Sees(o)
         /\ o.state # "over" => o.job \in Running
<1>1. JobsOf(jobs, now) /\ PrintsInv(prints, jobs, now) /\ now \in Nat BY DEF ListingIInv, JobsOf
<1>2. CASE Running = {}
  <2>1. o = [state |-> "over"] BY <1>2 DEF Observed
  <2> QED BY <1>2, <2>1, RunningIs DEF Sees
<1>3. CASE Running # {}
  <2> DEFINE j == CHOOSE k \in Running : TRUE
             job == jobs[j]
             ran == now - job.began - job.resumed
             pause == IF job.state = "paused" THEN now - job.paused ELSE 0
  <2>1. j \in Running /\ j \in Runs(jobs) BY <1>3, RunningIs
  <2>2. o \in [state : {job.state} \union (IF pause <= Pausing THEN {"printing"} ELSE {}),
               at : {now}, job : {j}, running : {ran} \union (IF ran = 0 THEN {Unknown} ELSE {}),
               printed : {ran - pause}]
    BY <1>3 DEF Observed
  <2> HIDE DEF j
  <2>3. /\ j \in DOMAIN jobs /\ j = Len(jobs) /\ job \in JobRecord /\ StartOf(job) \in Nat
        /\ UntilOf(job, now) \in Nat /\ PrintedOf(job, now) \in Nat
        /\ StartOf(job) <= UntilOf(job, now) /\ UntilOf(job, now) <= now /\ job.began <= StartOf(job)
    BY <1>1, <2>1, RunsIs
  <2>4. \A k \in Runs(jobs) : k = j BY <1>1, <2>3, RunsIs
  <2>5. job.began \in Nat /\ job.resumed \in Nat /\ job.paused \in Known /\ job.state \in {"printing", "paused"}
    BY <2>1, <2>3 DEF JobRecord, Runs
  <2> HIDE DEF job
  <2>6. pause = now - UntilOf(job, now) /\ (job.state = "printing" => pause = 0)
    BY <1>1, <2>5 DEF UntilOf
  <2> HIDE DEF pause
  <2>7. ran = now - StartOf(job) /\ ran \in Nat /\ ran <= now /\ ran - pause = PrintedOf(job, now) /\ pause \in Nat
    <3>1. ran = now - StartOf(job) BY <1>1, <2>5 DEF StartOf
    <3> HIDE DEF ran
    <3>2. pause \in Nat BY <1>1, <2>3, <2>6
    <3>3. ran \in Nat /\ ran <= now BY <1>1, <2>3, <3>1
    <3>4. ran - pause = UntilOf(job, now) - StartOf(job) BY <1>1, <2>3, <2>6, <3>1
    <3> QED BY <3>1, <3>2, <3>3, <3>4 DEF PrintedOf
  <2>8. /\ o.at = now /\ o.job = j /\ o.printed = PrintedOf(job, now)
        /\ o.running = ran \/ o.running = Unknown
        /\ o.state = job.state \/ (o.state = "printing" /\ pause <= Pausing)
    BY <2>2, <2>7
  <2> HIDE DEF ran
  <2>9. o.state \in {"printing", "paused"} /\ (o.state = "printing" => pause <= Pausing)
    <3>1. Pausing \in Nat BY ListingConstants
    <3> QED BY <2>5, <2>6, <2>8, <3>1
  <2>10. o \in Report
    <3>1. o.printed \in Nat /\ o.at \in Nat /\ o.job \in Nat /\ o.running \in Known
      BY <1>1, <2>3, <2>7, <2>8 DEF Known, JobsOf
    <3> QED BY <2>2, <2>9, <3>1 DEF Report
  <2>11. o.running # Unknown => o.running = ran /\ o.at - o.running = StartOf(job)
    BY <1>1, <2>3, <2>7, <2>8
  <2>12. Pausing \in Nat BY ListingConstants
  <2>13. Reported(o, jobs, now)
    <3>1. o.running # Unknown => o.printed <= o.running /\ o.running <= o.at
      BY <1>1, <2>7, <2>8, <2>11
    <3>2. (o.running # Unknown /\ o.state = "printing") => o.running <= o.printed + Pausing
      BY <2>3, <2>7, <2>8, <2>9, <2>11, <2>12
    <3>3. o.printed <= o.at BY <1>1, <2>3, <2>8 DEF PrintedOf
    <3>4. jobs[o.job] = job /\ o.job \in DOMAIN jobs /\ o.at <= now BY <1>1, <2>3, <2>8 DEF job
    <3> QED BY <2>3, <2>4, <2>8, <2>11, <3>1, <3>2, <3>3, <3>4 DEF Reported
  <2>14. ASSUME NEW p \in Opens(prints) PROVE SeenOf(prints[p], o, jobs)
    <3>1. Agrees(prints[p], jobs, now) BY <1>1 DEF PrintsInv
    <3>2. prints[p].job = j =>
            /\ prints[p].longest <= PrintedOf(job, now) + Pausing /\ prints[p].known <= PrintedOf(job, now)
            /\ (prints[p].started # Unknown /\ ~prints[p].merged) => prints[p].started <= StartOf(job)
      BY <2>1, <3>1 DEF Agrees, job
    <3> QED BY <2>4, <2>8, <2>11, <3>2 DEF SeenOf
  <2> QED BY <2>1, <2>8, <2>10, <2>13, <2>14 DEF Sees
<1> QED BY <1>2, <1>3

LEMMA ReadJobKeeps ==
  ASSUME ListingIInv, ReadJob \/ StartReadFails PROVE ListingIInv'
<1>1. PICK o \in Observed \union {[state |-> "unread"]} :
        Free("read") /\ ops' = [ops EXCEPT !["read"] = [stage |-> "read", seen |-> o]]
  BY DEF ReadJob, StartReadFails
<1>2. UNCHANGED <<now, jobs, prints, turn>> BY DEF ReadJob, StartReadFails
<1>3. Only("read")' /\ ops'["read"] = [stage |-> "read", seen |-> o]
  BY <1>1, NothingElseIs DEF ListingIInv, Actors
<1>4. o \in Report \union NoReport BY ObservedSees DEF NoReport
<1>5. ops'["read"] \in Reads BY <1>3, <1>4 DEF Reads
<1>6. ReadSaw'
  <2>1. o.state # "unread" => o \in Observed OBVIOUS
  <2>2. o.state # "unread" => Sees(o) BY <2>1, ObservedSees
  <2>3. ops'["read"].seen = o BY <1>3
  <2>4. o.state = "over" => \A p \in Opens(prints) : prints[p].job \notin Runs(jobs)
    BY <2>2 DEF Sees, Report
  <2>5. o.state \in {"printing", "paused"} =>
          Reported(o, jobs, now) /\ \A p \in Opens(prints) : SeenOf(prints[p], o, jobs)
    BY <2>2 DEF Sees
  <2> QED BY <1>2, <2>3, <2>4, <2>5 DEF ReadSaw
<1>7. OpTypes' /\ OneInFlight' /\ OpsInv' BY <1>3, <1>5, <1>6, OnlyInFlight DEF Actors
<1>8. TurnTypes' BY <1>2 DEF ListingIInv, TurnTypes
<1> QED BY <1>2, <1>7, <1>8, SameRecords DEF ListingIInv

\* An alert of the running job finds the print it may attach to, or there is no
\* print of the job, nor one of its file with no job known.
LEMMA AlertLooksKeeps ==
  ASSUME ListingIInv, NEW j \in DOMAIN jobs, AlertLooks(j) PROVE ListingIInv'
<1>1. PICK started \in {jobs[j].began, Unknown} :
        LET found == Unattached(j, started) IN
        ops' = [ops EXCEPT !["alert"] = [stage |-> "looked", job |-> j, dated |-> started # Unknown,
                                         found |-> IF found = {} THEN Unknown ELSE Newest(found)]]
  BY DEF AlertLooks
<1> DEFINE S == Unattached(j, started)
           found == IF S = {} THEN Unknown ELSE Newest(S)
           v == [stage |-> "looked", job |-> j, dated |-> started # Unknown, found |-> found]
<1>2. /\ UNCHANGED <<now, jobs, prints, turn>> /\ Free("alert") /\ j \in Running /\ ById(j) = {}
      /\ ops' = [ops EXCEPT !["alert"] = v]
  BY <1>1 DEF AlertLooks
<1>3. Only("alert")' /\ ops'["alert"] = v
  BY <1>2, NothingElseIs DEF ListingIInv, Actors
<1>4. /\ JobsOf(jobs, now) /\ PrintsInv(prints, jobs, now) /\ jobs \in Seq(JobRecord)
      /\ prints \in Seq(PrintRecord)
  BY DEF ListingIInv, JobsOf, PrintsInv
<1>5. /\ j \in Runs(jobs) /\ j = Len(jobs) /\ jobs[j] \in JobRecord /\ j \in Nat /\ DOMAIN jobs = 1 .. j
      /\ jobs[j].began \in Nat
  <2>1. j \in Runs(jobs) /\ j = Len(jobs) /\ jobs[j] \in JobRecord BY <1>2, <1>4, RunningIs, RunsIs
  <2> QED BY <1>4, <2>1 DEF JobRecord
<1>6. S \subseteq DOMAIN prints BY DEF Unattached, OpenPrints
<1>7. S # {} => Newest(S) \in S
  <2>1. Len(prints) \in Nat /\ S \subseteq 1 .. Len(prints) BY <1>4, <1>6
  <2> HIDE DEF S
  <2> QED BY <2>1, NewestIs
<1>8. found \in Known /\ (found # Unknown => found \in S /\ found = Newest(S)) /\ (found = Unknown => S = {})
  <2>1. S \subseteq Nat /\ Unknown \notin Nat BY <1>4, <1>6 DEF Unknown
  <2>2. S # {} => Newest(S) \in Nat BY <1>7, <2>1
  <2> HIDE DEF S
  <2>3. CASE S = {} BY <2>3 DEF Known
  <2>4. CASE S # {} BY <1>7, <2>1, <2>2, <2>4 DEF Known
  <2> QED BY <2>3, <2>4
<1> HIDE DEF found, S
<1>9. ops'["alert"] \in Alerts BY <1>3, <1>5, <1>8 DEF Alerts
<1>10. ASSUME NEW p \in Opens(prints)
       PROVE  /\ prints[p].job <= j
              /\ found = Unknown => /\ prints[p].job # j
                                    /\ prints[p].job = Unknown => prints[p].file # jobs[j].file
  <2>1. prints[p] \in PrintRecord /\ p \in DOMAIN prints BY <1>4 DEF Opens
  <2>2. Recorded(prints[p], jobs, now) /\ Agrees(prints[p], jobs, now) BY <1>4 DEF PrintsInv
  <2>3. prints[p].job <= j
    <3>1. prints[p].job = Unknown \/ prints[p].job \in 1 .. j BY <1>5, <2>2 DEF Recorded
    <3> QED BY <1>5, <3>1 DEF Unknown
  <2>4. p \notin S => \/ prints[p].provider # Unknown \/ prints[p].file # jobs[j].file
                      \/ ~MayHaveStartedIt(prints[p], started)
    BY RunningIs DEF S, Unattached
  <2>5. ASSUME S = {}, prints[p].job = j PROVE FALSE
    <3>1. prints[p].file = jobs[j].file /\ j # Unknown BY <1>5, <2>2, <2>5 DEF Recorded, Unknown
    <3>2. prints[p].provider = Unknown
      <4>1. prints[p].provider # j BY <1>2, <2>1 DEF ById
      <4>2. ASSUME prints[p].provider # Unknown PROVE FALSE
        <5>1. prints[p].provider \in 1 .. j /\ j <= prints[p].provider
          BY <1>5, <2>2, <2>5, <4>2 DEF Recorded
        <5> QED BY <1>5, <4>1, <5>1
      <4> QED BY <4>2
    <3>3. MayHaveStartedIt(prints[p], started)
      <4>1. prints[p].started # Unknown => jobs[j].began <= prints[p].started
        BY <1>5, <2>2, <2>5 DEF Agrees
      <4>2. Tolerance \in Nat /\ prints[p].started \in Known BY <2>1, ListingConstants DEF PrintRecord
      <4> QED BY <1>5, <4>1, <4>2 DEF MayHaveStartedIt, Known, Unknown
    <3> QED BY <2>4, <2>5, <3>1, <3>2, <3>3
  <2>6. ASSUME S = {}, prints[p].job = Unknown, prints[p].file = jobs[j].file PROVE FALSE
    <3>1. prints[p].provider = Unknown /\ prints[p].started = Unknown BY <2>2, <2>6 DEF Recorded
    <3> QED BY <2>4, <2>6, <3>1 DEF MayHaveStartedIt
  <2> QED BY <1>8, <2>3, <2>5, <2>6
<1>11. ASSUME found # Unknown
       PROVE  /\ found \in DOMAIN prints /\ prints[found].open
              /\ prints[found].provider = Unknown /\ prints[found].file = jobs[j].file
              /\ started # Unknown =>
                   \/ prints[found].job \in {Unknown, j} \/ prints[found].merged
                   \/ prints[found].known <= Tolerance
  <2>1. /\ found \in Opens(prints) /\ prints[found].provider = Unknown /\ prints[found].file = jobs[j].file
        /\ MayHaveStartedIt(prints[found], started)
    BY <1>8, <1>11, RunningIs DEF S, Unattached
  <2>2. ASSUME started # Unknown, prints[found].job \notin {Unknown, j}, ~prints[found].merged
        PROVE  prints[found].known <= Tolerance
    <3>1. prints[found] \in PrintRecord BY <1>4, <2>1 DEF Opens
    <3>2. prints[found].known \in Known /\ prints[found].started \in Known /\ Tolerance \in Nat
      BY <3>1, ListingConstants DEF PrintRecord
    <3>3. CASE prints[found].known = Unknown BY <3>2, <3>3 DEF Unknown
    <3>4. CASE prints[found].known # Unknown
      <4>1. Recorded(prints[found], jobs, now) BY <1>4, <2>1 DEF PrintsInv
      <4>2. prints[found].started # Unknown /\ prints[found].known + prints[found].started <= jobs[j].began
        BY <1>5, <2>2, <3>4, <4>1 DEF Recorded
      <4>3. jobs[j].began - prints[found].started <= Tolerance
        BY <1>1, <2>1, <2>2, <4>2 DEF MayHaveStartedIt
      <4> QED BY <1>5, <3>2, <4>2, <4>3 DEF Known, Unknown
    <3> QED BY <3>3, <3>4
  <2> QED BY <2>1, <2>2 DEF Opens
<1>12. AlertFound'
  <2>1. ops'["alert"].job = j /\ ops'["alert"].found = found /\ ops'["alert"].dated = (started # Unknown)
    BY <1>3
  <2> QED BY <1>2, <1>10, <1>11, <2>1 DEF AlertFound
<1>13. OpTypes' /\ OneInFlight' /\ OpsInv' BY <1>3, <1>9, <1>12, OnlyInFlight DEF Actors
<1>14. TurnTypes' BY <1>2 DEF ListingIInv, TurnTypes
<1> QED BY <1>2, <1>13, <1>14, SameRecords DEF ListingIInv

\* A close is checked for a print the printer does not run, or says nothing of.
LEMMA CloseChecksKeeps ==
  ASSUME ListingIInv, NEW p \in DOMAIN prints, CloseChecks(p) PROVE ListingIInv'
<1>1. PICK o \in Observed \union {[state |-> "unread"]} :
        /\ ~StillActive(p, o)
        /\ ops' = [ops EXCEPT !["close"] = [stage |-> "checked", print |-> p, sure |-> o.state # "unread"]]
  BY DEF CloseChecks
<1>2. UNCHANGED <<now, jobs, prints, turn>> /\ Free("close") /\ prints[p].open BY DEF CloseChecks
<1>3. Only("close")' /\ ops'["close"] = [stage |-> "checked", print |-> p, sure |-> o.state # "unread"]
  BY <1>1, <1>2, NothingElseIs DEF ListingIInv, Actors
<1>4. p \in Nat /\ p \in Opens(prints)
  <2>1. prints \in Seq(PrintRecord) BY DEF ListingIInv, PrintsInv
  <2> QED BY <1>2, <2>1 DEF Opens
<1>5. ops'["close"] \in Closes BY <1>3, <1>4 DEF Closes
<1>6. o.state # "unread" => prints[p].job \notin Runs(jobs)
  <2> SUFFICES ASSUME o \in Observed, prints[p].job \in Runs(jobs) PROVE FALSE OBVIOUS
  <2>1. o.state # "over" /\ o \in Report /\ o.job \in Running
    <3>1. Running # {} BY RunningIs
    <3>2. o \in Report BY <3>1, ObservedSees
    <3>3. o.state # "over" BY <3>2 DEF Report
    <3> QED BY <3>2, <3>3, ObservedSees
  <2>2. o.job = prints[p].job BY <2>1, RunningIs, RunsIs DEF ListingIInv
  <2>3. prints[p].job # Unknown
    <3>1. jobs \in Seq(JobRecord) BY DEF ListingIInv, JobsOf
    <3> QED BY <3>1 DEF Runs, Unknown
  <2>4. prints[p].file = jobs[prints[p].job].file BY <1>4, <2>3 DEF ListingIInv, PrintsInv, Recorded
  <2> QED BY <1>1, <2>1, <2>2, <2>4 DEF StillActive, Report
<1>7. CloseSaw'
  <2>1. ops'["close"].print = p /\ ops'["close"].sure = (o.state # "unread") BY <1>3
  <2> QED BY <1>2, <1>6, <2>1 DEF CloseSaw
<1>8. OpTypes' /\ OneInFlight' /\ OpsInv' BY <1>3, <1>5, <1>7, OnlyInFlight DEF Actors
<1>9. TurnTypes' BY <1>2 DEF ListingIInv, TurnTypes
<1> QED BY <1>2, <1>8, <1>9, SameRecords DEF ListingIInv

\* What is let go leaves nothing in flight; a turn begins and ends on a print there
\* is.
LEMMA LetGoKeeps ==
  ASSUME ListingIInv, StartIsRefused \/ Restart PROVE ListingIInv'
<1>1. UNCHANGED <<now, jobs, prints>> /\ (turn' = turn \/ turn' = NoTurn) BY DEF StartIsRefused, Restart
<1>2. Only("start")' /\ ops'["start"] = Idle
  <2>1. CASE StartIsRefused
    <3>1. ops["start"] # Idle /\ ops' = [ops EXCEPT !["start"] = Idle] BY <2>1 DEF StartIsRefused, Idle
    <3> QED BY <3>1, NothingElseIs DEF ListingIInv, Actors
  <2>2. CASE Restart BY <2>2 DEF Restart, Only, Actors
  <2> QED BY <2>1, <2>2
<1>3. OpTypes' /\ OneInFlight' /\ OpsInv' BY <1>2, OnlyInFlight DEF Actors
<1>4. TurnTypes' BY <1>1 DEF ListingIInv, TurnTypes
<1> QED BY <1>1, <1>3, <1>4, SameRecords DEF ListingIInv

LEMMA TurnKeeps ==
  ASSUME ListingIInv, \/ TurnEnds \/ UNCHANGED listing
                      \/ \E p \in DOMAIN prints : TurnBegins(p)
  PROVE  ListingIInv'
<1>1. UNCHANGED <<now, jobs, prints, ops>> BY DEF TurnEnds, TurnBegins, listing
<1>2. TurnTypes'
  <2>1. CASE TurnEnds
    <3>1. turn \in [print : DOMAIN prints, idle : BOOLEAN, stage : {"held", "closing"}]
      BY <2>1 DEF ListingIInv, TurnTypes, TurnEnds, NoTurn
    <3> QED BY <1>1, <2>1, <3>1 DEF TurnTypes, TurnEnds
  <2>2. CASE UNCHANGED listing BY <2>2 DEF ListingIInv, TurnTypes, listing
  <2>3. CASE \E p \in DOMAIN prints : TurnBegins(p) BY <1>1, <2>3 DEF TurnTypes, TurnBegins
  <2> QED BY <2>1, <2>2, <2>3
<1>3. OpTypes' /\ OneInFlight' /\ OpsInv'
  BY <1>1 DEF ListingIInv, OpTypes, OneInFlight, OpsInv, ReadSaw, AlertFound, StartGiven, CloseSaw
<1> QED BY <1>1, <1>2, <1>3, SameRecords DEF ListingIInv

-----------------------------------------------------------------------------
(* The prints written *)

LEMMA TurnStays ==
  ASSUME ListingIInv, turn' = turn, DOMAIN prints \subseteq DOMAIN prints' PROVE TurnTypes'
  BY DEF ListingIInv, TurnTypes

\* A print ended is one open print fewer.
LEMMA EndingIs ==
  ASSUME ListingIInv, NEW p \in DOMAIN prints
  PROVE  LET qs == [prints EXCEPT ![p] = Ended(@)] IN
         /\ PrintsInv(qs, jobs, now) /\ DOMAIN qs = DOMAIN prints /\ Opens(qs) \subseteq Opens(prints)
         /\ \A q \in DOMAIN prints : q # p => qs[q] = prints[q]
         /\ ~qs[p].open /\ qs[p].job = Unknown
<1> DEFINE qs == [prints EXCEPT ![p] = Ended(@)]
<1>1. PrintsInv(prints, jobs, now) /\ prints \in Seq(PrintRecord) BY DEF ListingIInv, PrintsInv
<1>2. Ended(prints[p]) \in PrintRecord /\ ~Ended(prints[p]).open /\ Ended(prints[p]).job = Unknown
  BY <1>1, EndedIs
<1>3. qs \in Seq(PrintRecord) /\ DOMAIN qs = DOMAIN prints BY <1>1, <1>2
<1>4. qs[p] = Ended(prints[p]) /\ \A q \in DOMAIN prints : q # p => qs[q] = prints[q] BY <1>1
<1> HIDE DEF qs
<1>5. \A q \in Opens(qs) : q \in Opens(prints) /\ qs[q] = prints[q] BY <1>2, <1>3, <1>4 DEF Opens
<1>6. Becomes(prints, qs, p, jobs, now) BY <1>5 DEF Becomes
<1>7. PrintsInv(qs, jobs, now) BY <1>1, <1>3, <1>6, ChangesKeep
<1> QED BY <1>2, <1>3, <1>4, <1>5, <1>7 DEF qs

LEMMA CloseEndsKeeps ==
  ASSUME ListingIInv, CloseEnds PROVE ListingIInv'
<1>1. /\ ops["close"] # Idle /\ ops' = [ops EXCEPT !["close"] = Idle] /\ UNCHANGED <<now, jobs, turn>>
      /\ prints' = [prints EXCEPT ![ops["close"].print] = Ended(@)]
  BY DEF CloseEnds, Idle
<1>2. ops["close"].print \in DOMAIN prints BY <1>1 DEF ListingIInv, OpsInv, CloseSaw
<1>3. PrintsInv(prints', jobs, now) /\ DOMAIN prints' = DOMAIN prints BY <1>1, <1>2, EndingIs
<1>4. Only("close")' /\ ops'["close"] = Idle BY <1>1, NothingElseIs DEF ListingIInv, Actors
<1>5. OpTypes' /\ OneInFlight' /\ OpsInv' BY <1>4, OnlyInFlight DEF Actors
<1>6. TurnTypes' BY <1>1, <1>3, TurnStays
<1> QED BY <1>1, <1>3, <1>5, <1>6 DEF ListingIInv

\* A turn closes its print beside whatever is in flight.
LEMMA TurnClosesKeeps ==
  ASSUME ListingIInv, TurnCloses PROVE ListingIInv'
<1>1. /\ turn.stage = "closing" /\ turn' = NoTurn /\ UNCHANGED <<now, jobs, ops>>
      /\ prints' = [prints EXCEPT ![turn.print] = Ended(@)]
  BY DEF TurnCloses
<1> DEFINE c == turn.print
<1>2. c \in DOMAIN prints BY <1>1 DEF ListingIInv, TurnTypes, NoTurn
<1>3. /\ PrintsInv(prints', jobs, now) /\ DOMAIN prints' = DOMAIN prints /\ Opens(prints') \subseteq Opens(prints)
      /\ \A q \in DOMAIN prints : q # c => prints'[q] = prints[q]
      /\ ~prints'[c].open /\ prints'[c].job = Unknown
  BY <1>1, <1>2, EndingIs
<1> HIDE DEF c
<1>4. \A q \in Opens(prints') : q \in Opens(prints) /\ prints'[q] = prints[q] /\ q # c
  BY <1>2, <1>3 DEF Opens
<1>5. ReadSaw' BY <1>1, <1>4 DEF ListingIInv, OpsInv, ReadSaw
<1>6. AlertFound'
  <2> SUFFICES ASSUME ops["alert"] # Idle PROVE AlertFound' BY <1>1 DEF AlertFound
  <2> DEFINE j == ops["alert"].job
             found == ops["alert"].found
  <2>1. /\ j \in DOMAIN jobs
        /\ \A p \in Opens(prints) :
             /\ prints[p].job <= j
             /\ found = Unknown => /\ prints[p].job # j
                                   /\ prints[p].job = Unknown => prints[p].file # jobs[j].file
    BY DEF ListingIInv, OpsInv, AlertFound
  <2>2. \A p \in Opens(prints') :
             /\ prints'[p].job <= j
             /\ found = Unknown => /\ prints'[p].job # j
                                   /\ prints'[p].job = Unknown => prints'[p].file # jobs[j].file
    BY <1>4, <2>1
  <2>3. ASSUME found # Unknown
        PROVE  /\ found \in DOMAIN prints'
               /\ ~prints'[found].open => prints'[found].job = Unknown
               /\ prints'[found].open =>
                    /\ prints'[found].provider = Unknown /\ prints'[found].file = jobs[j].file
                    /\ ops["alert"].dated =>
                         \/ prints'[found].job \in {Unknown, j} \/ prints'[found].merged
                         \/ prints'[found].known <= Tolerance
    <3>1. found \in DOMAIN prints BY <2>3 DEF ListingIInv, OpsInv, AlertFound
    <3>2. CASE found = c BY <1>3, <3>1, <3>2
    <3>3. CASE found # c
      <4>1. prints'[found] = prints[found] BY <1>3, <3>1, <3>3
      <4> QED BY <1>3, <2>3, <3>1, <4>1 DEF ListingIInv, OpsInv, AlertFound
    <3> QED BY <3>2, <3>3
  <2> QED BY <1>1, <2>1, <2>2, <2>3 DEF AlertFound
<1>7. StartGiven' BY <1>1, <1>3 DEF ListingIInv, OpsInv, StartGiven
<1>8. CloseSaw'
  <2> SUFFICES ASSUME ops["close"] # Idle
               PROVE  /\ ops["close"].print \in DOMAIN prints'
                      /\ ops["close"].sure /\ prints'[ops["close"].print].open =>
                           prints'[ops["close"].print].job \notin Runs(jobs)
    BY <1>1 DEF CloseSaw
  <2>1. /\ ops["close"].print \in DOMAIN prints
        /\ ops["close"].sure /\ prints[ops["close"].print].open =>
             prints[ops["close"].print].job \notin Runs(jobs)
    BY DEF ListingIInv, OpsInv, CloseSaw
  <2>2. CASE ops["close"].print = c BY <1>3, <2>1, <2>2
  <2>3. CASE ops["close"].print # c BY <1>3, <2>1, <2>3
  <2> QED BY <2>2, <2>3
<1>9. OpTypes' /\ OneInFlight' BY <1>1 DEF ListingIInv, OpTypes, OneInFlight
<1>10. TurnTypes' BY <1>1 DEF TurnTypes
<1> QED BY <1>1, <1>3, <1>5, <1>6, <1>7, <1>8, <1>9, <1>10 DEF ListingIInv, OpsInv

\* An alert attaches to the print it found, or opens one.
LEMMA AlertResolvesKeeps ==
  ASSUME ListingIInv, AlertResolves PROVE ListingIInv'
<1> DEFINE j == ops["alert"].job
           p == ops["alert"].found
<1>1. ops["alert"] # Idle /\ ops' = [ops EXCEPT !["alert"] = Idle] /\ UNCHANGED <<now, jobs, turn>>
  BY DEF AlertResolves, Idle
<1>2. /\ JobsOf(jobs, now) /\ PrintsInv(prints, jobs, now) /\ jobs \in Seq(JobRecord)
      /\ prints \in Seq(PrintRecord)
  BY DEF ListingIInv, JobsOf, PrintsInv
<1>3. /\ j \in DOMAIN jobs
      /\ \A q \in Opens(prints) :
           /\ prints[q].job <= j
           /\ p = Unknown => /\ prints[q].job # j
                             /\ prints[q].job = Unknown => prints[q].file # jobs[j].file
      /\ p # Unknown => /\ p \in DOMAIN prints
                        /\ prints[p].open => prints[p].provider = Unknown /\ prints[p].file = jobs[j].file
  BY <1>1 DEF ListingIInv, OpsInv, AlertFound
<1>4. prints' = IF p # Unknown
                  THEN [prints EXCEPT ![p].provider = j, ![p].job = IF @ = Unknown THEN j ELSE @]
                  ELSE Append(prints, NewPrint(jobs[j].file, j, j))
  BY DEF AlertResolves
<1> HIDE DEF j, p
<1>5. j \in Nat /\ j # Unknown /\ j \in Known /\ jobs[j] \in JobRecord /\ jobs[j].file \in Files
  <2>1. j \in Nat /\ jobs[j] \in JobRecord BY <1>2, <1>3
  <2> QED BY <2>1 DEF Unknown, Known, JobRecord
<1>6. Pausing \in Nat BY ListingConstants
<1>7. j \in Runs(jobs) => PrintedOf(jobs[j], now) \in Nat BY <1>2, RunsIs
<1>8. ASSUME p # Unknown PROVE PrintsInv(prints', jobs, now) /\ DOMAIN prints \subseteq DOMAIN prints'
  <2> DEFINE job == IF prints[p].job = Unknown THEN j ELSE prints[p].job
             r == [prints[p] EXCEPT !.provider = j, !.job = job]
  <2>1. p \in DOMAIN prints /\ prints[p] \in PrintRecord BY <1>2, <1>3, <1>8
  <2>2. job \in Known BY <1>5, <2>1 DEF PrintRecord
  <2>3. prints' = [prints EXCEPT ![p] = r] BY <1>2, <1>4, <1>8, <2>1 DEF PrintRecord
  <2> HIDE DEF job
  <2>4. /\ r \in PrintRecord /\ r.provider = j /\ r.job = job
        /\ r.open = prints[p].open /\ r.file = prints[p].file /\ r.started = prints[p].started
        /\ r.longest = prints[p].longest /\ r.known = prints[p].known /\ r.merged = prints[p].merged
    BY <1>5, <2>1, <2>2 DEF PrintRecord
  <2> HIDE DEF r
  <2>5. prints' \in Seq(PrintRecord) /\ DOMAIN prints' = DOMAIN prints /\ prints'[p] = r
        /\ \A q \in DOMAIN prints : q # p => prints'[q] = prints[q]
    BY <1>2, <2>1, <2>3, <2>4
  <2>6. ASSUME prints[p].open
        PROVE  /\ Recorded(r, jobs, now) /\ Agrees(r, jobs, now)
               /\ \/ r.job = prints[p].job
                  \/ /\ prints[p].job = Unknown /\ r.job # Unknown
                     /\ \A q \in Opens(prints) : prints[q].job = r.job => prints[q].file = prints[p].file
    <3>1. p \in Opens(prints) BY <2>1, <2>6 DEF Opens
    <3>2. Recorded(prints[p], jobs, now) /\ Agrees(prints[p], jobs, now) BY <1>2, <3>1 DEF PrintsInv
    <3>3. prints[p].file = jobs[j].file /\ prints[p].job <= j BY <1>3, <1>8, <2>6, <3>1
    <3>4. CASE prints[p].job = Unknown
      <4>1. job = j BY <3>4 DEF job
      <4>2. r.started = Unknown /\ r.longest = Unknown /\ r.known = Unknown /\ ~r.merged
        BY <2>4, <3>2, <3>4 DEF Recorded
      <4>3. Recorded(r, jobs, now) BY <1>3, <1>5, <2>4, <3>3, <4>1, <4>2 DEF Recorded, Unknown
      <4>4. Agrees(r, jobs, now) BY <1>6, <1>7, <2>4, <4>1, <4>2 DEF Agrees, Unknown
      <4>5. \A q \in Opens(prints) : prints[q].job = j => prints[q].file = jobs[j].file
        BY <1>2, <1>5 DEF PrintsInv, Recorded
      <4> QED BY <1>5, <2>4, <3>3, <3>4, <4>1, <4>3, <4>4, <4>5
    <3>5. CASE prints[p].job # Unknown
      <4>1. job = prints[p].job BY <3>5 DEF job
      <4>2. Recorded(r, jobs, now) BY <1>3, <2>4, <3>2, <3>3, <3>5, <4>1 DEF Recorded
      <4>3. Agrees(r, jobs, now) BY <2>4, <3>2, <4>1 DEF Agrees
      <4> QED BY <2>4, <4>1, <4>2, <4>3
    <3> QED BY <3>4, <3>5
  <2>7. Becomes(prints, prints', p, jobs, now) BY <2>4, <2>5, <2>6 DEF Becomes, Opens
  <2> QED BY <1>2, <2>5, <2>7, ChangesKeep
<1>9. ASSUME p = Unknown PROVE PrintsInv(prints', jobs, now) /\ DOMAIN prints \subseteq DOMAIN prints'
  <2> DEFINE new == NewPrint(jobs[j].file, j, j)
  <2>1. /\ new \in PrintRecord /\ new.file = jobs[j].file /\ new.provider = j /\ new.job = j
        /\ new.open /\ ~new.merged
        /\ new.started = Unknown /\ new.longest = Unknown /\ new.known = Unknown
    <3>1. jobs[j].file \in Files \union {Unknown} BY <1>5
    <3> QED BY <1>5, <3>1, NewIs
  <2>2. prints' = Append(prints, new) BY <1>4, <1>9
  <2> HIDE DEF new
  <2>3. Recorded(new, jobs, now) BY <1>3, <1>5, <2>1 DEF Recorded, Unknown
  <2>4. Agrees(new, jobs, now) BY <1>6, <1>7, <2>1 DEF Agrees, Unknown
  <2>5. PrintsInv(prints', jobs, now) BY <1>2, <1>3, <1>5, <1>9, <2>1, <2>2, <2>3, <2>4, OpensKeep
  <2>6. DOMAIN prints \subseteq DOMAIN prints' BY <1>2, <2>1, <2>2
  <2> QED BY <2>5, <2>6
<1>10. PrintsInv(prints', jobs, now) /\ DOMAIN prints \subseteq DOMAIN prints'
  <2>1. CASE p # Unknown BY <1>8, <2>1
  <2>2. CASE p = Unknown BY <1>9, <2>2
  <2> QED BY <2>1, <2>2
<1>11. Only("alert")' /\ ops'["alert"] = Idle BY <1>1, NothingElseIs DEF ListingIInv, Actors
<1>12. OpTypes' /\ OneInFlight' /\ OpsInv' BY <1>11, OnlyInFlight DEF Actors
<1>13. TurnTypes' BY <1>1, <1>10, TurnStays
<1> QED BY <1>1, <1>2, <1>10, <1>12, <1>13 DEF ListingIInv

\* A start is given the job it began, if its print is of the same file and no job.
LEMMA StartIsTakenKeeps ==
  ASSUME ListingIInv, StartIsTaken PROVE ListingIInv'
<1> DEFINE p == ops["start"].print
           file == ops["start"].file
           j == Len(jobs) + 1
           job == [file |-> file, began |-> now, resumed |-> 0, paused |-> Unknown, state |-> "printing"]
<1>1. /\ ops["start"] # Idle /\ ops' = [ops EXCEPT !["start"] = Idle] /\ UNCHANGED <<now, turn>>
      /\ Running = {} /\ jobs' = Append(jobs, job)
      /\ prints' = IF prints[p].job = Unknown /\ prints[p].file = file
                     THEN [prints EXCEPT ![p].job = j] ELSE prints
  BY DEF StartIsTaken, Idle, Began
<1>2. /\ JobsOf(jobs, now) /\ PrintsInv(prints, jobs, now) /\ jobs \in Seq(JobRecord)
      /\ prints \in Seq(PrintRecord)
  BY DEF ListingIInv, JobsOf, PrintsInv
<1>3. p \in DOMAIN prints /\ file \in Files
  BY <1>1 DEF ListingIInv, OpsInv, StartGiven, OpTypes, Starts
<1> HIDE DEF p, file
<1>4. /\ Onward(jobs, now, jobs', now) /\ jobs'[j] = job /\ j \notin DOMAIN jobs /\ j \in DOMAIN jobs'
      /\ PrintedOf(job, now) = 0 /\ job.file = file
  BY <1>1, <1>2, <1>3, RunningIs, BeginsAfter
<1>5. j \in Nat /\ j # Unknown BY <1>2 DEF Unknown
<1> HIDE DEF j, job
<1>6. PrintsInv(prints, jobs', now) /\ JobsOf(jobs', now)
  BY <1>2, <1>4, PrintsOnward DEF Onward
<1>7. ASSUME prints[p].job = Unknown, prints[p].file = file
      PROVE  PrintsInv(prints', jobs', now) /\ DOMAIN prints' = DOMAIN prints
  <2> DEFINE r == [prints[p] EXCEPT !.job = j]
  <2>1. prints[p] \in PrintRecord BY <1>2, <1>3
  <2>2. prints' = [prints EXCEPT ![p] = r] BY <1>1, <1>7
  <2>3. /\ r \in PrintRecord /\ r.provider = prints[p].provider /\ r.job = j
        /\ r.open = prints[p].open /\ r.file = prints[p].file /\ r.started = prints[p].started
        /\ r.longest = prints[p].longest /\ r.known = prints[p].known /\ r.merged = prints[p].merged
    BY <1>5, <2>1 DEF PrintRecord, Known
  <2> HIDE DEF r
  <2>4. prints' \in Seq(PrintRecord) /\ DOMAIN prints' = DOMAIN prints /\ prints'[p] = r
        /\ \A q \in DOMAIN prints : q # p => prints'[q] = prints[q]
    BY <1>2, <1>3, <2>2, <2>3
  <2>5. ASSUME prints[p].open PROVE Recorded(r, jobs', now) /\ Agrees(r, jobs', now)
    <3>1. p \in Opens(prints) BY <1>3, <2>5 DEF Opens
    <3>2. Recorded(prints[p], jobs', now) BY <1>6, <3>1 DEF PrintsInv
    <3>3. /\ r.provider = Unknown /\ r.started = Unknown /\ r.longest = Unknown /\ r.known = Unknown /\ ~r.merged
      BY <1>7, <2>3, <3>2 DEF Recorded
    <3>4. Pausing \in Nat BY ListingConstants
    <3>5. Recorded(r, jobs', now) BY <1>4, <1>5, <1>7, <2>3, <3>3 DEF Recorded, Unknown
    <3>6. Agrees(r, jobs', now) BY <1>4, <2>3, <3>3, <3>4 DEF Agrees, Unknown
    <3> QED BY <3>5, <3>6
  <2>6. \A q \in Opens(prints) : prints[q].job # j BY <1>2, <1>4, <1>5 DEF PrintsInv, Recorded
  <2>7. Becomes(prints, prints', p, jobs', now)
    BY <1>5, <1>7, <2>3, <2>4, <2>5, <2>6 DEF Becomes, Opens
  <2> QED BY <1>6, <2>4, <2>7, ChangesKeep
<1>8. PrintsInv(prints', jobs', now) /\ DOMAIN prints' = DOMAIN prints
  <2>1. CASE prints[p].job = Unknown /\ prints[p].file = file BY <1>7, <2>1
  <2>2. CASE ~(prints[p].job = Unknown /\ prints[p].file = file) BY <1>1, <1>6, <2>2
  <2> QED BY <2>1, <2>2
<1>9. Only("start")' /\ ops'["start"] = Idle BY <1>1, NothingElseIs DEF ListingIInv, Actors
<1>10. OpTypes' /\ OneInFlight' /\ OpsInv' BY <1>9, OnlyInFlight DEF Actors
<1>11. TurnTypes' BY <1>1, <1>8, TurnStays
<1> QED BY <1>1, <1>6, <1>8, <1>10, <1>11 DEF ListingIInv

LEMMA SettleKeeps ==
  ASSUME ListingIInv, Settle PROVE ListingIInv'
<1> DEFINE o == ops["read"].seen
<1>1. /\ ops["read"] # Idle /\ ops["read"].stage = "read" /\ o.state # "unread"
      /\ ops' = [ops EXCEPT !["read"] = Idle] /\ UNCHANGED <<now, jobs, turn>>
      /\ \/ prints' = Settled(o)
         \/ /\ o.state # "over" /\ Matching(o) = {}
            /\ prints' = Append(Settled(o), Taken(Sighted(NewPrint(jobs[o.job].file, Unknown, o.job), o), o))
  BY DEF Settle, Idle
<1>2. Sees(o) BY <1>1, ReadSees
<1> HIDE DEF o
<1>3. JobsOf(jobs, now) /\ PrintsInv(prints, jobs, now) BY DEF ListingIInv
<1>4. PrintsInv(Settled(o), jobs, now) /\ DOMAIN Settled(o) = DOMAIN prints BY <1>2, <1>3, SettledKeeps
<1>5. PrintsInv(prints', jobs, now) BY <1>1, <1>2, <1>3, <1>4, AdoptsKeeps
<1>6. DOMAIN prints \subseteq DOMAIN prints'
  <2> DEFINE taken == Taken(Sighted(NewPrint(jobs[o.job].file, Unknown, o.job), o), o)
  <2>1. Settled(o) \in Seq(PrintRecord) BY <1>4 DEF PrintsInv
  <2>2. prints' \in Seq(PrintRecord) BY <1>5 DEF PrintsInv
  <2> HIDE DEF taken
  <2>3. prints' = Settled(o) \/ prints' = Append(Settled(o), taken) BY <1>1 DEF taken
  <2>4. DOMAIN Settled(o) \subseteq DOMAIN Append(Settled(o), taken)
    <3>1. Len(Append(Settled(o), taken)) = Len(Settled(o)) + 1 /\ Len(Settled(o)) \in Nat
          /\ DOMAIN Append(Settled(o), taken) = 1 .. (Len(Settled(o)) + 1)
          /\ DOMAIN Settled(o) = 1 .. Len(Settled(o))
      BY <2>1
    <3> QED BY <3>1
  <2> QED BY <1>4, <2>3, <2>4
<1>7. Only("read")' /\ ops'["read"] = Idle BY <1>1, NothingElseIs DEF ListingIInv, Actors
<1>8. OpTypes' /\ OneInFlight' /\ OpsInv' BY <1>7, OnlyInFlight DEF Actors
<1>9. TurnTypes' BY <1>1, <1>6, TurnStays
<1> QED BY <1>1, <1>3, <1>5, <1>8, <1>9 DEF ListingIInv

\* A start is made against a print left open, or opens the only one.
LEMMA StartChoosesKeeps ==
  ASSUME ListingIInv, NEW file \in Files, NEW asked \in DOMAIN prints, StartChooses(file, asked)
  PROVE  ListingIInv'
<1> DEFINE o == ops["read"].seen
           after == IF o.state = "unread" THEN prints ELSE Settled(o)
           left == \E p \in DOMAIN after : after[p].open
           new == NewPrint(file, Unknown, Unknown)
           given(p) == [stage |-> "chosen", print |-> p, file |-> file]
<1>1. /\ ops["read"] # Idle /\ ops["read"].stage = "read" /\ UNCHANGED <<now, jobs, turn>>
      /\ IF left
           THEN /\ prints' = after
                /\ ops' = [ops EXCEPT !["read"] = Idle,
                                      !["start"] = IF after[asked].open THEN given(asked) ELSE Idle]
           ELSE /\ prints' = Append(after, new)
                /\ ops' = [ops EXCEPT !["read"] = Idle, !["start"] = given(Len(after) + 1)]
  BY DEF StartChooses, Idle
<1>2. JobsOf(jobs, now) /\ PrintsInv(prints, jobs, now) BY DEF ListingIInv
<1>3. PrintsInv(after, jobs, now) /\ DOMAIN after = DOMAIN prints
  <2>1. CASE o.state = "unread" BY <1>2, <2>1
  <2>2. CASE o.state # "unread"
    <3>1. Sees(o) BY <1>1, <2>2, ReadSees
    <3> HIDE DEF o
    <3> QED BY <1>2, <2>2, <3>1, SettledKeeps
  <2> QED BY <2>1, <2>2
<1>4. after \in Seq(PrintRecord) /\ Len(after) \in Nat /\ DOMAIN after = 1 .. Len(after)
  <2>1. after \in Seq(PrintRecord) BY <1>3 DEF PrintsInv
  <2> HIDE DEF after
  <2> QED BY <2>1
<1> HIDE DEF after
<1>5. /\ new \in PrintRecord /\ new.file = file /\ new.provider = Unknown /\ new.job = Unknown
      /\ new.open /\ ~new.merged
      /\ new.started = Unknown /\ new.longest = Unknown /\ new.known = Unknown
  <2>1. file \in Files \union {Unknown} /\ Unknown \in Known BY DEF Known
  <2> QED BY <2>1, NewIs
<1> HIDE DEF new
<1>6. PICK p \in Nat :
        /\ PrintsInv(prints', jobs, now) /\ DOMAIN prints \subseteq DOMAIN prints' /\ p \in DOMAIN prints'
        /\ \/ ops' = [ops EXCEPT !["read"] = Idle, !["start"] = given(p)]
           \/ ops' = [ops EXCEPT !["read"] = Idle, !["start"] = Idle]
  <2>1. CASE left
    <3>1. asked \in Nat BY <1>3, <1>4
    <3> HIDE DEF given
    <3> QED BY <1>1, <1>3, <2>1, <3>1
  <2>2. CASE ~left
    <3>1. Opens(after) = {} BY <2>2 DEF Opens
    <3>2. Recorded(new, jobs, now) BY <1>5 DEF Recorded, Unknown
    <3>3. Agrees(new, jobs, now)
      <4>1. Unknown \notin Runs(jobs)
        <5>1. jobs \in Seq(JobRecord) BY <1>2 DEF JobsOf
        <5> QED BY <5>1 DEF Runs, Unknown
      <4> QED BY <1>5, <4>1 DEF Agrees
    <3>4. PrintsInv(Append(after, new), jobs, now) BY <1>3, <1>5, <3>1, <3>2, <3>3, OpensKeep
    <3>5. DOMAIN Append(after, new) = 1 .. (Len(after) + 1) BY <1>4
    <3> HIDE DEF given
    <3>6. Len(after) + 1 \in Nat /\ Len(after) + 1 \in DOMAIN Append(after, new)
          /\ DOMAIN after \subseteq DOMAIN Append(after, new)
      BY <1>4, <3>5
    <3> QED BY <1>1, <1>3, <2>2, <3>4, <3>6
  <2> QED BY <2>1, <2>2
<1>7. Only("start")' /\ (ops'["start"] = given(p) \/ ops'["start"] = Idle)
  BY <1>1, <1>6, NothingElseIs DEF ListingIInv, Actors
<1>8. OpTypes' /\ OneInFlight' /\ OpsInv'
  <2>1. CASE ops'["start"] = Idle BY <1>7, <2>1, OnlyInFlight DEF Actors
  <2>2. CASE ops'["start"] = given(p)
    <3>1. ops'["start"] \in Starts /\ ops'["start"].print = p BY <1>6, <2>2 DEF Starts
    <3>2. StartGiven' BY <1>6, <3>1 DEF StartGiven
    <3> QED BY <1>7, <3>1, <3>2, OnlyInFlight DEF Actors
  <2> QED BY <1>7, <2>1, <2>2
<1>9. TurnTypes' BY <1>1, <1>6, TurnStays
<1> QED BY <1>1, <1>2, <1>6, <1>8, <1>9 DEF ListingIInv

-----------------------------------------------------------------------------
(* The theorems *)

LEMMA ListingStep == ListingIInv /\ [ListingNext]_listing => ListingIInv'
<1> SUFFICES ASSUME ListingIInv, [ListingNext]_listing PROVE ListingIInv' OBVIOUS
<1>1. CASE \/ Tick \/ \E file \in Files : JobBegins(file)
           \/ \E j \in DOMAIN jobs : JobPauses(j) \/ JobResumes(j) \/ JobEnds(j)
  BY <1>1, PrinterKeeps
<1>2. CASE \E file \in Files, asked \in DOMAIN prints : StartChooses(file, asked)
  BY <1>2, StartChoosesKeeps
<1>3. CASE \E j \in DOMAIN jobs : AlertLooks(j) BY <1>3, AlertLooksKeeps
<1>4. CASE ReadJob \/ StartReadFails BY <1>4, ReadJobKeeps
<1>5. CASE Settle BY <1>5, SettleKeeps
<1>6. CASE AlertResolves BY <1>6, AlertResolvesKeeps
<1>7. CASE StartIsTaken BY <1>7, StartIsTakenKeeps
<1>8. CASE StartIsRefused \/ Restart BY <1>8, LetGoKeeps
<1>9. CASE \E p \in DOMAIN prints : CloseChecks(p) BY <1>9, CloseChecksKeeps
<1>10. CASE TurnEnds \/ UNCHANGED listing \/ \E p \in DOMAIN prints : TurnBegins(p)
  BY <1>10, TurnKeeps
<1>11. CASE CloseEnds BY <1>11, CloseEndsKeeps
<1>12. CASE TurnCloses BY <1>12, TurnClosesKeeps
<1> QED BY <1>1, <1>2, <1>3, <1>4, <1>5, <1>6, <1>7, <1>8, <1>9, <1>10, <1>11, <1>12 DEF ListingNext

\* Every open print agrees with its job and with what is in flight about it, a job
\* has one open print, and one no job is known of is alone of its file.
THEOREM ListingInvariance == ListingSpec => []ListingIInv
  BY ListingInitial, ListingStep, PTL DEF ListingSpec

\* One job never has two open prints, however reads, alerts, starts and closes come
\* between one another's steps (events.rs: `resolve_print`; listing.rs:
\* `settle_open_prints`; actions.rs: `print_to_start`).
THEOREM AJobHasOneOpenPrint == ListingSpec => []OneOpenPrintPerJob
<1>1. ListingIInv => OneOpenPrintPerJob
  BY RunningIs DEF ListingIInv, PrintsInv, OneEach, OneOpenPrintPerJob
<1> QED BY ListingInvariance, <1>1, PTL

\* Neither a read, however old when it is settled, nor an operator's close that
\* could read the printer ends the print of the job still running, through any
\* pauses, or the print a start in flight was given (listing.rs: `may_be_same_job`;
\* closing.rs: `still_active`).
THEOREM NoReadEndsALivePrint == ListingSpec => NoLivePrintEnded
<1> DEFINE Kept == \A p \in DOMAIN prints : Ends(p) /\ (ByARead \/ (CloseEnds /\ ops["close"].sure)) =>
                     /\ prints[p].job \notin Running
                     /\ ops["start"].stage = "chosen" => p # ops["start"].print
<1>1. ListingIInv /\ [ListingNext]_listing => [Kept]_listing
  <2> SUFFICES ASSUME ListingIInv, NEW p \in DOMAIN prints, Ends(p),
                      ByARead \/ (CloseEnds /\ ops["close"].sure)
               PROVE  /\ prints[p].job \notin Running
                      /\ ops["start"].stage = "chosen" => p # ops["start"].print
    OBVIOUS
  <2>1. JobsOf(jobs, now) /\ PrintsInv(prints, jobs, now) /\ OneInFlight BY DEF ListingIInv
  <2>2. prints[p].open /\ ~prints'[p].open BY DEF Ends
  <2>3. ops["start"].stage # "chosen"
    <3>1. ops["read"] # Idle \/ ops["close"] # Idle
      BY DEF ByARead, Settle, StartChooses, CloseEnds, Idle
    <3>2. ops["start"].stage = "chosen" => ops["start"] # Idle BY DEF Idle
    <3> QED BY <2>1, <3>1, <3>2 DEF OneInFlight, Actors
  <2>4. CASE ByARead
    <3> DEFINE o == ops["read"].seen
    <3>1. ops["read"].stage = "read" BY <2>4 DEF ByARead, Settle, StartChooses
    <3>2. o.state # "unread" => Sees(o) BY <3>1, ReadSees
    <3>3. o.state # "unread" =>
            /\ PrintsInv(Settled(o), jobs, now) /\ DOMAIN Settled(o) = DOMAIN prints
            /\ prints[p].open /\ ~Settled(o)[p].open => prints[p].job \notin Runs(jobs)
      <4> HIDE DEF o
      <4> QED BY <2>1, <3>2, SettledKeeps, SettlesRightly
    <3> DEFINE after == IF o.state = "unread" THEN prints ELSE Settled(o)
    <3>4. prints' = after \/ \E new : prints' = Append(after, new)
      <4>1. CASE Settle BY <4>1 DEF Settle
      <4>2. CASE \E file \in Files, asked \in DOMAIN prints : StartChooses(file, asked)
        BY <4>2 DEF StartChooses
      <4> QED BY <2>4, <4>1, <4>2 DEF ByARead
    <3>5. after \in Seq(PrintRecord) /\ DOMAIN after = DOMAIN prints
      BY <2>1, <3>3 DEF PrintsInv
    <3> HIDE DEF after
    <3>6. prints'[p] = after[p] BY <3>4, <3>5
    <3> QED BY <2>2, <2>3, <3>3, <3>6, RunningIs DEF after
  <2>5. CASE CloseEnds /\ ops["close"].sure
    <3>1. /\ ops["close"] # Idle /\ prints' = [prints EXCEPT ![ops["close"].print] = Ended(@)]
      BY <2>5 DEF CloseEnds, Idle
    <3>2. /\ ops["close"].print \in DOMAIN prints
          /\ prints[ops["close"].print].open => prints[ops["close"].print].job \notin Runs(jobs)
      BY <2>5, <3>1 DEF ListingIInv, OpsInv, CloseSaw
    <3>3. p = ops["close"].print BY <2>2, <3>1
    <3> QED BY <2>2, <2>3, <3>2, <3>3, RunningIs
  <2> QED BY <2>4, <2>5
<1> QED BY ListingInvariance, <1>1, PTL DEF ListingSpec, NoLivePrintEnded

\* No read takes a print for a later job than its own unless it was seen for no longer
\* than the later one has run and the tolerance, and no alert that says when its job
\* began attaches to a print of an earlier job seen for longer than the tolerance
\* (listing.rs: `may_be_same_job`, `may_have_started_it`, `record_sighting`).
THEOREM LaterJobsTakeNoPrint == ListingSpec => APrintStaysItsJobs
<1> DEFINE ToldApart ==
             \A p \in DOMAIN prints : prints'[p].merged /\ ~prints[p].merged /\ Settle =>
               LET o == ops["read"].seen IN
               o.running = Unknown \/ prints[p].known <= o.running + Tolerance
           Found ==
             \A p \in DOMAIN prints :
               prints'[p].provider # prints[p].provider /\ AlertResolves /\ ops["alert"].dated =>
                 \/ prints[p].job \in {Unknown, ops["alert"].job} \/ prints[p].merged
                 \/ prints[p].known <= Tolerance
<1>1. ListingIInv /\ [ListingNext]_listing => [ToldApart]_listing
  <2> SUFFICES ASSUME ListingIInv, NEW p \in DOMAIN prints, prints'[p].merged, ~prints[p].merged, Settle
               PROVE  \/ ops["read"].seen.running = Unknown
                      \/ prints[p].known <= ops["read"].seen.running + Tolerance
    OBVIOUS
  <2> DEFINE o == ops["read"].seen
  <2>1. JobsOf(jobs, now) /\ PrintsInv(prints, jobs, now) BY DEF ListingIInv
  <2>2. Sees(o) BY ReadSees DEF Settle
  <2>3. prints' = Settled(o) \/ \E new : prints' = Append(Settled(o), new) BY DEF Settle
  <2> HIDE DEF o
  <2>4. Settled(o) \in Seq(PrintRecord) /\ DOMAIN Settled(o) = DOMAIN prints
    BY <2>1, <2>2, SettledKeeps DEF PrintsInv
  <2>5. prints'[p] = Settled(o)[p] BY <2>3, <2>4
  <2> QED BY <2>1, <2>2, <2>5, SettlesRightly DEF o
<1>2. ListingIInv /\ [ListingNext]_listing => [Found]_listing
  <2> SUFFICES ASSUME ListingIInv, NEW p \in DOMAIN prints, prints'[p].provider # prints[p].provider,
                      AlertResolves, ops["alert"].dated
               PROVE  \/ prints[p].job \in {Unknown, ops["alert"].job} \/ prints[p].merged
                      \/ prints[p].known <= Tolerance
    OBVIOUS
  <2> DEFINE found == ops["alert"].found
  <2>1. ops["alert"] # Idle BY DEF AlertResolves, Idle
  <2>2. prints \in Seq(PrintRecord) BY DEF ListingIInv, PrintsInv
  <2>3. found # Unknown /\ p = found
    <3>1. CASE found # Unknown
      <4>1. prints' = [prints EXCEPT ![found].provider = ops["alert"].job,
                                     ![found].job = IF @ = Unknown THEN ops["alert"].job ELSE @]
        BY <3>1 DEF AlertResolves
      <4> HIDE DEF found
      <4>2. p # found => prints'[p] = prints[p] BY <2>2, <4>1
      <4> QED BY <3>1, <4>2
    <3>2. CASE found = Unknown
      <4>1. \E new : prints' = Append(prints, new) BY <3>2 DEF AlertResolves
      <4>2. prints'[p] = prints[p] BY <2>2, <4>1
      <4> QED BY <4>2
    <3> QED BY <3>1, <3>2
  <2> QED BY <2>1, <2>3 DEF ListingIInv, OpsInv, AlertFound
<1> QED BY ListingInvariance, <1>1, <1>2, PTL
        DEF ListingSpec, APrintStaysItsJobs, JobsAreToldApart, AlertsFindTheirPrint
=============================================================================
