----------------------- MODULE AgentSessions_proofs -----------------------
(***************************************************************************)
(* That a ledger of a print's sessions is one every build reads, that the  *)
(* close of a session is written at most once, and that a session shown    *)
(* closed stays closed: for any turns, closes, refusals and deaths.  None is *)
(* inductive alone: a worker that has read the ledger writes back what it  *)
(* read, so what each holds must be as good as the file and no longer than *)
(* the turns allow, and as long as no close runs beside a turn one task has *)
(* the sessions to itself, with the close in the history counted.          *)
(***************************************************************************)
EXTENDS AgentSessions, Integers, TLAPS

-----------------------------------------------------------------------------
(***************************************************************************)
(* What is in flight.                                                      *)
(***************************************************************************)
SessionRecord == [name : Nat, by : Identities, closed : BOOLEAN]
Ledger == [text : {"whole", "blank", "torn"}, list : Seq(SessionRecord), ran : SUBSET Nat]

Choosing == {"runs", "runs again", "ran", "saves close", "fills close"}
Saving == {"saves", "fills"}
TurnAt == {"idle", "reads", "answered"} \union Choosing \union Saving
CloserAt == {"idle", "ends", "shuts", "looks", "puts", "asks", "notes", "tells"} \union Saving
Task == [pc : TurnAt \union CloserAt, ledger : Ledger, name : Nat, created : BOOLEAN]

SessionsTypeOK ==
  /\ disk \in Ledger /\ harness \in [Names -> Identities \union {Nobody}] /\ identity \in Identities
  /\ closings \in Nat /\ turnsRun \in 0 .. MaxTurns /\ shut \subseteq Nat /\ crossed \in BOOLEAN
  /\ row # Nobody => row.name \in Nat
  /\ at \in [Workers -> Task]
  /\ at["turn"].pc \in TurnAt /\ \A c \in Closers : at[c].pc \in CloserAt

\* A ledger every build would read, of sessions the harness has.
Good(ledger) ==
  /\ Agrees(ledger)
  /\ \A i \in DOMAIN ledger.list :
       /\ ledger.list[i].by = harness[i]
       /\ ledger.list[i].closed \/ i = Len(ledger.list)

\* Who has read the ledger and not yet written it back.
Holding(w) == at[w].pc \in Choosing \union Saving
AllGood ==
  /\ disk.text = "whole" => Good(disk)
  /\ \A w \in Workers : Holding(w) => Good(at[w].ledger)

\* No turn adds more than a session.
Grown == IF at["turn"].pc \in {"reads"} \union Choosing THEN turnsRun - 1 ELSE turnsRun
NotTooLong ==
  /\ at["turn"].pc # "idle" => turnsRun > 0
  /\ Len(disk.list) <= Grown
  /\ \A w \in Workers : Holding(w) => Len(at[w].ledger.list) <= Grown

\* The session a turn runs in is the one its ledger names, until it is in the ledger.
TurnsSession ==
  /\ at["turn"].pc \in Choosing => at["turn"].name = ForNextTurn(at["turn"].ledger)
  /\ at["turn"].pc = "ran" => harness[at["turn"].name] = identity
  /\ at["turn"].pc \in Saving =>
       /\ at["turn"].name \in DOMAIN at["turn"].ledger.list
       /\ ~at["turn"].ledger.list[at["turn"].name].closed

\* Until a close ran beside another task, there is one task at a time.
OneAtATime == ~crossed => \A v, w \in Workers : v = w \/ Now(v, "idle") \/ Now(w, "idle")
CloseCounted ==
  ~crossed => closings <= 1 /\ \A c \in Closers : Now(c, "notes") => closings = 0

\* What was shown closed is closed in whatever is written next.
ShowsClosed(ledger) == \A n \in shut : n \in DOMAIN ledger.list /\ ledger.list[n].closed
ShutIsKept ==
  ~crossed =>
    /\ disk.text = "whole" => ShowsClosed(disk)
    /\ \A w \in Workers : Holding(w) => ShowsClosed(at[w].ledger)
    /\ Now("turn", "answered") => at["turn"].name \notin shut

SessionsIInv == /\ SessionsTypeOK /\ AllGood /\ NotTooLong /\ TurnsSession
                /\ OneAtATime /\ CloseCounted /\ ShutIsKept

-----------------------------------------------------------------------------
(***************************************************************************)
(* What the ledger's operations keep.                                      *)
(***************************************************************************)
\* `close_current` closes the open session, and nothing else.
LEMMA CurrentClosedKeeps ==
  ASSUME NEW ledger \in Ledger, Good(ledger)
  PROVE  LET closed == CurrentClosed(ledger) IN
         /\ closed \in Ledger /\ Good(closed) /\ ~IsOpen(closed)
         /\ Len(closed.list) = Len(ledger.list)
         /\ \A i \in DOMAIN ledger.list : ledger.list[i].closed => closed.list[i].closed
<1>1. CASE ~IsOpen(ledger)
  BY <1>1 DEF CurrentClosed
<1>2. CASE IsOpen(ledger)
  <2> DEFINE n == Len(ledger.list)
             closed == CurrentClosed(ledger)
  <2>1. ledger.list \in Seq(SessionRecord) /\ n \in DOMAIN ledger.list /\ n \in Nat
    BY <1>2 DEF IsOpen, Ledger
  <2>2. /\ closed.text = ledger.text /\ closed.ran = ledger.ran
        /\ closed.list = [ledger.list EXCEPT ![n].closed = TRUE]
        /\ closed = [text |-> closed.text, list |-> closed.list, ran |-> closed.ran]
    BY <1>2 DEF CurrentClosed, Ledger
  <2>3. closed.list \in Seq(SessionRecord) /\ Len(closed.list) = n
        /\ DOMAIN closed.list = DOMAIN ledger.list
    <3>1. [ledger.list[n] EXCEPT !.closed = TRUE] \in SessionRecord
      <4>1. ledger.list[n] \in SessionRecord BY <2>1
      <4>2. ASSUME NEW r \in SessionRecord PROVE [r EXCEPT !.closed = TRUE] \in SessionRecord
        BY DEF SessionRecord
      <4> QED BY <4>1, <4>2
    <3> HIDE DEF closed
    <3> QED BY <2>1, <2>2, <3>1
  <2>4. \A i \in DOMAIN ledger.list :
          /\ closed.list[i].name = ledger.list[i].name /\ closed.list[i].by = ledger.list[i].by
          /\ i = n => closed.list[i].closed
          /\ i # n => closed.list[i] = ledger.list[i]
    <3>1. closed.list[n] = [ledger.list[n] EXCEPT !.closed = TRUE]
          /\ \A i \in DOMAIN ledger.list \ {n} : closed.list[i] = ledger.list[i]
      BY <2>1, <2>2
    <3>2. ledger.list[n] \in SessionRecord BY <2>1
    <3> HIDE DEF closed
    <3>3. closed.list[n].name = ledger.list[n].name /\ closed.list[n].by = ledger.list[n].by
          /\ closed.list[n].closed
      BY <3>1, <3>2 DEF SessionRecord
    <3> QED BY <3>1, <3>3
  <2>5. closed \in Ledger BY <2>2, <2>3 DEF Ledger
  <2>6. ~IsOpen(closed) BY <2>1, <2>3, <2>4 DEF IsOpen
  <2> HIDE DEF closed
  <2>7. Good(closed) BY <2>2, <2>3, <2>4 DEF Good, Agrees
  <2> QED BY <2>3, <2>4, <2>5, <2>6, <2>7 DEF closed
<1> QED BY <1>1, <1>2

\* The session named for the next turn is the open one, or has the place after
\* the last.
LEMMA NamedForNextTurn ==
  ASSUME NEW ledger \in Ledger, Good(ledger)
  PROVE  /\ ForNextTurn(ledger) \in 1 .. Len(ledger.list) + 1
         /\ ForNextTurn(ledger) \in DOMAIN ledger.list =>
              ForNextTurn(ledger) = Len(ledger.list) /\ ~ledger.list[ForNextTurn(ledger)].closed
         /\ ForNextTurn(ledger) \notin DOMAIN ledger.list =>
              ForNextTurn(ledger) = Len(ledger.list) + 1 /\ ~IsOpen(ledger)
  BY DEF ForNextTurn, AfterCurrent, IsOpen, Good, Agrees, Ledger

\* `record_turn` has the turn in the session named for it, which stays open.
LEMMA WithTurnKeeps ==
  ASSUME NEW ledger \in Ledger, Good(ledger), identity \in Identities,
         NEW name, name = ForNextTurn(ledger), harness[name] = identity
  PROVE  LET after == WithTurn(ledger, name) IN
         /\ after \in Ledger /\ Good(after) /\ Len(after.list) <= Len(ledger.list) + 1
         /\ name \in DOMAIN after.list /\ ~after.list[name].closed
         /\ \A i \in DOMAIN ledger.list :
              ledger.list[i].closed => i \in DOMAIN after.list /\ after.list[i].closed
<1> DEFINE n == Len(ledger.list)
           of == [name |-> name, by |-> identity, closed |-> FALSE]
           known == {i \in DOMAIN ledger.list : ledger.list[i].name = name /\ ~ledger.list[i].closed}
           after == WithTurn(ledger, name)
<1>1. ledger.list \in Seq(SessionRecord) /\ n \in Nat /\ DOMAIN ledger.list = 1 .. n
  BY DEF Ledger
<1>2. name \in 1 .. n + 1
  BY NamedForNextTurn
<1>3. of \in SessionRecord
  BY <1>1, <1>2 DEF SessionRecord
<1>4. /\ after.text = ledger.text /\ after.ran = ledger.ran \union {name}
      /\ after.list = IF known = {} THEN Append(ledger.list, of)
                      ELSE [i \in DOMAIN ledger.list |-> IF i \in known THEN of ELSE ledger.list[i]]
      /\ after = [text |-> after.text, list |-> after.list, ran |-> after.ran]
  <2>1. after = [ledger EXCEPT !.list = IF known = {} THEN Append(ledger.list, of)
                      ELSE [i \in DOMAIN ledger.list |-> IF i \in known THEN of ELSE ledger.list[i]],
                               !.ran = ledger.ran \union {name}]
    BY DEF WithTurn
  <2> HIDE DEF after, known, of
  <2> QED BY <2>1 DEF Ledger
<1> HIDE DEF after
<1>5. CASE name \in DOMAIN ledger.list
  <2>1. name = n /\ ~ledger.list[n].closed BY <1>5, NamedForNextTurn
  <2>2. known = {n} BY <2>1, <1>1, <1>2, <1>5 DEF Good, Agrees
  <2>3. after.list = [i \in 1 .. n |-> IF i = n THEN of ELSE ledger.list[i]]
    BY <2>2, <1>4, <1>1
  <2>4. after.list \in Seq(SessionRecord) /\ Len(after.list) = n /\ DOMAIN after.list = 1 .. n
    <3>1. \A i \in 1 .. n : (IF i = n THEN of ELSE ledger.list[i]) \in SessionRecord
      BY <1>1, <1>3
    <3> HIDE DEF of
    <3> QED BY <2>3, <1>1, <3>1
  <2>5. after.list[n] = of /\ \A i \in 1 .. n : i # n => after.list[i] = ledger.list[i]
    BY <2>3, <1>5, <2>1, <1>1
  <2>6. after \in Ledger
    <3>1. ledger.ran \subseteq Nat /\ ledger.text \in {"whole", "blank", "torn"} /\ name \in Nat
      BY <1>1, <1>2 DEF Ledger
    <3>2. after.ran \subseteq Nat BY <3>1, <1>4
    <3> QED BY <2>4, <1>4, <3>1, <3>2 DEF Ledger
  <2>7. Good(after)
    <3>1. \A i \in 1 .. n : after.list[i].name = i /\ after.list[i].by = harness[i]
      BY <1>1, <2>1, <2>5 DEF Good, Agrees
    <3>2. \A i \in 1 .. n : after.list[i].closed \/ i = n
      BY <1>1, <2>5 DEF Good
    <3>3. after.ran \subseteq 1 .. n BY <1>1, <1>4, <1>5 DEF Good, Agrees
    <3> QED BY <2>4, <3>1, <3>2, <3>3 DEF Good, Agrees
  <2> QED BY <1>1, <1>5, <2>1, <2>4, <2>5, <2>6, <2>7 DEF after
<1>6. CASE name \notin DOMAIN ledger.list
  <2>1. name = n + 1 /\ ~IsOpen(ledger) BY <1>6, NamedForNextTurn
  <2>2. known = {} BY <2>1, <1>1 DEF Good, Agrees
  <2>3. after.list = Append(ledger.list, of) BY <2>2, <1>4
  <2>4. after.list \in Seq(SessionRecord) /\ Len(after.list) = n + 1 /\ DOMAIN after.list = 1 .. n + 1
    <3> HIDE DEF of
    <3> QED BY <2>3, <1>1, <1>3
  <2>5. after.list[n + 1] = of /\ \A i \in 1 .. n : after.list[i] = ledger.list[i]
    <3> HIDE DEF of
    <3> QED BY <2>3, <1>1, <1>3
  <2>6. after \in Ledger
    <3>1. ledger.ran \subseteq Nat /\ ledger.text \in {"whole", "blank", "torn"} /\ name \in Nat
      BY <1>1, <1>2 DEF Ledger
    <3>2. after.ran \subseteq Nat BY <3>1, <1>4
    <3> QED BY <2>4, <1>4, <3>1, <3>2 DEF Ledger
  <2>7. \A i \in 1 .. n : ledger.list[i].closed
    BY <2>1, <1>1 DEF IsOpen, Good
  <2>8. Good(after)
    <3>1. /\ \A i \in 1 .. n : ledger.list[i].name = i /\ ledger.list[i].by = harness[i]
          /\ ledger.ran \subseteq 1 .. n
      BY <1>1 DEF Good, Agrees
    <3>2. of.name = n + 1 /\ of.by = harness[n + 1] BY <2>1, <1>3
    <3>3. \A i \in 1 .. n + 1 : i \in 1 .. n \/ i = n + 1 BY <1>1
    <3>4. \A i \in 1 .. n + 1 : after.list[i].name = i /\ after.list[i].by = harness[i]
      BY <2>5, <3>1, <3>2, <3>3
    <3>5. \A i \in 1 .. n + 1 : after.list[i].closed \/ i = n + 1 BY <2>5, <2>7, <3>3
    <3>6. after.ran \subseteq 1 .. n + 1 BY <1>1, <1>4, <2>1, <3>1
    <3> QED BY <2>4, <3>4, <3>5, <3>6 DEF Good, Agrees
  <2> QED BY <1>1, <2>1, <2>4, <2>5, <2>6, <2>8 DEF after
<1> QED BY <1>5, <1>6

LEMMA SessionsInitial == SessionsInit => SessionsIInv
<1> SUFFICES ASSUME SessionsInit PROVE SessionsIInv OBVIOUS
<1>1. NoLedger \in Ledger /\ Away \in Task /\ Away.pc = "idle" /\ NoLedger.list = <<>>
  <2>1. NoLedger \in Ledger BY DEF NoLedger, Ledger
  <2>2. Away \in Task BY <2>1 DEF Away, Task, TurnAt
  <2> QED BY <2>1, <2>2 DEF Away, NoLedger
<1>2. SessionsTypeOK
  <2>1. at \in [Workers -> Task] /\ \A w \in Workers : at[w].pc = "idle" BY <1>1 DEF SessionsInit
  <2>2. turnsRun \in 0 .. MaxTurns BY SessionConstants DEF SessionsInit
  <2> QED BY <1>1, <2>1, <2>2 DEF SessionsInit, SessionsTypeOK, TurnAt, CloserAt, Workers, Closers
<1>3. AllGood /\ NotTooLong /\ TurnsSession
  <2>1. \A w \in Workers : at[w].pc = "idle" BY <1>1 DEF SessionsInit
  <2>2. Good(disk) BY DEF SessionsInit, Good, Agrees, NoLedger
  <2>3. \A w \in Workers : ~Holding(w) BY <2>1 DEF Holding, Choosing, Saving
  <2>4. at["turn"].pc = "idle" BY <2>1 DEF Workers
  <2>5. Len(disk.list) = 0 /\ turnsRun = 0 BY <1>1 DEF SessionsInit
  <2> QED BY <2>2, <2>3, <2>4, <2>5 DEF AllGood, NotTooLong, Grown, TurnsSession, Choosing, Saving
<1>4. OneAtATime /\ CloseCounted /\ ShutIsKept
  BY <1>1 DEF SessionsInit, OneAtATime, CloseCounted, ShutIsKept, ShowsClosed, Now, Workers, Closers,
     Holding, Choosing, Saving
<1> QED BY <1>2, <1>3, <1>4 DEF SessionsIInv

-----------------------------------------------------------------------------
(***************************************************************************)
(* What a step of one task keeps.                                          *)
(***************************************************************************)
\* No ledger has more sessions than there are turns, so each has its name.
LEMMA NamesEnough ==
  ASSUME SessionsTypeOK, NEW ledger \in Ledger, Len(ledger.list) <= Grown
  PROVE  DOMAIN ledger.list \subseteq Names /\ Len(ledger.list) + 1 \in Names
<1>1. MaxTurns \in Nat /\ turnsRun \in 0 .. MaxTurns /\ Len(ledger.list) \in Nat
      /\ DOMAIN ledger.list = 1 .. Len(ledger.list)
  BY SessionConstants DEF SessionsTypeOK, Ledger
<1>2. Len(ledger.list) <= MaxTurns BY <1>1 DEF Grown
<1> QED BY <1>1, <1>2 DEF Names

\* The harness keeps the sessions it has, so a ledger of them stays one.
LEMMA GoodStays ==
  ASSUME SessionsTypeOK, NEW ledger \in Ledger, Len(ledger.list) <= Grown, Good(ledger),
         \A n \in Names : harness[n] \in Identities => harness'[n] = harness[n]
  PROVE  Good(ledger)'
<1>1. DOMAIN ledger.list \subseteq Names BY NamesEnough
<1>2. \A i \in DOMAIN ledger.list : ledger.list[i].by \in Identities
  <2>1. ledger.list \in Seq(SessionRecord) BY DEF Ledger
  <2>2. \A i \in DOMAIN ledger.list : ledger.list[i] \in SessionRecord BY <2>1
  <2> QED BY <2>2 DEF SessionRecord
<1> QED BY <1>1, <1>2 DEF Good

LEMMA BlankIsALedger ==
  /\ Blank \in Ledger /\ Torn \in Ledger /\ Blank.text # "whole" /\ Torn.text # "whole"
  /\ Blank.list = <<>> /\ Torn.list = <<>>
<1>1. NoLedger \in Ledger /\ NoLedger.list = <<>> BY DEF NoLedger, Ledger
<1>2. ASSUME NEW ledger \in Ledger, NEW text \in {"blank", "torn"}
      PROVE  LET changed == [ledger EXCEPT !.text = text] IN
             changed \in Ledger /\ changed.text = text /\ changed.list = ledger.list
  BY DEF Ledger
<1> QED BY <1>1, <1>2 DEF Blank, Torn

LEMMA GrownGrows ==
  ASSUME turnsRun \in Nat, turnsRun' \in Nat, turnsRun <= turnsRun',
         \/ at'["turn"].pc \in {"reads"} \union Choosing => at["turn"].pc \in {"reads"} \union Choosing
         \/ turnsRun' > turnsRun
  PROVE  turnsRun \in Int /\ Grown \in Int /\ Grown' \in Int /\ Grown <= Grown'
<1> HIDE DEF Choosing
<1>1. CASE at'["turn"].pc \in {"reads"} \union Choosing
  <2>1. Grown' = turnsRun' - 1 BY <1>1 DEF Grown
  <2>2. CASE at["turn"].pc \in {"reads"} \union Choosing
    <3>1. Grown = turnsRun - 1 BY <2>2 DEF Grown
    <3>2. \A m, n \in Nat : m <= n => m - 1 \in Int /\ n - 1 \in Int /\ m - 1 <= n - 1 OBVIOUS
    <3>3. Grown \in Int BY <3>1, <3>2
    <3>4. Grown' \in Int BY <2>1, <3>2
    <3>5. Grown <= Grown' BY <2>1, <3>1, <3>2
    <3>6. turnsRun \in Int OBVIOUS
    <3> QED BY <3>3, <3>4, <3>5, <3>6
  <2>3. CASE turnsRun' > turnsRun
    <3>1. Grown = turnsRun - 1 \/ Grown = turnsRun BY DEF Grown
    <3> QED BY <2>1, <2>3, <3>1
  <2> QED BY <1>1, <2>2, <2>3
<1>2. CASE at'["turn"].pc \notin {"reads"} \union Choosing BY <1>2 DEF Grown
<1> QED BY <1>1, <1>2

LEMMA MoveKeeps ==
  ASSUME SessionsIInv, NEW w \in Workers, NEW new \in Task, at' = [at EXCEPT ![w] = new],
         w = "turn" => new.pc \in TurnAt, w # "turn" => new.pc \in CloserAt,
         crossed' \in BOOLEAN, crossed => crossed',
         at[w].pc = "idle" /\ new.pc # "idle" /\ ~crossed' =>
           \A v \in Workers : v # w => at[v].pc = "idle",
         \/ disk' = disk /\ shut' = shut
         \/ /\ at[w].pc # "idle" /\ disk' \in Ledger /\ shut \subseteq shut' /\ shut' \subseteq Nat
            /\ Len(disk'.list) <= Grown'
            /\ disk'.text = "whole" => Good(disk)' /\ (~crossed => ShowsClosed(disk)'),
         harness' \in [Names -> Identities \union {Nobody}],
         \A n \in Names : harness[n] \in Identities => harness'[n] = harness[n],
         identity' = identity, row' # Nobody => row'.name \in Nat,
         turnsRun' \in turnsRun .. MaxTurns,
         closings' \in Nat, closings' = closings \/ at[w].pc # "idle",
         ~crossed' => closings' <= 1 /\ (w # "turn" /\ new.pc = "notes" => closings' = 0),
         new.pc \in Choosing \union Saving =>
           /\ Good(new.ledger)' /\ Len(new.ledger.list) <= Grown'
           /\ ~crossed' => ShowsClosed(new.ledger)',
         w = "turn" =>
           /\ new.pc \in {"reads"} \union Choosing =>
                at[w].pc \in {"reads"} \union Choosing \/ turnsRun' > turnsRun
           /\ new.pc # "idle" => at[w].pc # "idle" \/ turnsRun' > turnsRun
           /\ new.pc \in Choosing => new.name = ForNextTurn(new.ledger)
           /\ new.pc = "ran" => harness'[new.name] = identity
           /\ new.pc \in Saving => new.name \in DOMAIN new.ledger.list
                                   /\ ~new.ledger.list[new.name].closed
           /\ new.pc = "answered" => crossed' \/ new.name \notin shut'
  PROVE  SessionsIInv'
<1>1. /\ at' \in [Workers -> Task] /\ at'[w] = new /\ \A v \in Workers : v # w => at'[v] = at[v]
      /\ at \in [Workers -> Task]
  BY DEF SessionsIInv, SessionsTypeOK
<1>2. "turn" \in Workers /\ Workers = {"turn"} \union Closers /\ "turn" \notin Closers
  BY DEF Workers, Closers
<1>3. SessionsTypeOK'
  <2>1. \A c \in Closers : at'[c].pc \in CloserAt BY <1>1, <1>2 DEF SessionsIInv, SessionsTypeOK
  <2>2. at'["turn"].pc \in TurnAt BY <1>1, <1>2 DEF SessionsIInv, SessionsTypeOK
  <2>3. turnsRun' \in 0 .. MaxTurns BY DEF SessionsIInv, SessionsTypeOK
  <2>4. disk' \in Ledger /\ shut' \subseteq Nat BY DEF SessionsIInv, SessionsTypeOK
  <2> QED BY <1>1, <2>1, <2>2, <2>3, <2>4 DEF SessionsIInv, SessionsTypeOK
<1>4. turnsRun \in Int /\ Grown \in Int /\ Grown' \in Int /\ Grown <= Grown'
  <2>1. turnsRun \in Nat /\ turnsRun' \in Nat /\ turnsRun <= turnsRun'
    BY DEF SessionsIInv, SessionsTypeOK
  <2>2. \/ at'["turn"].pc \in {"reads"} \union Choosing => at["turn"].pc \in {"reads"} \union Choosing
        \/ turnsRun' > turnsRun
    BY <1>1, <1>2
  <2> QED BY <2>1, <2>2, GrownGrows
<1>5. AllGood'
  <2>1. ASSUME disk'.text = "whole" PROVE Good(disk)'
    <3> SUFFICES ASSUME disk' = disk PROVE Good(disk)' BY <2>1
    <3>1. disk' = disk OBVIOUS
    <3>2. PICK d \in Ledger : d = disk BY DEF SessionsIInv, SessionsTypeOK
    <3>3. Good(d)'
      BY <2>1, <3>1, <3>2, GoodStays DEF SessionsIInv, AllGood, NotTooLong
    <3> QED BY <3>1, <3>2, <3>3 DEF Good
  <2>2. ASSUME NEW v \in Workers, Holding(v)' PROVE Good(at[v].ledger)'
    <3>1. CASE v = w BY <3>1, <1>1, <2>2 DEF Holding, Good
    <3>2. CASE v # w
      <4>1. Holding(v) BY <3>2, <1>1, <2>2 DEF Holding
      <4>2. PICK d \in Ledger : d = at[v].ledger BY <1>1 DEF Task
      <4>3. Good(d)' BY <4>1, <4>2, GoodStays DEF SessionsIInv, AllGood, NotTooLong
      <4> QED BY <3>2, <4>2, <4>3, <1>1 DEF Good
    <3> QED BY <3>1, <3>2
  <2> QED BY <2>1, <2>2 DEF AllGood
<1>6. NotTooLong'
  <2>1. at'["turn"].pc # "idle" => turnsRun' > 0
    <3>1. turnsRun \in Nat /\ turnsRun' \in Nat /\ turnsRun <= turnsRun'
      BY DEF SessionsIInv, SessionsTypeOK
    <3>2. at["turn"].pc # "idle" => turnsRun > 0 BY DEF SessionsIInv, NotTooLong
    <3> QED BY <1>1, <1>2, <3>1, <3>2
  <2>2. Len(disk'.list) <= Grown'
    <3>1. CASE disk' = disk
      <4>1. Len(disk.list) \in Nat /\ Len(disk.list) <= Grown
        BY DEF SessionsIInv, NotTooLong, SessionsTypeOK, Ledger
      <4> QED BY <3>1, <4>1, <1>4
    <3> QED BY <3>1
  <2>3. ASSUME NEW v \in Workers, Holding(v)' PROVE Len(at'[v].ledger.list) <= Grown'
    <3>1. CASE v = w BY <3>1, <1>1, <2>3 DEF Holding
    <3>2. CASE v # w
      <4>1. Len(at[v].ledger.list) <= Grown
        BY <3>2, <1>1, <2>3 DEF Holding, SessionsIInv, NotTooLong
      <4>2. Len(at[v].ledger.list) \in Nat BY <1>1 DEF Task, Ledger
      <4> QED BY <4>1, <4>2, <1>1, <1>4, <3>2
    <3> QED BY <3>1, <3>2
  <2> QED BY <2>1, <2>2, <2>3 DEF NotTooLong
<1>7. TurnsSession'
  <2>1. CASE w = "turn" BY <2>1, <1>1 DEF TurnsSession, ForNextTurn, AfterCurrent, IsOpen
  <2>2. CASE w # "turn"
    <3>1. at'["turn"] = at["turn"] BY <2>2, <1>1, <1>2
    <3>2. at["turn"].pc = "ran" => harness'[at["turn"].name] = identity
      <4> SUFFICES ASSUME at["turn"].pc = "ran" PROVE harness'[at["turn"].name] = identity OBVIOUS
      <4>1. at["turn"].ledger \in Ledger /\ Good(at["turn"].ledger) /\ Len(at["turn"].ledger.list) <= Grown
            /\ at["turn"].name = ForNextTurn(at["turn"].ledger)
        BY <1>1, <1>2 DEF SessionsIInv, AllGood, NotTooLong, TurnsSession, Holding, Choosing, Task
      <4>2. at["turn"].name \in 1 .. Len(at["turn"].ledger.list) + 1 BY <4>1, NamedForNextTurn
      <4>3. at["turn"].name \in Names
        <5>1. Len(at["turn"].ledger.list) \in Nat BY <4>1 DEF Ledger
        <5>2. Len(at["turn"].ledger.list) + 1 \in Names BY <4>1, NamesEnough DEF SessionsIInv
        <5> QED BY <5>1, <5>2, <4>2, SessionConstants DEF Names
      <4> QED BY <4>3 DEF SessionsIInv, TurnsSession, SessionsTypeOK
    <3> QED BY <3>1, <3>2 DEF SessionsIInv, TurnsSession, ForNextTurn, AfterCurrent, IsOpen
  <2> QED BY <2>1, <2>2
<1>8. OneAtATime' BY <1>1 DEF SessionsIInv, OneAtATime, Now
<1>9. CloseCounted'
  <2> SUFFICES ASSUME ~crossed' PROVE closings' <= 1 /\ \A c \in Closers : at'[c].pc = "notes" => closings' = 0
    BY DEF CloseCounted, Now
  <2>1. ASSUME NEW c \in Closers, at'[c].pc = "notes" PROVE closings' = 0
    <3>1. CASE c = w BY <3>1, <2>1, <1>1, <1>2
    <3>2. CASE c # w
      <4>1. at[c].pc = "notes" /\ closings = 0
        BY <2>1, <3>2, <1>1, <1>2 DEF SessionsIInv, CloseCounted, Now
      <4>2. at[w].pc = "idle" BY <4>1, <3>2, <1>2 DEF SessionsIInv, OneAtATime, Now
      <4> QED BY <4>1, <4>2
    <3> QED BY <3>1, <3>2
  <2> QED BY <2>1
<1>10. ShutIsKept'
  <2> SUFFICES ASSUME ~crossed' PROVE ShutIsKept' BY DEF ShutIsKept
  <2>4. shut' = shut \/ at[w].pc # "idle" OBVIOUS
  <2>5. at[w].pc # "idle" => \A v \in Workers : v # w => at[v].pc = "idle"
    BY DEF SessionsIInv, OneAtATime, Now
  <2>1. disk'.text = "whole" => ShowsClosed(disk)'
    BY BlankIsALedger DEF SessionsIInv, ShutIsKept, ShowsClosed
  <2>2. ASSUME NEW v \in Workers, Holding(v)' PROVE ShowsClosed(at[v].ledger)'
    <3>1. CASE v = w BY <3>1, <1>1, <2>2 DEF Holding, ShowsClosed
    <3>2. CASE v # w
      <4>1. at[v].pc # "idle" /\ at'[v] = at[v]
        BY <3>2, <1>1, <2>2 DEF Holding, Choosing, Saving
      <4>2. shut' = shut BY <2>4, <2>5, <3>2, <4>1
      <4> QED BY <4>1, <4>2, <2>2 DEF Holding, SessionsIInv, ShutIsKept, ShowsClosed
    <3> QED BY <3>1, <3>2
  <2>3. at'["turn"].pc = "answered" => at'["turn"].name \notin shut'
    <3>1. CASE w = "turn" BY <3>1, <1>1
    <3>2. CASE w # "turn" /\ at["turn"].pc = "answered"
      <4>1. shut' = shut BY <2>4, <2>5, <3>2, <1>2
      <4> QED BY <3>2, <4>1, <1>1, <1>2 DEF SessionsIInv, ShutIsKept, Now
    <3>3. CASE w # "turn" /\ at["turn"].pc # "answered" BY <3>3, <1>1, <1>2
    <3> QED BY <3>1, <3>2, <3>3
  <2> QED BY <2>1, <2>2, <2>3 DEF ShutIsKept, Now
<1> QED BY <1>3, <1>5, <1>6, <1>7, <1>8, <1>9, <1>10 DEF SessionsIInv

\* What a task that has read the ledger is known to hold.
LEMMA InHand ==
  ASSUME SessionsIInv, NEW w \in Workers
  PROVE  /\ at[w] \in Task /\ at[w].ledger \in Ledger /\ at[w].name \in Nat /\ at[w].created \in BOOLEAN
         /\ disk \in Ledger /\ at \in [Workers -> Task]
         /\ Holding(w) => /\ Good(at[w].ledger) /\ Len(at[w].ledger.list) <= Grown
                          /\ ~crossed => ShowsClosed(at[w].ledger)
  BY DEF SessionsIInv, SessionsTypeOK, AllGood, NotTooLong, ShutIsKept, Task

\* A ledger that can be read is one a task may take in hand.
LEMMA InReach ==
  ASSUME SessionsIInv, Readable
  PROVE  disk \in Ledger /\ Good(disk) /\ Len(disk.list) <= Grown /\ (~crossed => ShowsClosed(disk))
  BY DEF Readable, SessionsIInv, AllGood, NotTooLong, ShutIsKept, SessionsTypeOK

LEMMA Ordinary ==
  ASSUME SessionsIInv
  PROVE  /\ closings \in Nat /\ (~crossed => closings <= 1) /\ crossed \in BOOLEAN
         /\ turnsRun \in turnsRun .. MaxTurns /\ turnsRun \in Nat
         /\ harness \in [Names -> Identities \union {Nobody}] /\ (row # Nobody => row.name \in Nat)
         /\ "turn" \in Workers /\ \A c \in Closers : c \in Workers /\ c # "turn"
  BY SessionConstants DEF SessionsIInv, CloseCounted, SessionsTypeOK, Workers, Closers

\* A task comes to a place where it holds no ledger.
LEMMA EmptyHandedKeeps ==
  ASSUME SessionsIInv, NEW w \in Workers, NEW new \in Task, at' = [at EXCEPT ![w] = new],
         w = "turn" => new.pc \in {"idle", "answered"},
         w # "turn" => new.pc \in CloserAt \ Saving,
         at[w].pc # "idle",
         UNCHANGED <<disk, harness, identity, turnsRun, shut, crossed>>,
         row' # Nobody => row'.name \in Nat,
         closings' \in Nat,
         ~crossed => closings' <= 1 /\ (w # "turn" /\ new.pc = "notes" => closings' = 0),
         new.pc = "answered" => crossed \/ new.name \notin shut
  PROVE  SessionsIInv'
<1>1. new.pc \notin Choosing \union Saving /\ (w = "turn" => new.pc \notin {"reads"} \union Choosing)
  BY DEF CloserAt, Choosing, Saving, Workers, Closers
<1>2. new.pc # "ran" /\ new.pc \notin Saving /\ new.pc \notin Choosing BY <1>1 DEF Choosing
<1>3. (w = "turn" => new.pc \in TurnAt) /\ (w # "turn" => new.pc \in CloserAt) BY DEF TurnAt
<1> QED BY <1>1, <1>2, <1>3, Ordinary, MoveKeeps

\* A task that stops where it is, or is done.
LEMMA IdleKeeps ==
  ASSUME SessionsIInv, NEW w \in Workers, BecomesIdle(w), at[w].pc # "idle",
         UNCHANGED <<disk, harness, identity, turnsRun, shut, crossed, closings>>,
         row' # Nobody => row'.name \in Nat
  PROVE  SessionsIInv'
<1>1. Away \in Task /\ Away.pc = "idle"
  <2>1. NoLedger \in Ledger BY DEF NoLedger, Ledger
  <2> QED BY <2>1 DEF Away, Task, TurnAt
<1>2. "idle" \in CloserAt \ Saving BY DEF CloserAt, Saving
<1>3. PICK new \in Task : new = Away BY <1>1
<1>4. new.pc = "idle" /\ at' = [at EXCEPT ![w] = new] BY <1>1, <1>3 DEF BecomesIdle
<1> QED BY <1>2, <1>4, Ordinary, EmptyHandedKeeps

\* A turn takes a ledger in hand, and a session of it.
LEMMA TurnTakes ==
  ASSUME SessionsIInv, NEW new \in Task, at' = [at EXCEPT !["turn"] = new],
         new.pc \in Choosing, at["turn"].pc \in {"reads"} \union Choosing,
         UNCHANGED <<disk, identity, row, closings, turnsRun, shut, crossed>>,
         harness' \in [Names -> Identities \union {Nobody}],
         \A n \in Names : harness[n] \in Identities => harness'[n] = harness[n],
         Good(new.ledger)', Len(new.ledger.list) <= Grown, ~crossed => ShowsClosed(new.ledger),
         new.name = ForNextTurn(new.ledger), new.pc = "ran" => harness'[new.name] = identity
  PROVE  SessionsIInv'
<1>1. new.pc \in TurnAt /\ new.pc \notin Saving /\ new.pc # "answered" /\ at["turn"].pc # "idle"
  BY DEF TurnAt, Choosing, Saving
<1>2. at'["turn"] = new BY Ordinary, InHand
<1>3. Len(new.ledger.list) <= Grown' BY <1>2 DEF Grown
<1>4. ~crossed' => ShowsClosed(new.ledger)' BY DEF ShowsClosed
<1>5. turnsRun' \in turnsRun .. MaxTurns /\ crossed' \in BOOLEAN /\ closings' \in Nat
      /\ (~crossed' => closings' <= 1) /\ (row' # Nobody => row'.name \in Nat) /\ "turn" \in Workers
  BY Ordinary
<1>6. at["turn"].pc \in {"reads"} \union Choosing /\ disk' = disk /\ shut' = shut /\ (crossed => crossed')
      /\ closings' = closings /\ identity' = identity
  OBVIOUS
<1> HIDE DEF Choosing, Saving
<1> QED BY <1>1, <1>3, <1>4, <1>5, <1>6, MoveKeeps

LEMMA ReadsLedgerKeeps == ASSUME SessionsIInv, ReadsLedger PROVE SessionsIInv'
<1> DEFINE me == at["turn"]
           name == ForNextTurn(disk)
<1>1. me \in Task /\ at \in [Workers -> Task] BY Ordinary, InHand
<1>2. disk \in Ledger /\ Good(disk) /\ Len(disk.list) <= Grown /\ (~crossed => ShowsClosed(disk))
  BY InReach DEF ReadsLedger
<1>3. name \in Nat
  <2>1. Len(disk.list) \in Nat BY <1>2 DEF Ledger
  <2> QED BY <1>2, <2>1, NamedForNextTurn
<1>4. /\ at' = [at EXCEPT !["turn"] = [me EXCEPT !.pc = "runs", !.ledger = disk, !.name = name]]
      /\ me.pc = "reads" /\ UNCHANGED <<disk, harness, identity, row, closings, turnsRun, shut, crossed>>
  BY <1>1, Ordinary DEF ReadsLedger, Now
<1> HIDE DEF me, name
<1>5. PICK new \in Task : /\ new = [me EXCEPT !.pc = "runs", !.ledger = disk, !.name = name]
                          /\ new.pc = "runs" /\ new.ledger = disk /\ new.name = name
  <2> DEFINE e == [me EXCEPT !.pc = "runs", !.ledger = disk, !.name = name]
  <2>1. e \in Task /\ e.pc = "runs" /\ e.ledger = disk /\ e.name = name
    BY <1>1, <1>2, <1>3 DEF Task, TurnAt, Choosing
  <2> QED BY <2>1
<1>6. at' = [at EXCEPT !["turn"] = new] /\ at'["turn"] = new BY <1>1, <1>4, <1>5, Ordinary
<1>7. "runs" \in Choosing /\ "runs" # "ran" /\ me.pc = at["turn"].pc
  BY DEF Choosing, me
<1>8. Good(new.ledger)' BY <1>2, <1>4, <1>5 DEF Good
<1>9. (~crossed => ShowsClosed(new.ledger)) /\ new.name = ForNextTurn(new.ledger)
  BY <1>2, <1>5 DEF name
<1> QED BY <1>2, <1>4, <1>5, <1>6, <1>7, <1>8, <1>9, Ordinary, TurnTakes

LEMMA RunsKeeps == ASSUME SessionsIInv, Runs PROVE SessionsIInv'
<1> DEFINE me == at["turn"]
           made == harness[me.name] = Nobody
<1>1. me \in Task /\ at \in [Workers -> Task] /\ me.ledger \in Ledger BY Ordinary, InHand
<1>2. /\ me.pc \in {"runs", "runs again"} /\ harness[me.name] \in {Nobody, identity}
      /\ harness' = [harness EXCEPT ![me.name] = identity]
      /\ at' = [at EXCEPT !["turn"] = [me EXCEPT !.pc = "ran", !.created = made]]
      /\ UNCHANGED <<disk, identity, row, closings, turnsRun, shut, crossed>>
  BY <1>1, Ordinary DEF Runs
<1>3. /\ Good(me.ledger) /\ Len(me.ledger.list) <= Grown /\ (~crossed => ShowsClosed(me.ledger))
      /\ me.name = ForNextTurn(me.ledger)
  BY <1>2, Ordinary, InHand DEF Holding, Choosing, SessionsIInv, TurnsSession
<1>4. me.name \in Names
  <2>1. Len(me.ledger.list) \in Nat BY <1>1 DEF Ledger
  <2>2. Len(me.ledger.list) + 1 \in Names BY <1>1, <1>3, NamesEnough DEF SessionsIInv
  <2>3. me.name \in 1 .. Len(me.ledger.list) + 1 BY <1>1, <1>3, NamedForNextTurn
  <2> QED BY <2>1, <2>2, <2>3, SessionConstants DEF Names
<1>5. /\ harness' \in [Names -> Identities \union {Nobody}] /\ harness'[me.name] = identity
      /\ \A n \in Names : harness[n] \in Identities => harness'[n] = harness[n]
  <2>1. identity \in Identities BY DEF SessionsIInv, SessionsTypeOK
  <2> QED BY <1>2, <1>4, <2>1, Ordinary, SessionConstants
<1> HIDE DEF made
<1>6. PICK new \in Task : /\ new = [me EXCEPT !.pc = "ran", !.created = made]
                          /\ new.pc = "ran" /\ new.ledger = me.ledger /\ new.name = me.name
  <2>1. made \in BOOLEAN BY DEF made
  <2> HIDE DEF me
  <2> DEFINE e == [me EXCEPT !.pc = "ran", !.created = made]
  <2>2. e \in Task /\ e.pc = "ran" /\ e.ledger = me.ledger /\ e.name = me.name
    BY <1>1, <2>1 DEF Task, TurnAt, Choosing
  <2> QED BY <2>2
<1>7. at' = [at EXCEPT !["turn"] = new] /\ at'["turn"] = new BY <1>1, <1>2, <1>6, Ordinary
<1>8. "ran" \in Choosing /\ me.pc \in Choosing BY <1>2 DEF Choosing
<1>9. Good(new.ledger)'
  <2>1. PICK d \in Ledger : d = me.ledger BY <1>1
  <2>2. Good(d)' BY <2>1, <1>3, <1>5, GoodStays DEF SessionsIInv
  <2>3. new.ledger = d BY <2>1, <1>6
  <2> QED BY <2>2, <2>3
<1>10. /\ ~crossed => ShowsClosed(new.ledger)
       /\ new.name = ForNextTurn(new.ledger) /\ harness'[new.name] = identity
       /\ Len(new.ledger.list) <= Grown
  BY <1>3, <1>5, <1>6
<1> QED BY <1>2, <1>5, <1>6, <1>7, <1>8, <1>9, <1>10, Ordinary, TurnTakes

LEMMA ReportedKeeps == ASSUME SessionsIInv, Reported PROVE SessionsIInv'
<1> DEFINE me == at["turn"]
           ledger == WithTurn(me.ledger, me.name)
<1>1. me \in Task /\ at \in [Workers -> Task] /\ me.ledger \in Ledger /\ me.name \in Nat
  BY Ordinary, InHand
<1>2. me.pc = "ran" /\ UNCHANGED <<disk, harness, identity, row, closings, turnsRun, shut, crossed>>
  BY DEF Reported, Now
<1>3. CASE BecomesIdle("turn")
  BY <1>2, <1>3, Ordinary, IdleKeeps
<1>4. CASE at' = [at EXCEPT !["turn"].pc = "saves", !["turn"].ledger = ledger]
  <2>1. /\ Good(me.ledger) /\ Len(me.ledger.list) <= Grown /\ (~crossed => ShowsClosed(me.ledger))
        /\ me.name = ForNextTurn(me.ledger) /\ harness[me.name] = identity
    BY <1>2, Ordinary, InHand DEF Holding, Choosing, SessionsIInv, TurnsSession
  <2>2. /\ ledger \in Ledger /\ Good(ledger) /\ Len(ledger.list) <= Len(me.ledger.list) + 1
        /\ me.name \in DOMAIN ledger.list /\ ~ledger.list[me.name].closed
        /\ \A i \in DOMAIN me.ledger.list :
             me.ledger.list[i].closed => i \in DOMAIN ledger.list /\ ledger.list[i].closed
    <3>1. identity \in Identities BY DEF SessionsIInv, SessionsTypeOK
    <3> QED BY <1>1, <2>1, <3>1, WithTurnKeeps
  <2>3. at' = [at EXCEPT !["turn"] = [me EXCEPT !.pc = "saves", !.ledger = ledger]]
    BY <1>4, <1>1, Ordinary
  <2> HIDE DEF ledger
  <2>4. PICK new \in Task : /\ new = [me EXCEPT !.pc = "saves", !.ledger = ledger]
                            /\ new.pc = "saves" /\ new.ledger = ledger /\ new.name = me.name
    <3> HIDE DEF me
    <3> DEFINE e == [me EXCEPT !.pc = "saves", !.ledger = ledger]
    <3>1. e \in Task /\ e.pc = "saves" /\ e.ledger = ledger /\ e.name = me.name
      BY <1>1, <2>2 DEF Task, TurnAt, Saving
    <3> QED BY <3>1
  <2>5. at' = [at EXCEPT !["turn"] = new] /\ at'["turn"] = new BY <1>1, <2>3, <2>4, Ordinary
  <2>6. "saves" \notin {"reads"} \union Choosing /\ "saves" \in TurnAt /\ "saves" \in Saving /\ me.pc \in Choosing
    BY <1>2 DEF Choosing, TurnAt, Saving
  <2>7. Len(new.ledger.list) <= Grown'
    <3>1. Grown = turnsRun - 1 BY <2>6 DEF Grown
    <3>2. Grown' = turnsRun BY <2>4, <2>5, <2>6, <1>2 DEF Grown
    <3>3. Len(me.ledger.list) \in Nat /\ Len(ledger.list) \in Nat BY <1>1, <2>2 DEF Ledger
    <3>4. turnsRun \in Nat BY Ordinary
    <3> HIDE DEF me
    <3> QED BY <3>1, <3>2, <3>3, <3>4, <2>1, <2>2, <2>4
  <2>8. Good(new.ledger)' BY <1>2, <2>2, <2>4 DEF Good
  <2>9. ~crossed => ShowsClosed(new.ledger)' BY <1>2, <2>1, <2>2, <2>4 DEF ShowsClosed
  <2>10. new.pc \notin Choosing /\ new.pc # "ran" BY <2>4, <2>6 DEF Choosing
  <2> QED BY <1>2, <2>2, <2>4, <2>5, <2>6, <2>7, <2>8, <2>9, <2>10, Ordinary, MoveKeeps
<1> QED BY <1>3, <1>4 DEF Reported

LEMMA ConflictsKeeps == ASSUME SessionsIInv, Conflicts PROVE SessionsIInv'
<1> DEFINE me == at["turn"]
           closed == CurrentClosed(me.ledger)
           name == AfterCurrent(closed)
<1>1. me \in Task /\ at \in [Workers -> Task] /\ me.ledger \in Ledger BY Ordinary, InHand
<1>2. /\ me.pc = "runs" /\ UNCHANGED <<disk, harness, identity, row, closings, turnsRun, shut, crossed>>
      /\ at' = [at EXCEPT !["turn"] = [me EXCEPT !.pc = "saves close", !.ledger = closed, !.name = name]]
  BY <1>1, Ordinary DEF Conflicts, Now
<1>3. Good(me.ledger) /\ Len(me.ledger.list) <= Grown /\ (~crossed => ShowsClosed(me.ledger))
  BY <1>2, Ordinary, InHand DEF Holding, Choosing
<1>4. /\ closed \in Ledger /\ Good(closed) /\ ~IsOpen(closed)
      /\ Len(closed.list) = Len(me.ledger.list)
      /\ \A i \in DOMAIN me.ledger.list : me.ledger.list[i].closed => closed.list[i].closed
  BY <1>1, <1>3, CurrentClosedKeeps
<1>5. /\ DOMAIN closed.list = DOMAIN me.ledger.list /\ name \in Nat
      /\ name = ForNextTurn(closed)
  <2>1. closed.list \in Seq(SessionRecord) /\ me.ledger.list \in Seq(SessionRecord) BY <1>1, <1>4 DEF Ledger
  <2> HIDE DEF me, closed
  <2> QED BY <1>4, <2>1 DEF ForNextTurn, AfterCurrent
<1> HIDE DEF closed, name
<1>6. PICK new \in Task : /\ new = [me EXCEPT !.pc = "saves close", !.ledger = closed, !.name = name]
                          /\ new.pc = "saves close" /\ new.ledger = closed /\ new.name = name
  <2> HIDE DEF me
  <2> DEFINE e == [me EXCEPT !.pc = "saves close", !.ledger = closed, !.name = name]
  <2>1. e \in Task /\ e.pc = "saves close" /\ e.ledger = closed /\ e.name = name
    BY <1>1, <1>4, <1>5 DEF Task, TurnAt, Choosing
  <2> QED BY <2>1
<1>7. at' = [at EXCEPT !["turn"] = new] BY <1>2, <1>6
<1>8. "saves close" \in Choosing /\ me.pc \in Choosing BY <1>2 DEF Choosing
<1>9. Good(new.ledger)' BY <1>2, <1>4, <1>6 DEF Good
<1>10. ~crossed => ShowsClosed(new.ledger) BY <1>3, <1>4, <1>5, <1>6 DEF ShowsClosed
<1>11. Len(new.ledger.list) <= Grown /\ new.name = ForNextTurn(new.ledger) BY <1>3, <1>4, <1>5, <1>6
<1> QED BY <1>2, <1>6, <1>7, <1>8, <1>9, <1>10, <1>11, Ordinary, TurnTakes

LEMMA TurnFailsKeeps == ASSUME SessionsIInv, TurnFails PROVE SessionsIInv'
<1>1. /\ BecomesIdle("turn") /\ at["turn"].pc # "idle"
      /\ UNCHANGED <<disk, harness, identity, row, closings, turnsRun, shut, crossed>>
  BY DEF TurnFails
<1> QED BY <1>1, Ordinary, IdleKeeps

LEMMA PutsSessionKeeps == ASSUME SessionsIInv, PutsSession PROVE SessionsIInv'
<1>1. /\ BecomesIdle("turn") /\ at["turn"].pc # "idle" /\ row' = [name |-> at["turn"].name, closed |-> FALSE]
      /\ UNCHANGED <<disk, harness, identity, closings, turnsRun, shut, crossed>>
  BY DEF PutsSession, Now
<1>2. row'.name \in Nat BY <1>1, Ordinary, InHand
<1> QED BY <1>1, <1>2, Ordinary, IdleKeeps

LEMMA NotesOpeningKeeps == ASSUME SessionsIInv, NotesOpening PROVE SessionsIInv'
<1> DEFINE me == at["turn"]
<1>1. me \in Task /\ at \in [Workers -> Task] BY Ordinary, InHand
<1>2. /\ me.pc = "answered" /\ UNCHANGED <<disk, harness, identity, row, closings, turnsRun, shut, crossed>>
      /\ at' = [at EXCEPT !["turn"] = [me EXCEPT !.created = FALSE]]
  BY <1>1, Ordinary DEF NotesOpening, Now
<1>3. crossed \/ me.name \notin shut BY <1>2 DEF SessionsIInv, ShutIsKept, Now
<1>4. PICK new \in Task : /\ new = [me EXCEPT !.created = FALSE]
                          /\ new.pc = "answered" /\ new.name = me.name
  <2> HIDE DEF me
  <2> DEFINE e == [me EXCEPT !.created = FALSE]
  <2>1. e \in Task /\ e.pc = "answered" /\ e.name = me.name BY <1>1, <1>2 DEF Task
  <2> QED BY <2>1
<1>5. at' = [at EXCEPT !["turn"] = new] /\ me.pc # "idle" /\ new.pc # "notes" BY <1>2, <1>4
<1> QED BY <1>2, <1>3, <1>4, <1>5, Ordinary, EmptyHandedKeeps

\* A task that only moves on, and holds no ledger.
LEMMA MovesOnKeeps ==
  ASSUME SessionsIInv, NEW c \in Closers, NEW pc \in CloserAt \ Saving, GoesTo(c, pc), at[c].pc # "idle",
         UNCHANGED <<disk, harness, identity, turnsRun, shut, crossed>>,
         row' # Nobody => row'.name \in Nat,
         closings' \in Nat, ~crossed => closings' <= 1 /\ (pc = "notes" => closings' = 0)
  PROVE  SessionsIInv'
<1> DEFINE me == at[c]
<1>1. me \in Task /\ at \in [Workers -> Task] /\ c \in Workers /\ c # "turn" BY Ordinary, InHand
<1>2. at' = [at EXCEPT ![c] = [me EXCEPT !.pc = pc]] BY <1>1 DEF GoesTo
<1>3. PICK new \in Task : new = [me EXCEPT !.pc = pc] /\ new.pc = pc
  <2> HIDE DEF me
  <2> DEFINE e == [me EXCEPT !.pc = pc]
  <2>1. e \in Task /\ e.pc = pc BY <1>1 DEF Task
  <2> QED BY <2>1
<1>4. at' = [at EXCEPT ![c] = new] BY <1>2, <1>3
<1>5. pc # "answered" BY DEF CloserAt, Saving
<1> QED BY <1>1, <1>3, <1>4, <1>5, EmptyHandedKeeps

LEMMA EndsKeeps == ASSUME SessionsIInv, NEW c \in Closers, Ends(c) PROVE SessionsIInv'
<1>1. /\ at[c].pc = "ends" /\ UNCHANGED <<disk, harness, identity, row, closings, turnsRun, shut, crossed>>
      /\ GoesTo(c, "shuts") \/ BecomesIdle(c)
  BY DEF Ends, Now
<1>2. "shuts" \in CloserAt \ Saving BY DEF CloserAt, Saving
<1>3. CASE GoesTo(c, "shuts") BY <1>1, <1>2, <1>3, Ordinary, MovesOnKeeps
<1>4. CASE BecomesIdle(c) BY <1>1, <1>4, Ordinary, IdleKeeps
<1> QED BY <1>1, <1>3, <1>4

LEMMA ReadsRowKeeps == ASSUME SessionsIInv, NEW c \in Closers, ReadsRow(c) PROVE SessionsIInv'
<1> DEFINE me == at[c]
           pc == CASE row = Nobody -> Closed(c)
                   [] row # Nobody -> IF row.closed THEN "asks" ELSE "puts"
           name == IF row = Nobody THEN 0 ELSE row.name
<1>1. me \in Task /\ at \in [Workers -> Task] /\ c \in Workers /\ c # "turn" BY Ordinary, InHand
<1>2. /\ me.pc = "looks" /\ UNCHANGED <<disk, harness, identity, row, closings, turnsRun, shut, crossed>>
      /\ at' = [at EXCEPT ![c] = [me EXCEPT !.pc = pc, !.name = name]]
  BY <1>1 DEF ReadsRow, Now
<1>3. name \in Nat /\ pc \in {"ends", "tells", "asks", "puts"} BY Ordinary DEF Closed
<1>4. pc \in CloserAt \ Saving /\ pc # "answered" /\ pc # "notes" BY <1>3 DEF CloserAt, Saving
<1> HIDE DEF pc, name
<1>5. PICK new \in Task : new = [me EXCEPT !.pc = pc, !.name = name] /\ new.pc = pc
  <2> HIDE DEF me
  <2> DEFINE e == [me EXCEPT !.pc = pc, !.name = name]
  <2>1. e \in Task /\ e.pc = pc BY <1>1, <1>3, <1>4 DEF Task
  <2> QED BY <2>1
<1>6. at' = [at EXCEPT ![c] = new] /\ me.pc # "idle" BY <1>2, <1>5
<1> QED BY <1>1, <1>2, <1>4, <1>5, <1>6, Ordinary, EmptyHandedKeeps

LEMMA PutsClosedKeeps == ASSUME SessionsIInv, NEW c \in Closers, PutsClosed(c) PROVE SessionsIInv'
<1>1. /\ at[c].pc = "puts" /\ GoesTo(c, "asks") /\ row' = [name |-> at[c].name, closed |-> TRUE]
      /\ UNCHANGED <<disk, harness, identity, closings, turnsRun, shut, crossed>>
  BY DEF PutsClosed, Now
<1>2. row'.name \in Nat BY <1>1, Ordinary, InHand
<1>3. "asks" \in CloserAt \ Saving BY DEF CloserAt, Saving
<1> QED BY <1>1, <1>2, <1>3, Ordinary, MovesOnKeeps

LEMMA AsksHistoryKeeps == ASSUME SessionsIInv, NEW c \in Closers, AsksHistory(c) PROVE SessionsIInv'
<1> DEFINE pc == IF closings = 0 THEN "notes" ELSE Closed(c)
<1>1. /\ at[c].pc = "asks" /\ GoesTo(c, pc)
      /\ UNCHANGED <<disk, harness, identity, row, closings, turnsRun, shut, crossed>>
  BY DEF AsksHistory, Now
<1>2. pc \in CloserAt \ Saving /\ (pc = "notes" => closings = 0) BY DEF Closed, CloserAt, Saving
<1> HIDE DEF pc
<1> QED BY <1>1, <1>2, Ordinary, MovesOnKeeps

LEMMA NotesClosingKeeps == ASSUME SessionsIInv, NEW c \in Closers, NotesClosing(c) PROVE SessionsIInv'
<1>1. /\ at[c].pc = "notes" /\ closings' = closings + 1 /\ GoesTo(c, Closed(c))
      /\ UNCHANGED <<disk, harness, identity, row, turnsRun, shut, crossed>>
  BY DEF NotesClosing, Now
<1>2. ~crossed => closings = 0 BY <1>1 DEF SessionsIInv, CloseCounted, Now
<1>3. Closed(c) \in CloserAt \ Saving /\ Closed(c) # "notes" BY DEF Closed, CloserAt, Saving
<1>4. closings' \in Nat /\ (~crossed => closings' <= 1) BY <1>1, <1>2, Ordinary
<1> QED BY <1>1, <1>3, <1>4, Ordinary, MovesOnKeeps

LEMMA TellsOfEndKeeps == ASSUME SessionsIInv, TellsOfEnd PROVE SessionsIInv'
<1>1. /\ BecomesIdle("close-out") /\ at["close-out"].pc # "idle"
      /\ UNCHANGED <<disk, harness, identity, row, closings, turnsRun, shut, crossed>>
  BY DEF TellsOfEnd, Now
<1>2. "close-out" \in Workers BY DEF Workers, Closers
<1> QED BY <1>1, <1>2, Ordinary, IdleKeeps

LEMMA RefusedKeeps == ASSUME SessionsIInv, NEW w \in Workers, Refused(w) PROVE SessionsIInv'
<1>1. /\ UNCHANGED <<disk, harness, identity, row, closings, turnsRun, shut, crossed>> /\ at[w].pc # "idle"
      /\ \/ w \in Closers /\ GoesTo(w, "looks")
         \/ BecomesIdle(w)
  BY DEF Refused, Now
<1>2. "looks" \in CloserAt \ Saving BY DEF CloserAt, Saving
<1>3. CASE w \in Closers /\ GoesTo(w, "looks") BY <1>1, <1>2, <1>3, Ordinary, MovesOnKeeps
<1>4. CASE BecomesIdle(w) BY <1>1, <1>4, Ordinary, IdleKeeps
<1> QED BY <1>1, <1>3, <1>4

LEMMA ShutsKeeps == ASSUME SessionsIInv, NEW c \in Closers, Shuts(c) PROVE SessionsIInv'
<1> DEFINE me == at[c]
           closed == CurrentClosed(disk)
<1>1. me \in Task /\ at \in [Workers -> Task] /\ c \in Workers /\ c # "turn" BY Ordinary, InHand
<1>2. /\ me.pc = "shuts" /\ UNCHANGED <<disk, harness, identity, row, closings, turnsRun, shut, crossed>>
      /\ \/ Readable /\ at' = [at EXCEPT ![c].pc = "saves", ![c].ledger = closed]
         \/ GoesTo(c, "looks")
  BY DEF Shuts, Now
<1>3. CASE GoesTo(c, "looks")
  <2>1. "looks" \in CloserAt \ Saving BY DEF CloserAt, Saving
  <2> QED BY <1>2, <1>3, <2>1, Ordinary, MovesOnKeeps
<1>4. CASE Readable /\ at' = [at EXCEPT ![c].pc = "saves", ![c].ledger = closed]
  <2>1. disk \in Ledger /\ Good(disk) /\ Len(disk.list) <= Grown /\ (~crossed => ShowsClosed(disk))
    BY <1>4, InReach
  <2>2. /\ closed \in Ledger /\ Good(closed) /\ Len(closed.list) = Len(disk.list)
        /\ \A i \in DOMAIN disk.list : disk.list[i].closed => closed.list[i].closed
    BY <2>1, CurrentClosedKeeps
  <2>3. at' = [at EXCEPT ![c] = [me EXCEPT !.pc = "saves", !.ledger = closed]]
    BY <1>1, <1>4
  <2> HIDE DEF closed
  <2>4. DOMAIN closed.list = DOMAIN disk.list
    <3>1. closed.list \in Seq(SessionRecord) /\ disk.list \in Seq(SessionRecord) BY <2>1, <2>2 DEF Ledger
    <3> QED BY <2>2, <3>1
  <2>5. PICK new \in Task : /\ new = [me EXCEPT !.pc = "saves", !.ledger = closed]
                            /\ new.pc = "saves" /\ new.ledger = closed
    <3> HIDE DEF me
    <3> DEFINE e == [me EXCEPT !.pc = "saves", !.ledger = closed]
    <3>1. e \in Task /\ e.pc = "saves" /\ e.ledger = closed
      BY <1>1, <2>2 DEF Task, CloserAt, Saving
    <3> QED BY <3>1
  <2>6. at' = [at EXCEPT ![c] = new] /\ at'["turn"] = at["turn"] BY <1>1, <2>3, <2>5, Ordinary
  <2>7. "saves" \in CloserAt /\ new.pc # "notes" /\ me.pc # "idle" BY <1>2, <2>5 DEF CloserAt, Saving
  <2>8. Good(new.ledger)' BY <1>2, <2>2, <2>5 DEF Good
  <2>9. Len(new.ledger.list) <= Grown' BY <1>2, <2>1, <2>2, <2>5, <2>6 DEF Grown
  <2>10. ~crossed' => ShowsClosed(new.ledger)' BY <1>2, <2>1, <2>2, <2>4, <2>5 DEF ShowsClosed
  <2> QED BY <1>1, <1>2, <2>5, <2>6, <2>7, <2>8, <2>9, <2>10, Ordinary, MoveKeeps
<1> QED BY <1>2, <1>3, <1>4

\* Emptying the file leaves what is in hand.
LEMMA EmptiesKeeps == ASSUME SessionsIInv, NEW w \in Workers, Empties(w) PROVE SessionsIInv'
<1> DEFINE me == at[w]
           pc == IF Now(w, "saves") THEN "fills" ELSE "fills close"
<1>1. me \in Task /\ at \in [Workers -> Task] BY InHand
<1>2. /\ me.pc \in {"saves", "saves close"} /\ disk' = Blank
      /\ UNCHANGED <<harness, identity, row, closings, turnsRun, shut, crossed>>
      /\ at' = [at EXCEPT ![w] = [me EXCEPT !.pc = pc]]
  BY <1>1 DEF Empties, GoesTo
<1>3. /\ me.pc = "saves" => pc = "fills"
      /\ me.pc = "saves close" => pc = "fills close" /\ w = "turn"
      /\ pc \in TurnAt /\ (w # "turn" => pc \in CloserAt)
  BY <1>2 DEF Now, SessionsIInv, SessionsTypeOK, CloserAt, Saving, Workers, TurnAt, Choosing
<1>4. /\ Good(me.ledger) /\ Len(me.ledger.list) <= Grown /\ (~crossed => ShowsClosed(me.ledger))
  BY <1>2, InHand DEF Holding, Choosing, Saving
<1>5. w = "turn" =>
        /\ me.pc = "saves close" => me.name = ForNextTurn(me.ledger)
        /\ me.pc = "saves" => me.name \in DOMAIN me.ledger.list /\ ~me.ledger.list[me.name].closed
  BY DEF SessionsIInv, TurnsSession, Choosing, Saving
<1> HIDE DEF pc
<1>6. PICK new \in Task : /\ new = [me EXCEPT !.pc = pc]
                          /\ new.pc = pc /\ new.ledger = me.ledger /\ new.name = me.name
  <2> HIDE DEF me
  <2> DEFINE e == [me EXCEPT !.pc = pc]
  <2>1. e \in Task /\ e.pc = pc /\ e.ledger = me.ledger /\ e.name = me.name BY <1>1, <1>3 DEF Task
  <2> QED BY <2>1
<1>7. at' = [at EXCEPT ![w] = new] /\ at'[w] = new /\ (w # "turn" => at'["turn"] = at["turn"])
  BY <1>1, <1>2, <1>6, Ordinary
<1>8. Grown' = Grown
  <2>1. CASE w # "turn" BY <2>1, <1>2, <1>7 DEF Grown
  <2>2. CASE w = "turn"
    <3>1. pc \in {"reads"} \union Choosing <=> me.pc \in {"reads"} \union Choosing
      BY <1>2, <1>3 DEF Choosing
    <3>2. at'["turn"].pc = pc /\ at["turn"].pc = me.pc /\ turnsRun' = turnsRun BY <2>2, <1>2, <1>6, <1>7
    <3> QED BY <3>1, <3>2 DEF Grown
  <2> QED BY <2>1, <2>2
<1>9. disk' \in Ledger /\ Len(disk'.list) <= Grown' /\ disk'.text # "whole"
  <2>1. me.ledger.list \in Seq(SessionRecord) BY <1>1 DEF Task, Ledger
  <2>2. Len(me.ledger.list) \in Nat BY <2>1
  <2>3. Grown \in Int BY Ordinary DEF Grown
  <2>4. Len(disk'.list) = 0 BY <1>2, BlankIsALedger
  <2> HIDE DEF me
  <2>5. 0 <= Grown BY <1>4, <2>2, <2>3
  <2> QED BY <1>2, <1>8, <2>4, <2>5, BlankIsALedger
<1>10. Good(new.ledger)' /\ Len(new.ledger.list) <= Grown' /\ (~crossed' => ShowsClosed(new.ledger)')
  BY <1>2, <1>4, <1>6, <1>8 DEF Good, ShowsClosed
<1>11. w = "turn" =>
         /\ new.pc \in {"reads"} \union Choosing => me.pc \in {"reads"} \union Choosing
         /\ new.pc \in Choosing => new.name = ForNextTurn(new.ledger)
         /\ new.pc # "ran" /\ new.pc # "answered"
         /\ new.pc \in Saving => new.name \in DOMAIN new.ledger.list /\ ~new.ledger.list[new.name].closed
  BY <1>2, <1>3, <1>5, <1>6 DEF Choosing, Saving
<1>12. me.pc # "idle" /\ new.pc # "notes" BY <1>2, <1>3, <1>6
<1>13. /\ at[w].pc # "idle" /\ disk' \in Ledger /\ shut \subseteq shut' /\ shut' \subseteq Nat
       /\ Len(disk'.list) <= Grown'
       /\ disk'.text = "whole" => Good(disk)' /\ (~crossed => ShowsClosed(disk)')
  BY <1>2, <1>9, <1>12 DEF SessionsIInv, SessionsTypeOK
<1>14. /\ w = "turn" => new.pc \in TurnAt
       /\ w # "turn" => new.pc \in CloserAt
       /\ ~crossed' => closings' <= 1 /\ (w # "turn" /\ new.pc = "notes" => closings' = 0)
       /\ turnsRun' \in turnsRun .. MaxTurns /\ closings' \in Nat /\ crossed' \in BOOLEAN
       /\ row' # Nobody => row'.name \in Nat
  BY <1>2, <1>3, <1>6, <1>12, Ordinary
<1>15. /\ harness' \in [Names -> Identities \union {Nobody}] /\ harness' = harness /\ identity' = identity
       /\ closings' = closings /\ crossed' = crossed
  BY <1>2, Ordinary
<1> HIDE DEF me
<1> QED BY <1>7, <1>10, <1>11, <1>13, <1>14, <1>15, MoveKeeps DEF me

\* What a ledger shows closed is what is closed in it.
LEMMA ShownIsClosed ==
  /\ \A ledger \in Ledger : Good(ledger) =>
       ShownClosed(ledger) = {i \in DOMAIN ledger.list : ledger.list[i].closed}
  /\ ShownClosed(Torn) = {}
<1>1. ASSUME NEW ledger \in Ledger, Good(ledger)
      PROVE  ShownClosed(ledger) = {i \in DOMAIN ledger.list : ledger.list[i].closed}
  BY <1>1 DEF ShownClosed, Good, Agrees
<1>2. ShownClosed(Torn) = {} BY BlankIsALedger DEF ShownClosed
<1> QED BY <1>1, <1>2

\* A task fills the file with the ledger it has in hand, or spoils it.
LEMMA FileIsFilled ==
  ASSUME SessionsIInv, NEW w \in Workers, Holding(w), disk' \in Filled(w), harness' = harness,
         shut' = shut \union ShownClosed(disk'), NEW ledger \in Ledger, ledger = at[w].ledger,
         Grown <= Grown', Grown' \in Int, Grown \in Int
  PROVE  /\ disk' \in Ledger /\ shut \subseteq shut' /\ shut' \subseteq Nat /\ Len(disk'.list) <= Grown'
         /\ disk'.text = "whole" => Good(disk)' /\ (~crossed => ShowsClosed(disk)')
         /\ Good(ledger)' /\ Len(ledger.list) <= Grown' /\ (~crossed => ShowsClosed(ledger)')
         /\ \A n \in shut' \ shut : n \in DOMAIN ledger.list /\ ledger.list[n].closed
<1>1. Good(ledger) /\ Len(ledger.list) <= Grown /\ (~crossed => ShowsClosed(ledger)) BY InHand
<1>2. disk' = ledger \/ disk' = Torn BY DEF Filled
<1>3. Len(ledger.list) \in Nat /\ DOMAIN ledger.list \subseteq Nat
  <2>1. ledger.list \in Seq(SessionRecord) BY DEF Ledger
  <2> QED BY <2>1
<1>4. Good(ledger)' BY <1>1 DEF Good
<1>5. Len(ledger.list) <= Grown' /\ 0 <= Grown' BY <1>1, <1>3
<1>6. ShownClosed(ledger) = {i \in DOMAIN ledger.list : ledger.list[i].closed} /\ ShownClosed(Torn) = {}
  BY <1>1, ShownIsClosed
<1>7. shut \subseteq Nat BY DEF SessionsIInv, SessionsTypeOK
<1>8. shut' = shut \/ shut' = shut \union ShownClosed(ledger) BY <1>2, <1>6
<1>9. \A n \in shut' \ shut : n \in DOMAIN ledger.list /\ ledger.list[n].closed BY <1>6, <1>8
<1>10. shut \subseteq shut' /\ shut' \subseteq Nat BY <1>3, <1>7, <1>9
<1>11. ~crossed => ShowsClosed(ledger)' BY <1>1, <1>9 DEF ShowsClosed
<1>12. CASE disk' = ledger
  BY <1>4, <1>5, <1>9, <1>10, <1>11, <1>12 DEF Good, ShowsClosed
<1>13. CASE disk' = Torn
  BY <1>4, <1>5, <1>9, <1>10, <1>11, <1>13, BlankIsALedger
<1> QED BY <1>2, <1>12, <1>13

LEMMA CloseFillsKeeps == ASSUME SessionsIInv, NEW c \in Closers, CloseFills(c) PROVE SessionsIInv'
<1> DEFINE me == at[c]
<1>1. me \in Task /\ at \in [Workers -> Task] /\ c \in Workers /\ c # "turn" BY Ordinary, InHand
<1>2. /\ me.pc = "fills" /\ disk' \in Filled(c) /\ shut' = shut \union ShownClosed(disk')
      /\ at' = [at EXCEPT ![c] = [me EXCEPT !.pc = "looks"]]
      /\ UNCHANGED <<harness, identity, row, closings, turnsRun, crossed>>
  BY <1>1 DEF CloseFills, Now, GoesTo
<1>3. PICK new \in Task : new = [me EXCEPT !.pc = "looks"] /\ new.pc = "looks"
  <2> HIDE DEF me
  <2> DEFINE e == [me EXCEPT !.pc = "looks"]
  <2>1. e \in Task /\ e.pc = "looks" BY <1>1 DEF Task, CloserAt
  <2> QED BY <2>1
<1>4. at' = [at EXCEPT ![c] = new] /\ at'["turn"] = at["turn"] BY <1>1, <1>2, <1>3, Ordinary
<1>5. Grown' = Grown /\ Grown \in Int BY <1>2, <1>4, Ordinary DEF Grown
<1>6. /\ disk' \in Ledger /\ shut \subseteq shut' /\ shut' \subseteq Nat /\ Len(disk'.list) <= Grown'
      /\ disk'.text = "whole" => Good(disk)' /\ (~crossed => ShowsClosed(disk)')
  <2>1. PICK ledger \in Ledger : ledger = me.ledger BY InHand, <1>1
  <2>2. Holding(c) BY <1>2 DEF Holding, Saving
  <2>3. Grown' \in Int /\ Grown <= Grown' BY <1>5
  <2> QED BY <1>1, <1>2, <1>5, <2>1, <2>2, <2>3, FileIsFilled
<1>7. "looks" \in CloserAt /\ new.pc \notin Choosing \union Saving /\ me.pc # "idle" /\ new.pc # "notes"
  BY <1>2, <1>3 DEF CloserAt, Choosing, Saving
<1> QED BY ZenonT(30), <1>1, <1>2, <1>3, <1>4, <1>6, <1>7, Ordinary, MoveKeeps

LEMMA TurnFillsKeeps == ASSUME SessionsIInv, TurnFills PROVE SessionsIInv'
<1> DEFINE me == at["turn"]
<1>1. me \in Task /\ at \in [Workers -> Task] /\ me.ledger \in Ledger BY Ordinary, InHand
<1>2. /\ me.pc \in {"fills", "fills close"} /\ disk' \in Filled("turn")
      /\ shut' = shut \union ShownClosed(disk')
      /\ UNCHANGED <<harness, identity, row, closings, turnsRun, crossed>>
      /\ \/ me.pc = "fills close" /\ GoesTo("turn", "runs again")
         \/ me.pc = "fills" /\ GoesTo("turn", "answered")
         \/ me.pc = "fills" /\ BecomesIdle("turn")
  BY DEF TurnFills, Now
<1>3. PICK new \in Task :
        /\ at' = [at EXCEPT !["turn"] = new]
        /\ \/ new.pc = "idle"
           \/ me.pc = "fills close" /\ new.pc = "runs again" /\ new.name = me.name /\ new.ledger = me.ledger
           \/ me.pc = "fills" /\ new.pc = "answered" /\ new.name = me.name
  <2>1. CASE BecomesIdle("turn")
    <3>1. NoLedger \in Ledger BY DEF NoLedger, Ledger
    <3>2. Away \in Task /\ Away.pc = "idle" BY <3>1 DEF Away, Task, TurnAt
    <3> QED BY <2>1, <3>2 DEF BecomesIdle
  <2>2. ASSUME NEW pc \in {"runs again", "answered"}, GoesTo("turn", pc)
        PROVE  \E new \in Task : /\ at' = [at EXCEPT !["turn"] = new]
                                 /\ new.pc = pc /\ new.name = me.name /\ new.ledger = me.ledger
    <3> DEFINE e == [me EXCEPT !.pc = pc]
    <3>1. at' = [at EXCEPT !["turn"] = e] BY <2>2, <1>1 DEF GoesTo
    <3>2. pc \in TurnAt BY DEF TurnAt, Choosing
    <3> HIDE DEF me
    <3>3. e \in Task /\ e.pc = pc /\ e.name = me.name /\ e.ledger = me.ledger BY <1>1, <3>2 DEF Task
    <3> QED BY <3>1, <3>3
  <2>3. CASE me.pc = "fills close" /\ GoesTo("turn", "runs again") BY <2>2, <2>3
  <2>4. CASE me.pc = "fills" /\ GoesTo("turn", "answered") BY <2>2, <2>4
  <2> QED BY <1>2, <2>1, <2>3, <2>4
<1>4. at'["turn"] = new BY <1>1, <1>3, Ordinary
<1>5. Grown \in Int /\ Grown' \in Int /\ Grown <= Grown'
  <2>1. me.pc = "fills close" => me.pc \in Choosing BY DEF Choosing
  <2>2. new.pc \in {"reads"} \union Choosing => me.pc \in {"reads"} \union Choosing
    BY <1>3, <2>1 DEF Choosing
  <2>3. turnsRun \in Nat /\ turnsRun' = turnsRun BY <1>2, Ordinary
  <2>4. turnsRun' \in Nat /\ turnsRun <= turnsRun' BY <2>3
  <2> QED BY <1>4, <2>2, <2>3, <2>4, GrownGrows
<1>6. PICK ledger \in Ledger : ledger = me.ledger BY <1>1
<1>7. /\ disk' \in Ledger /\ shut \subseteq shut' /\ shut' \subseteq Nat /\ Len(disk'.list) <= Grown'
      /\ disk'.text = "whole" => Good(disk)' /\ (~crossed => ShowsClosed(disk)')
      /\ Good(ledger)' /\ Len(ledger.list) <= Grown' /\ (~crossed => ShowsClosed(ledger)')
      /\ \A n \in shut' \ shut : n \in DOMAIN ledger.list /\ ledger.list[n].closed
  <2>1. Holding("turn") BY <1>2 DEF Holding, Choosing, Saving
  <2> QED BY <1>2, <1>5, <1>6, <2>1, Ordinary, FileIsFilled
<1>8. new.pc \in TurnAt /\ me.pc # "idle" /\ new.pc \notin Saving /\ new.pc # "ran"
  BY <1>2, <1>3 DEF TurnAt, Choosing, Saving
<1>9. new.pc \in Choosing \union Saving =>
        /\ new.pc = "runs again" /\ me.pc \in Choosing /\ new.ledger = ledger
        /\ new.name = ForNextTurn(new.ledger)
  BY <1>3, <1>6 DEF Choosing, Saving, SessionsIInv, TurnsSession
<1>10. new.pc \in {"reads"} \union Choosing => new.pc \in Choosing BY <1>3
<1>11. new.pc = "answered" => crossed \/ new.name \notin shut'
  <2> SUFFICES ASSUME new.pc = "answered", ~crossed PROVE new.name \notin shut' OBVIOUS
  <2>1. me.pc = "fills" /\ new.name = me.name BY <1>3
  <2>2. me.name \in DOMAIN ledger.list /\ ~ledger.list[me.name].closed
    BY <2>1, <1>6 DEF SessionsIInv, TurnsSession, Saving
  <2>3. me.name \notin shut
    BY <2>1, <2>2, <1>6, Ordinary, InHand DEF Holding, Saving, ShowsClosed
  <2> QED BY <2>1, <2>2, <2>3, <1>7
<1>12. /\ at["turn"].pc # "idle" /\ disk' \in Ledger /\ shut \subseteq shut' /\ shut' \subseteq Nat
       /\ Len(disk'.list) <= Grown'
       /\ disk'.text = "whole" => Good(disk)' /\ (~crossed => ShowsClosed(disk)')
  BY <1>7, <1>8
<1>13. new.pc \in Choosing \union Saving =>
         /\ Good(new.ledger)' /\ Len(new.ledger.list) <= Grown'
         /\ ~crossed' => ShowsClosed(new.ledger)'
  BY <1>2, <1>7, <1>9
<1>14. /\ ~crossed' => closings' <= 1 /\ ("turn" # "turn" /\ new.pc = "notes" => closings' = 0)
       /\ turnsRun' \in turnsRun .. MaxTurns /\ closings' \in Nat /\ crossed' \in BOOLEAN
       /\ row' # Nobody => row'.name \in Nat
       /\ harness' \in [Names -> Identities \union {Nobody}] /\ harness' = harness /\ identity' = identity
       /\ closings' = closings /\ crossed' = crossed /\ "turn" \in Workers
  BY <1>2, Ordinary
<1>15. /\ new.pc \in {"reads"} \union Choosing =>
            at["turn"].pc \in {"reads"} \union Choosing \/ turnsRun' > turnsRun
       /\ new.pc # "idle" => at["turn"].pc # "idle" \/ turnsRun' > turnsRun
       /\ new.pc \in Choosing => new.name = ForNextTurn(new.ledger)
       /\ new.pc = "ran" => harness'[new.name] = identity
       /\ new.pc \in Saving => new.name \in DOMAIN new.ledger.list
                               /\ ~new.ledger.list[new.name].closed
       /\ new.pc = "answered" => crossed' \/ new.name \notin shut'
  BY <1>2, <1>8, <1>9, <1>10, <1>11
<1> HIDE DEF me
<1> QED BY <1>3, <1>8, <1>12, <1>13, <1>14, <1>15, MoveKeeps

LEMMA TurnBeginsKeeps == ASSUME SessionsIInv, TurnBegins PROVE SessionsIInv'
<1> DEFINE me == at["turn"]
<1>1. me \in Task /\ at \in [Workers -> Task] BY Ordinary, InHand
<1>2. /\ me.pc = "idle" /\ turnsRun' = turnsRun + 1 /\ turnsRun < MaxTurns
      /\ crossed' = (crossed \/ \E c \in Closers : ~Now(c, "idle"))
      /\ at' = [at EXCEPT !["turn"] = [me EXCEPT !.pc = "reads"]]
      /\ UNCHANGED <<disk, harness, identity, row, closings, shut>>
  BY <1>1, Ordinary DEF TurnBegins, Now, GoesTo
<1>3. PICK new \in Task : new = [me EXCEPT !.pc = "reads"] /\ new.pc = "reads"
  <2> HIDE DEF me
  <2> DEFINE e == [me EXCEPT !.pc = "reads"]
  <2>1. e \in Task /\ e.pc = "reads" BY <1>1 DEF Task, TurnAt
  <2> QED BY <2>1
<1>4. at' = [at EXCEPT !["turn"] = new] BY <1>2, <1>3
<1>5. crossed' \in BOOLEAN /\ (crossed => crossed') /\ (~crossed' => ~crossed)
  BY <1>2, Ordinary
<1>6. ~crossed' => \A v \in Workers : v # "turn" => at[v].pc = "idle"
  BY <1>2 DEF Now, Workers
<1>7. turnsRun' \in turnsRun .. MaxTurns /\ turnsRun' > turnsRun
  BY <1>2, Ordinary, SessionConstants
<1>8. /\ new.pc \in TurnAt /\ new.pc \notin Choosing \union Saving /\ new.pc \notin Choosing
      /\ new.pc \notin Saving /\ new.pc # "ran" /\ new.pc # "answered"
  BY <1>3 DEF TurnAt, Choosing, Saving
<1>9. ~crossed' => closings' <= 1 BY <1>2, <1>5, Ordinary
<1> QED BY <1>2, <1>4, <1>5, <1>6, <1>7, <1>8, <1>9, Ordinary, MoveKeeps

LEMMA BeginsCloseKeeps == ASSUME SessionsIInv, NEW c \in Closers, BeginsClose(c) PROVE SessionsIInv'
<1> DEFINE me == at[c]
           pc == IF c = "close-out" THEN "ends" ELSE "shuts"
<1>1. me \in Task /\ at \in [Workers -> Task] /\ c \in Workers /\ c # "turn" BY Ordinary, InHand
<1>2. /\ me.pc = "idle" /\ crossed' = (crossed \/ \E w \in Workers \ {c} : ~Now(w, "idle"))
      /\ at' = [at EXCEPT ![c] = [me EXCEPT !.pc = pc]]
      /\ UNCHANGED <<disk, harness, identity, row, closings, turnsRun, shut>>
  BY <1>1 DEF BeginsClose, Now, GoesTo
<1>3. pc \in CloserAt /\ pc \notin Choosing \union Saving /\ pc # "notes" BY DEF CloserAt, Choosing, Saving
<1> HIDE DEF pc
<1>4. PICK new \in Task : new = [me EXCEPT !.pc = pc] /\ new.pc = pc
  <2> HIDE DEF me
  <2> DEFINE e == [me EXCEPT !.pc = pc]
  <2>1. e \in Task /\ e.pc = pc BY <1>1, <1>3 DEF Task
  <2> QED BY <2>1
<1>5. at' = [at EXCEPT ![c] = new] BY <1>2, <1>4
<1>6. crossed' \in BOOLEAN /\ (crossed => crossed') /\ (~crossed' => ~crossed)
  BY <1>2, Ordinary
<1>7. ~crossed' => \A v \in Workers : v # c => at[v].pc = "idle"
  BY <1>2 DEF Now
<1>8. ~crossed' => closings' <= 1 BY <1>2, <1>6, Ordinary
<1> QED BY <1>1, <1>2, <1>3, <1>4, <1>5, <1>6, <1>7, <1>8, Ordinary, MoveKeeps

LEMMA DiesKeeps == ASSUME SessionsIInv, Dies PROVE SessionsIInv'
<1>1. /\ at' = [w \in Workers |-> Away] /\ identity' \in Identities
      /\ UNCHANGED <<disk, harness, row, closings, turnsRun, shut, crossed>>
  BY DEF Dies
<1>2. Away \in Task /\ Away.pc = "idle"
  <2>1. NoLedger \in Ledger BY DEF NoLedger, Ledger
  <2> QED BY <2>1 DEF Away, Task, TurnAt
<1>3. /\ at' \in [Workers -> Task] /\ \A w \in Workers : at'[w].pc = "idle"
      /\ at'["turn"].pc = "idle" /\ \A c \in Closers : at'[c].pc = "idle"
  BY <1>1, <1>2, Ordinary
<1>4. "idle" \notin Choosing \union Saving /\ "idle" \notin {"reads"} \union Choosing
      /\ "idle" \in TurnAt \intersect CloserAt /\ "idle" \notin Choosing /\ "idle" \notin Saving
  BY DEF Choosing, Saving, TurnAt, CloserAt
<1>5. SessionsTypeOK' BY <1>1, <1>3, <1>4 DEF SessionsIInv, SessionsTypeOK
<1>6. \A w \in Workers : ~Holding(w)' BY <1>3, <1>4 DEF Holding
<1>7. AllGood' BY <1>1, <1>6 DEF SessionsIInv, AllGood, Good
<1>8. NotTooLong'
  <2>1. Grown' = turnsRun BY <1>1, <1>3, <1>4 DEF Grown
  <2>2. Len(disk.list) \in Nat /\ turnsRun \in Nat /\ Len(disk.list) <= Grown
    BY Ordinary DEF SessionsIInv, NotTooLong, SessionsTypeOK, Ledger
  <2>3. Len(disk.list) <= turnsRun
    <3>1. Grown = turnsRun \/ Grown = turnsRun - 1 BY DEF Grown
    <3> QED BY <2>2, <3>1
  <2> QED BY <1>1, <1>3, <1>6, <2>1, <2>3 DEF NotTooLong
<1>9. TurnsSession' BY <1>3, <1>4 DEF TurnsSession
<1>10. OneAtATime' /\ CloseCounted' BY <1>1, <1>3 DEF SessionsIInv, OneAtATime, CloseCounted, Now
<1>11. ShutIsKept' BY <1>1, <1>3, <1>6 DEF SessionsIInv, ShutIsKept, ShowsClosed, Now
<1> QED BY <1>5, <1>7, <1>8, <1>9, <1>10, <1>11 DEF SessionsIInv

LEMMA SessionsStutter == ASSUME SessionsIInv, UNCHANGED sessions PROVE SessionsIInv'
  BY DEF sessions, SessionsIInv, SessionsTypeOK, AllGood, Good, Agrees, NotTooLong, Grown, TurnsSession,
     OneAtATime, CloseCounted, ShutIsKept, ShowsClosed, Holding, Now, ForNextTurn, AfterCurrent, IsOpen

LEMMA SessionsStep == SessionsIInv /\ [SessionsNext]_sessions => SessionsIInv'
<1> SUFFICES ASSUME SessionsIInv, [SessionsNext]_sessions PROVE SessionsIInv' OBVIOUS
<1>1. CASE TurnBegins BY <1>1, TurnBeginsKeeps
<1>2. CASE TurnGoesOn
  BY <1>2, ReadsLedgerKeeps, RunsKeeps, ReportedKeeps, ConflictsKeeps, TurnFailsKeeps, TurnFillsKeeps,
     NotesOpeningKeeps, PutsSessionKeeps DEF TurnGoesOn
<1>3. ASSUME NEW c \in Closers, BeginsClose(c) PROVE SessionsIInv' BY <1>3, BeginsCloseKeeps
<1>4. ASSUME NEW c \in Closers, CloseGoesOn(c) PROVE SessionsIInv'
  BY <1>4, EndsKeeps, ShutsKeeps, CloseFillsKeeps, ReadsRowKeeps, PutsClosedKeeps, AsksHistoryKeeps,
     NotesClosingKeeps DEF CloseGoesOn
<1>5. CASE TellsOfEnd BY <1>5, TellsOfEndKeeps
<1>6. ASSUME NEW w \in Workers, Empties(w) PROVE SessionsIInv' BY <1>6, EmptiesKeeps
<1>7. ASSUME NEW w \in Workers, Refused(w) PROVE SessionsIInv' BY <1>7, RefusedKeeps
<1>8. CASE Dies BY <1>8, DiesKeeps
<1>9. CASE UNCHANGED sessions BY <1>9, SessionsStutter
<1> QED BY <1>1, <1>2, <1>3, <1>4, <1>5, <1>6, <1>7, <1>8, <1>9 DEF SessionsNext

\* Every reachable state satisfies the inductive invariant.
THEOREM SessionsInvariance == SessionsSpec => []SessionsIInv
BY SessionsInitial, SessionsStep, PTL DEF SessionsSpec

\* ledger.rs 183-190, closing.rs 176-179 and turn.rs 311-313: a ledger written whole
\* is never refused, a session is closed in the history once, and one shown closed
\* is never open again nor run in, for any turns, closes, deaths, refusals and identities.
THEOREM SessionsAreKept == SessionsSpec => []SessionsInv
<1>1. ASSUME SessionsIInv PROVE SessionsInv
  <2> USE <1>1
  <2>1. LedgerAgrees BY DEF LedgerAgrees, SessionsIInv, AllGood, Good
  <2>2. ClosedOnce BY DEF ClosedOnce, SessionsIInv, CloseCounted
  <2>3. ASSUME ~crossed, NEW n \in shut,
               at["turn"].pc \in {"runs", "runs again", "ran", "answered"}, at["turn"].name = n
        PROVE  FALSE
    <3>1. at["turn"].pc # "answered" BY <2>3 DEF SessionsIInv, ShutIsKept, Now
    <3>2. at["turn"].pc \in Choosing BY <2>3, <3>1 DEF Choosing
    <3>3. /\ at["turn"].ledger \in Ledger /\ Good(at["turn"].ledger) /\ ShowsClosed(at["turn"].ledger)
      BY <2>3, <3>2, Ordinary, InHand DEF Holding
    <3>4. at["turn"].name = ForNextTurn(at["turn"].ledger) BY <3>2 DEF SessionsIInv, TurnsSession
    <3>5. n \in DOMAIN at["turn"].ledger.list /\ at["turn"].ledger.list[n].closed
      BY <2>3, <3>3 DEF ShowsClosed
    <3> QED BY <2>3, <3>3, <3>4, <3>5, NamedForNextTurn
  <2>4. ClosedStaysClosed
    BY <2>3 DEF ClosedStaysClosed, SessionsIInv, ShutIsKept, ShowsClosed
  <2> QED BY <2>1, <2>2, <2>4 DEF SessionsInv
<1> QED BY <1>1, SessionsInvariance, PTL
=============================================================================
