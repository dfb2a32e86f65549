------------------------- MODULE Printer_proofs -------------------------
(***************************************************************************)
(* What the server makes of what the printer pushes, for any jobs, pushes, *)
(* resets, refusals of the store, probes, ends of the socket and restarts: *)
(* that a push lost is told as a gap and the task of the push channel never *)
(* waits for what has come; that what comes is noted once and in order, and *)
(* no reply answers two probes; that a reset is attributed to the print it *)
(* stopped; and that what the store refuses is kept until it is written.   *)
(***************************************************************************)
EXTENDS PrinterWatch, PushChannel, SequenceTheorems, TLAPS

-----------------------------------------------------------------------------
(* The channel the pushes come by (PushChannel) *)

PushSpec == PushInit /\ [][PushNext]_push

States ==
  /\ channel \in {"unknown", "open", "down"} /\ socket \in {"closed", "open", "broken"}
  /\ gap \in BOOLEAN /\ missed \in BOOLEAN /\ waker \in BOOLEAN /\ ended \in BOOLEAN

\* A loss counts once the channel was reported on; what was reported as down left
\* a gap, and what was reported as open has had its socket since.
Reported ==
  /\ missed => channel # "unknown"
  /\ channel = "down" => gap
  /\ task \in {"down", "opening"} => channel # "open"
  /\ channel = "open" \/ task = "opening" => socket # "closed"

PushIInv == States /\ Reported /\ LossIsTold /\ WakerIsLeft

LEMMA PushInitial == PushInit => PushIInv
  BY DEF PushInit, PushIInv, States, Reported, LossIsTold, WakerIsLeft

\* What the host pushes is lost when no socket is open.
LEMMA HostKeeps ==
  ASSUME PushIInv, HostResets \/ HostReplies PROVE PushIInv'
<1>1. /\ channel' = channel /\ gap' = gap /\ task' = task /\ socket' = socket
      /\ waker' = waker /\ queue' = queue /\ ended' = ended
  BY DEF HostResets, HostReplies, HostPushes, core, shared
<1>2. \/ missed' = missed
      \/ socket # "open" /\ missed' \in BOOLEAN /\ (missed' => missed \/ channel # "unknown")
  BY DEF HostResets, HostReplies, HostPushes, PushIInv, States
<1>3. CASE missed' = missed
  BY <1>1, <1>3 DEF PushIInv, States, Reported, LossIsTold, WakerIsLeft
<1>4. CASE socket # "open" /\ missed' \in BOOLEAN /\ (missed' => missed \/ channel # "unknown")
  <2>1. States' /\ WakerIsLeft' BY <1>1, <1>4 DEF PushIInv, States, WakerIsLeft
  <2>2. Reported' /\ LossIsTold' BY <1>1, <1>4 DEF PushIInv, States, Reported, LossIsTold
  <2> QED BY <2>1, <2>2 DEF PushIInv
<1> QED BY <1>2, <1>3, <1>4

\* The socket ends with what core was told of it unchanged.
LEMMA EndingKeeps ==
  ASSUME PushIInv, SocketEnds PROVE PushIInv'
<1>1. /\ channel' = channel /\ gap' = gap /\ task' = task /\ socket' = "broken" /\ socket = "open"
      /\ waker' = waker /\ queue' = queue /\ ended' = ended
  BY DEF SocketEnds, core, shared
<1>2. missed' \in BOOLEAN /\ (missed' => missed \/ channel # "unknown")
  BY DEF SocketEnds, PushIInv, States
<1>3. States' /\ WakerIsLeft' BY <1>1, <1>2 DEF PushIInv, States, WakerIsLeft
<1>4. Reported' /\ LossIsTold' BY <1>1, <1>2 DEF PushIInv, States, Reported, LossIsTold
<1> QED BY <1>3, <1>4 DEF PushIInv

\* A hand-over wakes a task that waits: its waker is there.
LEMMA ReadingKeeps ==
  ASSUME PushIInv, ThreadReads PROVE PushIInv'
<1>1. channel' = channel /\ gap' = gap /\ socket' = socket /\ missed' = missed
  BY DEF ThreadReads, core
<1>2. \/ UNCHANGED <<queue, ended, waker, task>>
      \/ /\ task' = (IF waker THEN "polling" ELSE task)
         /\ waker' = FALSE /\ ended' \in BOOLEAN
  BY DEF ThreadReads, HandOver, Woken, shared, PushIInv, States
<1>3. CASE UNCHANGED <<queue, ended, waker, task>>
  BY <1>1, <1>3 DEF PushIInv, States, Reported, LossIsTold, WakerIsLeft
<1>4. CASE /\ task' = (IF waker THEN "polling" ELSE task)
           /\ waker' = FALSE /\ ended' \in BOOLEAN
  BY <1>1, <1>4 DEF PushIInv, States, Reported, LossIsTold, WakerIsLeft
<1> QED BY <1>2, <1>3, <1>4

\* Opening finds what was lost before marked as a gap, and dropping marks it.
LEMMA TaskKeeps ==
  ASSUME PushIInv, TaskActs PROVE PushIInv'
<1> USE DEF PushIInv, States, Reported, LossIsTold, WakerIsLeft
<1>1. CASE TaskConnects BY <1>1 DEF TaskConnects, core
<1>2. CASE TaskIsRefused BY <1>2 DEF TaskIsRefused, host, shared
<1>3. CASE TaskOpens BY <1>3 DEF TaskOpens, host, shared
<1>4. CASE TaskTakes BY <1>4 DEF TaskTakes, host, core
<1>5. CASE TaskParks BY <1>5 DEF TaskParks, host, core
<1>6. CASE TaskNotes BY <1>6 DEF TaskNotes, host, shared, core
<1>7. CASE TaskDrops BY <1>7 DEF TaskDrops, shared
<1> QED BY <1>1, <1>2, <1>3, <1>4, <1>5, <1>6, <1>7 DEF TaskActs

LEMMA PushStep == PushIInv /\ [PushNext]_push => PushIInv'
<1> SUFFICES ASSUME PushIInv, [PushNext]_push PROVE PushIInv' OBVIOUS
<1>1. CASE HostResets BY <1>1, HostKeeps
<1>2. CASE HostReplies BY <1>2, HostKeeps
<1>3. CASE SocketEnds BY <1>3, EndingKeeps
<1>4. CASE ThreadReads BY <1>4, ReadingKeeps
<1>5. CASE TaskActs BY <1>5, TaskKeeps
<1>6. CASE \/ ProbeLooks \/ ProbeTakes \/ ProbeSends \/ ProbeFinds \/ ProbeGivesUp
  <2>1. UNCHANGED passing
    BY <1>6 DEF ProbeLooks, ProbeTakes, ProbeSends, ProbeFinds, ProbeGivesUp
  <2> QED BY <2>1 DEF passing, host, shared, core, PushIInv, States, Reported, LossIsTold, WakerIsLeft
<1>7. CASE CoreForgets
  BY <1>7 DEF CoreForgets, GapForgotten, host, shared, PushIInv, States, Reported, LossIsTold,
       WakerIsLeft
<1>8. CASE UNCHANGED push
  BY <1>8 DEF push, passing, host, shared, core, PushIInv, States, Reported, LossIsTold, WakerIsLeft
<1> QED BY <1>1, <1>2, <1>3, <1>4, <1>5, <1>6, <1>7, <1>8 DEF PushNext

\* The push channel's invariant holds for any pushes, probes and ends of the
\* socket.
THEOREM PushInvariance == PushSpec => []PushIInv
  BY PushInitial, PushStep, PTL DEF PushSpec

\* A push lost during a print is told as a gap once its socket's end has been
\* told: what the channel was reported as, the gap and the socket never tell
\* core that it has heard everything when it has not.
THEOREM LossLeavesAGap == PushSpec => []LossIsTold
<1>1. PushIInv => LossIsTold BY DEF PushIInv
<1> QED BY PushInvariance, <1>1, PTL

\* The task of the push channel never waits while a push or the socket's end is
\* there for it, and what comes next finds its waker.
THEOREM NoPushWaitsUnseen == PushSpec => []WakerIsLeft
<1>1. PushIInv => WakerIsLeft BY DEF PushIInv
<1> QED BY PushInvariance, <1>1, PTL

-----------------------------------------------------------------------------
(* Each push once, in the order pushed (PushChannel) *)

Frame == [op : {"text", "ping", "continuation", "close"}, last : BOOLEAN, of : Nat]

\* Whether the frames before one leave a message in the middle.
Midway(frame) == frame.op = "ping" \/ (frame.op = "text" /\ ~frame.last)
Inside(flow, partial, i) == IF i = 1 THEN partial ELSE Midway(flow[i - 1])
WellFramed(flow, partial) ==
  \A i \in DOMAIN flow :
    /\ flow[i].op = "text" => ~Inside(flow, partial, i)
    /\ flow[i].op \in {"ping", "continuation"} => Inside(flow, partial, i)
    /\ flow[i].op = "continuation" => flow[i].last
    /\ flow[i].of # NoPush <=> (flow[i].op \in {"text", "continuation"} /\ flow[i].last)
    /\ flow[i].op = "close" => i = Len(flow) /\ flow[i].of = NoPush

\* What the frames, what came of them and what was noted are made of; the frames
\* make whole messages, and a close frame is the last.
FrameTypes ==
  /\ pushLog \in Seq(Nat) /\ frames \in Seq(Frame) /\ queue \in Seq(Nat) /\ noted \in Seq(Nat) /\ hand \in Nat
  /\ sent \subseteq DOMAIN pushLog /\ unfinished \in BOOLEAN /\ waker \in BOOLEAN /\ ended \in BOOLEAN
Framed ==
  /\ WellFramed(frames, unfinished)
  /\ \A i \in DOMAIN frames : frames[i].op = "close" => socket # "open"
  /\ socket = "open" => ~Inside(frames, unfinished, Len(frames) + 1)
\* A reading that ended left no frame, and a push in hand is being noted.
Ending ==
  /\ ended => frames = <<>> /\ socket # "open"
  /\ task = "down" => frames = <<>> /\ queue = <<>> /\ socket # "open"
  /\ hand # NoPush <=> task = "noting"
  /\ waker => task = "parked"
StreamIInv == FrameTypes /\ Framed /\ Ending /\ NotedInOrder

\* The pushes on two stretches of frames are those on each.
LEMMA PushesOnBoth ==
  ASSUME NEW f \in Seq(Frame), NEW g \in Seq(Frame)
  PROVE  PushesOn(f \o g) = PushesOn(f) \union PushesOn(g)
<1>1. /\ Len(f) \in Nat /\ Len(g) \in Nat
      /\ DOMAIN f = 1 .. Len(f) /\ DOMAIN g = 1 .. Len(g)
  BY LenProperties
<1>2. /\ Len(f \o g) = Len(f) + Len(g)
      /\ f \o g \in Seq(Frame)
      /\ \A i \in 1 .. Len(f) + Len(g) : (f \o g)[i] = IF i <= Len(f) THEN f[i] ELSE g[i - Len(f)]
  BY ConcatProperties
<1>3. DOMAIN (f \o g) = 1 .. Len(f) + Len(g) BY <1>2, LenProperties
<1>4. ASSUME NEW i \in DOMAIN f PROVE i \in DOMAIN (f \o g) /\ (f \o g)[i] = f[i]
  BY <1>1, <1>2, <1>3
<1>5. ASSUME NEW i \in DOMAIN g PROVE Len(f) + i \in DOMAIN (f \o g) /\ (f \o g)[Len(f) + i] = g[i]
  BY <1>1, <1>2, <1>3
<1>6. ASSUME NEW i \in DOMAIN (f \o g)
      PROVE (i \in DOMAIN f /\ (f \o g)[i] = f[i]) \/ (i - Len(f) \in DOMAIN g /\ (f \o g)[i] = g[i - Len(f)])
  BY <1>1, <1>2, <1>3
<1>7. PushesOn(f \o g) \subseteq PushesOn(f) \union PushesOn(g) BY <1>6 DEF PushesOn
<1>8. PushesOn(f) \subseteq PushesOn(f \o g) BY <1>4 DEF PushesOn
<1>9. PushesOn(g) \subseteq PushesOn(f \o g) BY <1>5 DEF PushesOn
<1> QED BY <1>7, <1>8, <1>9

\* A message, in one frame or in three, is well framed and brings one push.
LEMMA MessageIs ==
  ASSUME NEW n \in Nat \ {0}, NEW message \in {Whole(n), Fragments(n)}
  PROVE  /\ message \in Seq(Frame) /\ PushesOn(message) = {n}
         /\ Len(message) \in {1, 3} /\ message[Len(message)].of = n
         /\ \A i \in DOMAIN message : i # Len(message) => message[i].of = NoPush
         /\ WellFramed(message, FALSE) /\ ~Midway(message[Len(message)])
         /\ \A i \in DOMAIN message : message[i].op # "close"
<1>1. CASE message = Whole(n)
  <2> DEFINE w == [op |-> "text", last |-> TRUE, of |-> n]
  <2>1. message = <<w>> /\ w \in Frame BY <1>1 DEF Whole, Frame
  <2>2. message \in Seq(Frame) /\ Len(message) = 1 /\ DOMAIN message = {1} /\ message[1] = w BY <2>1
  <2>3. PushesOn(message) = {n} BY <2>2 DEF PushesOn, NoPush
  <2>4. WellFramed(message, FALSE) /\ ~Midway(message[1]) BY <2>2 DEF WellFramed, Inside, Midway, NoPush
  <2>5. message[1].of = n /\ message[1].op # "close" BY <2>2
  <2> HIDE DEF w
  <2> QED BY <2>2, <2>3, <2>4, <2>5
<1>2. CASE message = Fragments(n)
  <2> DEFINE a == [op |-> "text", last |-> FALSE, of |-> NoPush]
             b == [op |-> "ping", last |-> TRUE, of |-> NoPush]
             c == [op |-> "continuation", last |-> TRUE, of |-> n]
  <2>1. message = <<a, b, c>> /\ a \in Frame /\ b \in Frame /\ c \in Frame
    BY <1>2 DEF Fragments, Frame, NoPush
  <2>2. /\ message \in Seq(Frame) /\ Len(message) = 3 /\ DOMAIN message = {1, 2, 3}
        /\ message[1] = a /\ message[2] = b /\ message[3] = c
    BY <2>1
  <2>3. PushesOn(message) = {n} BY <2>2 DEF PushesOn, NoPush
  <2>4. WellFramed(message, FALSE) /\ ~Midway(message[3]) BY <2>2 DEF WellFramed, Inside, Midway, NoPush
  <2>5. /\ message[3].of = n /\ message[1].of = NoPush /\ message[2].of = NoPush
        /\ message[1].op # "close" /\ message[2].op # "close" /\ message[3].op # "close"
    BY <2>2
  <2> HIDE DEF a, b, c
  <2> QED BY <2>2, <2>3, <2>4, <2>5
<1> QED BY <1>1, <1>2

LEMMA FramesAppended ==
  ASSUME NEW f \in Seq(Frame), NEW g \in Seq(Frame), NEW partial \in BOOLEAN,
         WellFramed(f, partial), WellFramed(g, FALSE), g # <<>>,
         ~Inside(f, partial, Len(f) + 1), \A i \in DOMAIN f : f[i].op # "close",
         ~Midway(g[Len(g)])
  PROVE  WellFramed(f \o g, partial) /\ ~Inside(f \o g, partial, Len(f \o g) + 1)
<1>1. /\ Len(f) \in Nat /\ Len(g) \in Nat /\ Len(g) > 0
      /\ DOMAIN f = 1 .. Len(f) /\ DOMAIN g = 1 .. Len(g)
  BY LenProperties, EmptySeq
<1>2. /\ Len(f \o g) = Len(f) + Len(g)
      /\ f \o g \in Seq(Frame)
      /\ \A i \in 1 .. Len(f) + Len(g) : (f \o g)[i] = IF i <= Len(f) THEN f[i] ELSE g[i - Len(f)]
  BY ConcatProperties
<1>3. DOMAIN (f \o g) = 1 .. Len(f) + Len(g) BY <1>2, LenProperties
<1> DEFINE h == f \o g
<1>4. ASSUME NEW i \in DOMAIN f PROVE h[i] = f[i] /\ Inside(h, partial, i) = Inside(f, partial, i) /\ i # Len(h)
  BY <1>1, <1>2 DEF Inside
<1>5. ASSUME NEW i \in DOMAIN g
      PROVE  h[Len(f) + i] = g[i] /\ Inside(h, partial, Len(f) + i) = Inside(g, FALSE, i)
  <2>1. h[Len(f) + i] = g[i] BY <1>1, <1>2
  <2>2. CASE i # 1
    <3>1. h[Len(f) + i - 1] = g[i - 1] BY <1>1, <1>2, <2>2
    <3> QED BY <2>1, <2>2, <3>1, <1>1 DEF Inside
  <2>3. CASE i = 1 /\ Len(f) = 0
    <3>1. partial = FALSE BY <2>3 DEF Inside
    <3>2. Len(f) + i = 1 BY <2>3
    <3>3. Inside(h, partial, 1) = partial /\ Inside(g, FALSE, 1) = FALSE BY DEF Inside
    <3> QED BY <2>1, <2>3, <3>1, <3>2, <3>3
  <2>4. CASE i = 1 /\ Len(f) # 0
    <3>1. h[Len(f)] = f[Len(f)] BY <1>1, <1>2, <2>4
    <3>2. Inside(h, partial, Len(f) + 1) = Midway(f[Len(f)]) /\ Inside(f, partial, Len(f) + 1) = Midway(f[Len(f)])
      BY <3>1, <1>1, <2>4 DEF Inside
    <3> QED BY <2>1, <2>4, <3>2 DEF Inside, Midway
  <2> QED BY <2>2, <2>3, <2>4
<1>6. h[Len(h)] = g[Len(g)] /\ Len(h) # 0 BY <1>1, <1>2
<1>7. ~Inside(h, partial, Len(h) + 1) BY <1>1, <1>2, <1>6 DEF Inside
<1>8. WellFramed(h, partial)
  <2> SUFFICES ASSUME NEW i \in DOMAIN h
               PROVE  /\ h[i].op = "text" => ~Inside(h, partial, i)
                      /\ h[i].op \in {"ping", "continuation"} => Inside(h, partial, i)
                      /\ h[i].op = "continuation" => h[i].last
                      /\ h[i].of # NoPush <=> (h[i].op \in {"text", "continuation"} /\ h[i].last)
                      /\ h[i].op = "close" => i = Len(h) /\ h[i].of = NoPush
    BY DEF WellFramed
  <2> HIDE DEF h
  <2>1. CASE i \in DOMAIN f BY <2>1, <1>4 DEF WellFramed
  <2>2. CASE i \notin DOMAIN f
    <3> DEFINE k == i - Len(f)
    <3>1. k \in DOMAIN g /\ i = Len(f) + k BY <1>1, <1>2, <1>3, <2>2 DEF h
    <3>2. h[i] = g[k] /\ Inside(h, partial, i) = Inside(g, FALSE, k) BY <3>1, <1>5
    <3>3. k = Len(g) => i = Len(h) BY <3>1, <1>2 DEF h
    <3> HIDE DEF k
    <3> QED BY <3>1, <3>2, <3>3 DEF WellFramed
  <2> QED BY <2>1, <2>2
<1> QED BY <1>7, <1>8

\* A frame that ends a message adds its push to what came, and any other adds none.
FlowInOrder(flow) ==
  \A i, j \in DOMAIN flow : i < j /\ NoPush \notin {flow[i].of, flow[j].of} => flow[i].of < flow[j].of

\* The frames after the first n.
LEMMA FramesAfter ==
  ASSUME NEW f \in Seq(Frame), NEW n \in 0 .. Len(f)
  PROVE  LET after == SubSeq(f, n + 1, Len(f)) IN
         /\ after \in Seq(Frame) /\ Len(after) = Len(f) - n
         /\ \A i \in 1 .. Len(f) - n : after[i] = f[n + i]
<1>1. Len(f) \in Nat /\ n \in Nat /\ n <= Len(f) BY LenProperties
<1>2. \A i \in 1 .. Len(f) : f[i] \in Frame BY ElementOfSeq
<1> DEFINE after == SubSeq(f, n + 1, Len(f))
<1>3. /\ after \in Seq(Frame) /\ Len(after) = IF n + 1 <= Len(f) THEN Len(f) - (n + 1) + 1 ELSE 0
      /\ \A i \in 1 .. Len(f) - (n + 1) + 1 : after[i] = f[n + 1 + i - 1]
  BY <1>1, <1>2, SubSeqProperties
<1> HIDE DEF after
<1>4. Len(after) = Len(f) - n BY <1>1, <1>3
<1>5. ASSUME NEW i \in 1 .. Len(f) - n PROVE after[i] = f[n + i]
  <2>1. i \in 1 .. Len(f) - (n + 1) + 1 /\ n + 1 + i - 1 = n + i BY <1>1
  <2> QED BY <1>3, <2>1
<1> QED BY <1>3, <1>4, <1>5 DEF after

\* A socket that ends keeps the order of what was on its way before the end.
LEMMA FramesCut ==
  ASSUME NEW f \in Seq(Frame), NEW n \in 0 .. Len(f), NEW partial \in BOOLEAN, WellFramed(f, partial), FlowInOrder(f),
         \A i \in DOMAIN f : f[i].op # "close"
  PROVE  LET g == Append(SubSeq(f, 1, n), CloseFrame)
             cut == PushesOn(SubSeq(f, n + 1, Len(f)))
         IN /\ g \in Seq(Frame) /\ WellFramed(g, partial) /\ FlowInOrder(g)
            /\ PushesOn(g) = PushesOn(f) \ cut /\ cut \subseteq PushesOn(f)
<1> DEFINE before == SubSeq(f, 1, n)
           after == SubSeq(f, n + 1, Len(f))
           g == Append(before, CloseFrame)
<1>1. Len(f) \in Nat /\ DOMAIN f = 1 .. Len(f) /\ n \in Nat /\ n <= Len(f) BY LenProperties
<1>2. \A i \in 1 .. Len(f) : f[i] \in Frame BY ElementOfSeq
<1>3. before \in Seq(Frame) /\ Len(before) = n /\ \A i \in 1 .. n : before[i] = f[i]
  <2>1. /\ before \in Seq(Frame) /\ Len(before) = IF 1 <= n THEN n - 1 + 1 ELSE 0
        /\ \A i \in 1 .. n - 1 + 1 : before[i] = f[1 + i - 1]
    BY <1>1, <1>2, SubSeqProperties
  <2> QED BY <1>1, <2>1
<1>4. /\ after \in Seq(Frame) /\ Len(after) = Len(f) - n
      /\ \A i \in 1 .. Len(f) - n : after[i] = f[n + i]
  BY FramesAfter
<1>5. CloseFrame \in Frame BY DEF CloseFrame, Frame, NoPush
<1>6. g \in Seq(Frame) /\ Len(g) = n + 1 /\ g[n + 1] = CloseFrame /\ \A i \in 1 .. n : g[i] = f[i]
  <2> HIDE DEF before
  <2>1. /\ g \in Seq(Frame) /\ Len(g) = Len(before) + 1 /\ g[Len(before) + 1] = CloseFrame
        /\ \A i \in 1 .. Len(before) : g[i] = before[i]
    BY <1>3, <1>5, AppendProperties DEF g
  <2> HIDE DEF g
  <2> QED BY <1>3, <2>1
<1>7. DOMAIN g = 1 .. n + 1 /\ DOMAIN after = 1 .. Len(f) - n BY <1>4, <1>6, LenProperties
<1> HIDE DEF g, before, after
<1>8. WellFramed(g, partial)
  <2> SUFFICES ASSUME NEW i \in DOMAIN g
               PROVE  /\ g[i].op = "text" => ~Inside(g, partial, i)
                      /\ g[i].op \in {"ping", "continuation"} => Inside(g, partial, i)
                      /\ g[i].op = "continuation" => g[i].last
                      /\ g[i].of # NoPush <=> (g[i].op \in {"text", "continuation"} /\ g[i].last)
                      /\ g[i].op = "close" => i = Len(g) /\ g[i].of = NoPush
    BY DEF WellFramed
  <2>1. CASE i = n + 1 BY <2>1, <1>6 DEF CloseFrame
  <2>2. CASE i # n + 1
    <3>1. i \in 1 .. n /\ i \in DOMAIN f /\ g[i] = f[i] BY <1>1, <1>6, <1>7, <2>2
    <3>2. i # 1 => g[i - 1] = f[i - 1] BY <3>1, <1>1, <1>6
    <3>3. Inside(g, partial, i) = Inside(f, partial, i) BY <3>2 DEF Inside
    <3> QED BY <3>1, <3>3 DEF WellFramed
  <2> QED BY <2>1, <2>2
<1>9. FlowInOrder(g)
  <2> SUFFICES ASSUME NEW i \in DOMAIN g, NEW j \in DOMAIN g, i < j, g[i].of # NoPush, g[j].of # NoPush
               PROVE  g[i].of < g[j].of
    BY DEF FlowInOrder
  <2>1. j # n + 1 BY <1>6 DEF CloseFrame
  <2>2. i \in DOMAIN f /\ j \in DOMAIN f /\ g[i] = f[i] /\ g[j] = f[j] BY <1>1, <1>6, <1>7, <2>1
  <2> QED BY <2>2 DEF FlowInOrder
<1>10. PushesOn(after) \subseteq PushesOn(f)
  <2>1. \A i \in DOMAIN after : n + i \in DOMAIN f /\ after[i] = f[n + i] BY <1>1, <1>4, <1>7
  <2> QED BY <2>1 DEF PushesOn
<1>11. PushesOn(g) \subseteq PushesOn(f) \ PushesOn(after)
  <2> SUFFICES ASSUME NEW m \in PushesOn(g) PROVE m \in PushesOn(f) /\ m \notin PushesOn(after) OBVIOUS
  <2>1. PICK i \in DOMAIN g : g[i].of = m /\ m # NoPush BY DEF PushesOn
  <2>2. i \in 1 .. n /\ i \in DOMAIN f /\ f[i].of = m BY <2>1, <1>1, <1>6, <1>7 DEF CloseFrame
  <2>3. ASSUME NEW k \in DOMAIN after, after[k].of = m PROVE FALSE
    <3>1. n + k \in DOMAIN f /\ f[n + k].of = m /\ i < n + k BY <2>2, <2>3, <1>1, <1>4, <1>7
    <3>2. m < m BY <2>1, <2>2, <3>1 DEF FlowInOrder
    <3>3. m \in Nat BY <1>2, <2>2 DEF Frame
    <3> QED BY <3>2, <3>3
  <2> QED BY <2>1, <2>2, <2>3 DEF PushesOn
<1>12. PushesOn(f) \ PushesOn(after) \subseteq PushesOn(g)
  <2> SUFFICES ASSUME NEW m \in PushesOn(f), m \notin PushesOn(after) PROVE m \in PushesOn(g) OBVIOUS
  <2>1. PICK i \in DOMAIN f : f[i].of = m /\ m # NoPush BY DEF PushesOn
  <2>2. CASE i <= n
    <3>1. i \in DOMAIN g /\ g[i] = f[i] BY <2>2, <1>1, <1>6, <1>7
    <3> QED BY <2>1, <3>1 DEF PushesOn
  <2>3. CASE i > n
    <3>1. i - n \in DOMAIN after /\ after[i - n] = f[i] BY <2>3, <1>1, <1>4, <1>7
    <3> QED BY <2>1, <3>1 DEF PushesOn
  <2> QED BY <2>2, <2>3, <1>1
<1> QED BY <1>6, <1>8, <1>9, <1>10, <1>11, <1>12 DEF g, before, after

\* What reading the first frame leaves.
LEMMA FramesTail ==
  ASSUME NEW f \in Seq(Frame), f # <<>>, NEW partial \in BOOLEAN, WellFramed(f, partial), FlowInOrder(f)
  PROVE  /\ f[1] \in Frame /\ Head(f) = f[1] /\ Tail(f) \in Seq(Frame) /\ 1 \in DOMAIN f
         /\ f[1].op # "close" => WellFramed(Tail(f), Midway(f[1]))
         /\ Inside(Tail(f), Midway(f[1]), Len(Tail(f)) + 1) = Inside(f, partial, Len(f) + 1)
         /\ f[1].op = "close" => Tail(f) = <<>>
         /\ FlowInOrder(Tail(f))
         /\ PushesOn(f) = (IF f[1].of = NoPush THEN {} ELSE {f[1].of}) \union PushesOn(Tail(f))
         /\ f[1].of # NoPush => \A n \in PushesOn(Tail(f)) : f[1].of < n
         /\ \A i \in DOMAIN Tail(f) : i + 1 \in DOMAIN f /\ Tail(f)[i] = f[i + 1]
<1> DEFINE t == Tail(f)
<1>1. Len(f) \in Nat \ {0} /\ DOMAIN f = 1 .. Len(f) BY LenProperties, EmptySeq
<1>2. t \in Seq(Frame) /\ Len(t) = Len(f) - 1 /\ \A i \in 1 .. Len(t) : t[i] = f[i + 1]
  BY HeadTailProperties
<1>3. DOMAIN t = 1 .. Len(f) - 1 BY <1>2, LenProperties
<1>4. f[1] \in Frame /\ Head(f) = f[1] /\ 1 \in DOMAIN f BY <1>1, ElementOfSeq
<1>5. \A i \in DOMAIN t : i + 1 \in DOMAIN f /\ t[i] = f[i + 1] BY <1>1, <1>2, <1>3
<1> HIDE DEF t
<1>6. ASSUME NEW i \in DOMAIN t PROVE Inside(t, Midway(f[1]), i) = Inside(f, partial, i + 1)
  <2>1. i \in Nat /\ i > 0 /\ i + 1 # 1 /\ i + 1 - 1 = i BY <1>1, <1>3
  <2>2. Inside(f, partial, i + 1) = Midway(f[i]) BY <2>1 DEF Inside
  <2>3. CASE i = 1 BY <2>2, <2>3 DEF Inside
  <2>4. CASE i # 1
    <3>1. t[i - 1] = f[i] BY <2>1, <2>4, <1>1, <1>2, <1>3
    <3> QED BY <2>2, <2>4, <3>1 DEF Inside
  <2> QED BY <2>3, <2>4
<1>7. ASSUME f[1].op # "close" PROVE WellFramed(t, Midway(f[1]))
  <2> SUFFICES ASSUME NEW i \in DOMAIN t
               PROVE  /\ t[i].op = "text" => ~Inside(t, Midway(f[1]), i)
                      /\ t[i].op \in {"ping", "continuation"} => Inside(t, Midway(f[1]), i)
                      /\ t[i].op = "continuation" => t[i].last
                      /\ t[i].of # NoPush <=> (t[i].op \in {"text", "continuation"} /\ t[i].last)
                      /\ t[i].op = "close" => i = Len(t) /\ t[i].of = NoPush
    BY DEF WellFramed
  <2>1. i + 1 \in DOMAIN f /\ t[i] = f[i + 1] BY <1>5
  <2>2. i + 1 = Len(f) => i = Len(t) BY <1>1, <1>2, <1>3
  <2> QED BY <2>1, <2>2, <1>6 DEF WellFramed
<1>8. Inside(t, Midway(f[1]), Len(t) + 1) = Inside(f, partial, Len(f) + 1)
  <2>1. Inside(f, partial, Len(f) + 1) = Midway(f[Len(f)]) BY <1>1 DEF Inside
  <2>2. CASE Len(t) = 0
    <3>1. Len(t) = Len(f) - 1 BY <1>2
    <3>2. Len(f) = 1 /\ Len(t) + 1 = 1 BY <2>2, <3>1, <1>1
    <3> QED BY <2>1, <3>2 DEF Inside
  <2>3. CASE Len(t) # 0
    <3>1. t[Len(t)] = f[Len(f)] /\ Len(t) + 1 # 1 /\ Len(t) + 1 - 1 = Len(t) BY <2>3, <1>1, <1>2, <1>3
    <3> QED BY <2>1, <3>1 DEF Inside
  <2> QED BY <2>2, <2>3
<1>9. f[1].op = "close" => t = <<>>
  <2>1. f[1].op = "close" => Len(f) = 1 BY <1>4 DEF WellFramed
  <2> QED BY <2>1, <1>1, <1>2, EmptySeq
<1>10. FlowInOrder(t)
  <2> SUFFICES ASSUME NEW i \in DOMAIN t, NEW j \in DOMAIN t, i < j, t[i].of # NoPush, t[j].of # NoPush
               PROVE  t[i].of < t[j].of
    BY DEF FlowInOrder
  <2>1. i + 1 < j + 1 BY <1>1, <1>3
  <2> QED BY <2>1, <1>5 DEF FlowInOrder
<1>11. PushesOn(t) \subseteq PushesOn(f) /\ (f[1].of # NoPush => \A n \in PushesOn(t) : f[1].of < n)
  <2>1. PushesOn(t) \subseteq PushesOn(f) BY <1>5 DEF PushesOn
  <2>2. ASSUME f[1].of # NoPush, NEW n \in PushesOn(t) PROVE f[1].of < n
    <3>1. PICK i \in DOMAIN t : t[i].of = n /\ n # NoPush BY DEF PushesOn
    <3>2. i + 1 \in DOMAIN f /\ 1 < i + 1 /\ f[i + 1].of = n BY <3>1, <1>1, <1>3, <1>5
    <3> QED BY <2>2, <3>1, <3>2, <1>4 DEF FlowInOrder
  <2> QED BY <2>1, <2>2
<1>12. PushesOn(f) = (IF f[1].of = NoPush THEN {} ELSE {f[1].of}) \union PushesOn(t)
  <2>1. ASSUME NEW n \in PushesOn(f), n # f[1].of PROVE n \in PushesOn(t)
    <3>1. PICK i \in DOMAIN f : f[i].of = n /\ n # NoPush BY DEF PushesOn
    <3>2. i - 1 \in DOMAIN t /\ i - 1 + 1 = i BY <2>1, <3>1, <1>1, <1>3
    <3>3. t[i - 1] = f[i] BY <3>2, <1>5
    <3> QED BY <3>1, <3>2, <3>3 DEF PushesOn
  <2>2. f[1].of # NoPush => f[1].of \in PushesOn(f) BY <1>4 DEF PushesOn
  <2>3. NoPush \notin PushesOn(f) BY DEF PushesOn
  <2> QED BY <2>1, <2>2, <2>3, <1>11
<1> QED BY <1>2, <1>4, <1>5, <1>7, <1>8, <1>9, <1>10, <1>11, <1>12 DEF t

\* What came is a sequence of pushes.
LEMMA CameIs ==
  ASSUME FrameTypes PROVE InHand \in Seq(Nat) /\ Came \in Seq(Nat) /\ Range(Came) = {Came[i] : i \in DOMAIN Came}
<1>1. InHand \in Seq(Nat) BY DEF InHand, FrameTypes
<1>2. Came \in Seq(Nat) BY <1>1, ConcatProperties DEF Came, FrameTypes
<1> QED BY <1>1, <1>2 DEF Range

\* What came and what is on the frames were pushed already.
LEMMA PushedBefore ==
  ASSUME FrameTypes, NotedInOrder
  PROVE  /\ Len(pushLog) \in Nat /\ DOMAIN pushLog = 1 .. Len(pushLog)
         /\ \A i \in DOMAIN Came : Came[i] \in sent
         /\ PushesOn(frames) \subseteq sent
         /\ \A n \in sent : n \in Nat /\ 1 <= n /\ n <= Len(pushLog)
<1>1. Len(pushLog) \in Nat /\ DOMAIN pushLog = 1 .. Len(pushLog) BY LenProperties DEF FrameTypes
<1>2. \A n \in sent : n \in 1 .. Len(pushLog) BY <1>1 DEF FrameTypes
<1> QED BY <1>1, <1>2, CameIs DEF NotedInOrder

\* A push has a number above all before it, and its frames come after theirs.
LEMMA HostKeepsOrder ==
  ASSUME StreamIInv, NEW what \in Nat, HostPushes(what) PROVE StreamIInv'
<1> DEFINE n == Len(pushLog) + 1
<1>1. /\ FrameTypes /\ Framed /\ Ending /\ NotedInOrder /\ FlowInOrder(frames)
      /\ frames \in Seq(Frame)
  BY DEF StreamIInv, NotedInOrder, FrameTypes, FlowInOrder
<1>2. /\ pushLog' = Append(pushLog, what)
      /\ UNCHANGED <<socket, unfinished, queue, ended, waker, task, hand, noted>>
  BY DEF HostPushes, shared
<1>3. pushLog' \in Seq(Nat) /\ Len(pushLog') = n /\ n \in Nat \ {0} /\ DOMAIN pushLog' = 1 .. n
  <2>1. pushLog' \in Seq(Nat) /\ Len(pushLog') = n /\ Len(pushLog) \in Nat
    BY <1>1, <1>2, AppendProperties, LenProperties DEF FrameTypes
  <2> QED BY <2>1, LenProperties
<1>4. Came' = Came /\ \A m \in sent : m \in 1 .. n - 1
  BY <1>1, <1>2, <1>3, PushedBefore DEF Came, InHand
<1> HIDE DEF n
<1>5. CASE UNCHANGED <<frames, sent>>
  <2>1. FrameTypes' BY <1>1, <1>2, <1>3, <1>4, <1>5 DEF FrameTypes
  <2>2. Framed' /\ Ending' BY <1>1, <1>2, <1>5 DEF Framed, Ending
  <2>3. NotedInOrder' BY <1>1, <1>4, <1>5 DEF NotedInOrder
  <2> QED BY <2>1, <2>2, <2>3 DEF StreamIInv
<1>6. ASSUME socket = "open", NEW message \in {Whole(n), Fragments(n)}, frames' = frames \o message,
             sent' = sent \union {n}
      PROVE  StreamIInv'
  <2>1. /\ message \in Seq(Frame) /\ PushesOn(message) = {n}
        /\ Len(message) \in {1, 3} /\ message[Len(message)].of = n
        /\ \A i \in DOMAIN message : i # Len(message) => message[i].of = NoPush
        /\ WellFramed(message, FALSE) /\ ~Midway(message[Len(message)])
        /\ \A i \in DOMAIN message : message[i].op # "close"
    BY <1>3, MessageIs
  <2>2. \A i \in DOMAIN frames : frames[i].op # "close" BY <1>1, <1>6 DEF Framed
  <2>3. message # <<>> BY <2>1
  <2>4. WellFramed(frames', unfinished) /\ ~Inside(frames', unfinished, Len(frames') + 1)
    <3>1. unfinished \in BOOLEAN /\ WellFramed(frames, unfinished) /\ ~Inside(frames, unfinished, Len(frames) + 1)
      BY <1>1, <1>6 DEF Framed, FrameTypes
    <3> QED BY <1>1, <1>6, <2>1, <2>2, <2>3, <3>1, FramesAppended
  <2>5. /\ Len(frames) \in Nat /\ DOMAIN frames = 1 .. Len(frames) /\ DOMAIN message = 1 .. Len(message)
        /\ frames' \in Seq(Frame) /\ DOMAIN frames' = 1 .. Len(frames) + Len(message)
        /\ \A i \in 1 .. Len(frames) + Len(message) :
             frames'[i] = IF i <= Len(frames) THEN frames[i] ELSE message[i - Len(frames)]
    BY <1>1, <1>6, <2>1, ConcatProperties, LenProperties
  <2>6. ASSUME NEW i \in DOMAIN frames'
        PROVE  \/ i \in DOMAIN frames /\ frames'[i] = frames[i]
               \/ i > Len(frames) /\ i - Len(frames) \in DOMAIN message /\ frames'[i] = message[i - Len(frames)]
    BY <2>1, <2>5
  <2>7. \A i \in DOMAIN frames' : frames'[i].op # "close" BY <2>1, <2>2, <2>6
  <2>8. FrameTypes' BY <1>1, <1>2, <1>3, <1>4, <1>6, <2>5 DEF FrameTypes
  <2>9. Framed' BY <1>2, <1>6, <2>4, <2>7 DEF Framed
  <2>10. Ending' BY <1>1, <1>2, <1>6 DEF Ending
  <2>11. PushesOn(frames') = PushesOn(frames) \union {n} BY <1>1, <1>6, <2>1, PushesOnBoth
  <2>12. FlowInOrder(frames')
    <3> SUFFICES ASSUME NEW i \in DOMAIN frames', NEW j \in DOMAIN frames', i < j,
                        frames'[i].of # NoPush, frames'[j].of # NoPush
                 PROVE  frames'[i].of < frames'[j].of
      BY DEF FlowInOrder
    <3>1. CASE j \in DOMAIN frames /\ frames'[j] = frames[j]
      <4>1. i \in DOMAIN frames /\ frames'[i] = frames[i] BY <3>1, <2>5, <2>6
      <4> QED BY <3>1, <4>1, <1>1 DEF FlowInOrder
    <3>2. CASE j > Len(frames) /\ j - Len(frames) \in DOMAIN message /\ frames'[j] = message[j - Len(frames)]
      <4>1. j - Len(frames) = Len(message) /\ frames'[j].of = n BY <3>2, <2>1
      <4>2. i - Len(frames) # Len(message) BY <4>1, <2>5
      <4>3. i \in DOMAIN frames /\ frames'[i] = frames[i] BY <4>2, <2>1, <2>6
      <4>4. frames[i].of \in sent BY <4>3, <1>1, PushedBefore DEF PushesOn
      <4> QED BY <4>1, <4>3, <4>4, <1>3, <1>4
    <3> QED BY <2>6, <3>1, <3>2
  <2>13. \A i \in DOMAIN Came : Came[i] < n BY <1>1, <1>3, <1>4, PushedBefore
  <2>14. /\ InOrder(Came') /\ Range(Came') \union PushesOn(frames') = sent'
         /\ \A i \in DOMAIN Came', m \in PushesOn(frames') : Came'[i] < m
    BY <1>1, <1>4, <1>6, <2>11, <2>13 DEF NotedInOrder, InOrder
  <2>15. NotedInOrder' BY <2>12, <2>14 DEF NotedInOrder, FlowInOrder
  <2> QED BY <2>8, <2>9, <2>10, <2>15 DEF StreamIInv
<1>7. \/ UNCHANGED <<frames, sent>>
      \/ /\ socket = "open" /\ sent' = sent \union {n}
         /\ \E message \in {Whole(n), Fragments(n)} : frames' = frames \o message
  BY DEF HostPushes, n
<1> QED BY <1>5, <1>6, <1>7

\* What a socket's end cuts off had not come.
LEMMA SocketKeepsOrder ==
  ASSUME StreamIInv, SocketEnds PROVE StreamIInv'
<1>1. /\ FrameTypes /\ Framed /\ Ending /\ NotedInOrder /\ FlowInOrder(frames)
      /\ frames \in Seq(Frame) /\ unfinished \in BOOLEAN /\ WellFramed(frames, unfinished)
  BY DEF StreamIInv, NotedInOrder, FrameTypes, FlowInOrder, Framed
<1>2. /\ UNCHANGED <<pushLog, unfinished, queue, ended, waker, task, hand, noted>>
      /\ socket = "open" /\ socket' = "broken"
  BY DEF SocketEnds, shared
<1>3. PICK n \in 0 .. Len(frames) :
        /\ frames' = Append(SubSeq(frames, 1, n), CloseFrame)
        /\ sent' = sent \ PushesOn(SubSeq(frames, n + 1, Len(frames)))
  BY DEF SocketEnds
<1> DEFINE cut == PushesOn(SubSeq(frames, n + 1, Len(frames)))
<1>4. /\ frames' \in Seq(Frame) /\ WellFramed(frames', unfinished) /\ FlowInOrder(frames')
      /\ PushesOn(frames') = PushesOn(frames) \ cut /\ cut \subseteq PushesOn(frames)
  <2>1. \A i \in DOMAIN frames : frames[i].op # "close" BY <1>1, <1>2 DEF Framed
  <2> QED BY <1>1, <1>3, <2>1, FramesCut
<1>5. Came' = Came BY <1>2 DEF Came, InHand
<1> HIDE DEF cut
<1>6. FrameTypes' BY <1>1, <1>2, <1>3, <1>4 DEF FrameTypes
<1>7. Framed' /\ Ending' BY <1>1, <1>2, <1>4 DEF Framed, Ending
<1>8. Range(Came) \intersect cut = {}
  <2>1. \A i \in DOMAIN Came : Came[i] \in Nat BY <1>1, PushedBefore
  <2>2. \A i \in DOMAIN Came : Came[i] \notin PushesOn(frames) BY <1>1, <2>1 DEF NotedInOrder
  <2> QED BY <1>1, <1>4, <2>2, CameIs
<1>9. NotedInOrder' BY <1>1, <1>3, <1>4, <1>5, <1>8 DEF NotedInOrder, FlowInOrder, cut
<1> QED BY <1>6, <1>7, <1>9 DEF StreamIInv

\* A hand-over wakes a task that waits, and leaves any other as it was.
LEMMA WokenIs ==
  ASSUME Ending, task # "down", waker \in BOOLEAN
  PROVE  /\ Woken # "down" /\ (Woken = "noting" <=> task = "noting")
         /\ Woken \in {task, "polling"} /\ (~waker => Woken = task)
  BY DEF Ending, Woken

\* What the thread reads leaves the frames, and joins the queue if it is a push.
LEMMA ThreadKeepsOrder ==
  ASSUME StreamIInv, ThreadReads PROVE StreamIInv'
<1> DEFINE frame == frames[1]
<1>1. /\ FrameTypes /\ Framed /\ Ending /\ NotedInOrder /\ FlowInOrder(frames)
      /\ frames \in Seq(Frame) /\ unfinished \in BOOLEAN /\ WellFramed(frames, unfinished)
  BY DEF StreamIInv, NotedInOrder, FrameTypes, FlowInOrder, Framed
<1>2. /\ UNCHANGED <<pushLog, socket, hand, noted, sent>>
      /\ frames # <<>> /\ ~ended /\ frames' = Tail(frames)
  BY DEF ThreadReads
<1>3. /\ frame \in Frame /\ Head(frames) = frame /\ Tail(frames) \in Seq(Frame) /\ 1 \in DOMAIN frames
      /\ frame.op # "close" => WellFramed(Tail(frames), Midway(frame))
      /\ Inside(Tail(frames), Midway(frame), Len(Tail(frames)) + 1) = Inside(frames, unfinished, Len(frames) + 1)
      /\ frame.op = "close" => Tail(frames) = <<>>
      /\ FlowInOrder(Tail(frames))
      /\ PushesOn(frames) = (IF frame.of = NoPush THEN {} ELSE {frame.of}) \union PushesOn(Tail(frames))
      /\ frame.of # NoPush => \A n \in PushesOn(Tail(frames)) : frame.of < n
      /\ \A i \in DOMAIN Tail(frames) : i + 1 \in DOMAIN frames /\ Tail(frames)[i] = frames[i + 1]
  BY <1>1, <1>2, FramesTail
<1>4. /\ frame.op = "text" => ~unfinished
      /\ frame.op \in {"ping", "continuation"} => unfinished
      /\ frame.op = "continuation" => frame.last
      /\ frame.of # NoPush <=> (frame.op \in {"text", "continuation"} /\ frame.last)
      /\ frame.op = "close" => socket # "open"
  BY <1>1, <1>3 DEF WellFramed, Inside, Framed
<1>5. frame.op \in {"text", "ping", "continuation", "close"} /\ frame.last \in BOOLEAN /\ frame.of \in Nat
  BY <1>3 DEF Frame
<1>6. task # "down" /\ waker \in BOOLEAN BY <1>1, <1>2 DEF Ending, FrameTypes
<1> HIDE DEF frame
<1>7. \/ /\ frame.op = "close" /\ HandOver(<<>>, TRUE) /\ UNCHANGED unfinished
      \/ /\ frame.op \in {"text", "continuation"} /\ frame.last
         /\ HandOver(<<frame.of>>, FALSE) /\ unfinished' = FALSE
      \/ /\ frame.op = "ping" \/ (frame.op = "text" /\ ~frame.last)
         /\ unfinished' = TRUE /\ UNCHANGED <<queue, ended, waker, task>>
  <2>1. CASE frame.op = "close" BY <2>1, <1>3 DEF ThreadReads
  <2>2. CASE frame.op \in {"text", "continuation"} /\ frame.last
    <3>1. EndsMessage(frame) BY <2>2 DEF EndsMessage
    <3>2. frame.of # NoPush BY <2>2, <1>4
    <3> QED BY <2>2, <3>1, <3>2, <1>1, <1>3, <1>4 DEF ThreadReads
  <2>3. CASE frame.op = "ping" \/ (frame.op = "text" /\ ~frame.last)
    <3>1. ~EndsMessage(frame) BY <2>3 DEF EndsMessage
    <3> QED BY <2>3, <3>1, <1>1, <1>3, <1>4 DEF ThreadReads, shared
  <2> QED BY <2>1, <2>2, <2>3, <1>4, <1>5
<1>8. CASE frame.op = "close" /\ HandOver(<<>>, TRUE) /\ UNCHANGED unfinished
  <2>1. queue' = queue /\ ended' = TRUE /\ waker' = FALSE /\ task' = Woken
    BY <1>1, <1>8, ConcatEmptySeq DEF HandOver, FrameTypes
  <2>2. frames' = <<>> /\ socket # "open" /\ frame.of = NoPush BY <1>2, <1>3, <1>4, <1>8
  <2>3. FrameTypes' BY <1>1, <1>2, <1>3, <1>8, <2>1 DEF FrameTypes
  <2>4. Framed' BY <1>2, <2>2 DEF Framed, WellFramed
  <2>5. Ending' BY <1>1, <1>2, <1>6, <2>1, <2>2, WokenIs DEF Ending
  <2>6. PushesOn(frames') = PushesOn(frames) /\ Came' = Came
    BY <1>2, <1>3, <2>1, <2>2 DEF Came, InHand
  <2>7. NotedInOrder' BY <1>1, <1>2, <1>3, <2>6 DEF NotedInOrder, FlowInOrder
  <2> QED BY <2>3, <2>4, <2>5, <2>7 DEF StreamIInv
<1>9. ASSUME unfinished' = Midway(frame), frame.op # "close" PROVE Framed'
  <2>1. WellFramed(frames', unfinished') BY <1>2, <1>3, <1>9
  <2>2. \A i \in DOMAIN frames' : frames'[i].op = "close" => socket' # "open" BY <1>1, <1>2, <1>3 DEF Framed
  <2>3. socket' = "open" => ~Inside(frames', unfinished', Len(frames') + 1)
    BY <1>1, <1>2, <1>3, <1>9 DEF Framed
  <2> QED BY <2>1, <2>2, <2>3 DEF Framed
<1>10. CASE /\ frame.op \in {"text", "continuation"} /\ frame.last
            /\ HandOver(<<frame.of>>, FALSE) /\ unfinished' = FALSE
  <2>1. queue' = queue \o <<frame.of>> /\ ended' = FALSE /\ waker' = FALSE /\ task' = Woken
    BY <1>1, <1>2, <1>10 DEF HandOver, FrameTypes
  <2>2. frame.of \in Nat /\ frame.of # NoPush /\ <<frame.of>> \in Seq(Nat) BY <1>4, <1>5, <1>10
  <2>3. queue' \in Seq(Nat) BY <1>1, <2>1, <2>2, ConcatProperties DEF FrameTypes
  <2>4. FrameTypes' BY <1>1, <1>2, <1>3, <1>10, <2>1, <2>3 DEF FrameTypes
  <2>5. Framed'
    <3>1. Midway(frame) = FALSE BY <1>10 DEF Midway
    <3> QED BY <1>9, <1>10, <3>1
  <2>6. Ending' BY <1>1, <1>2, <1>6, <2>1, WokenIs DEF Ending
  <2>7. Came' = Came \o <<frame.of>>
    <3>1. InHand \in Seq(Nat) /\ noted \o InHand \in Seq(Nat)
      BY <1>1, CameIs, ConcatProperties DEF FrameTypes
    <3>2. (noted \o InHand) \o (queue \o <<frame.of>>) = ((noted \o InHand) \o queue) \o <<frame.of>>
      BY <1>1, <2>2, <3>1, ConcatAssociative DEF FrameTypes
    <3> QED BY <1>2, <2>1, <3>2 DEF Came, InHand
  <2>8. /\ Len(Came) \in Nat /\ DOMAIN Came = 1 .. Len(Came) /\ DOMAIN Came' = 1 .. Len(Came) + 1
        /\ \A i \in DOMAIN Came : Came'[i] = Came[i] /\ Came[i] \in Nat
        /\ Came'[Len(Came) + 1] = frame.of /\ Came' \in Seq(Nat)
    <3>1. Came \in Seq(Nat) BY <1>1, CameIs
    <3>2. /\ Len(Came) \in Nat /\ DOMAIN Came = 1 .. Len(Came)
          /\ \A i \in 1 .. Len(Came) : Came[i] \in Nat
      BY <3>1, LenProperties, ElementOfSeq
    <3>3. Len(<<frame.of>>) = 1 /\ <<frame.of>>[1] = frame.of OBVIOUS
    <3>4. /\ Came' \in Seq(Nat) /\ Len(Came') = Len(Came) + 1
          /\ \A i \in 1 .. Len(Came) + 1 : Came'[i] = IF i <= Len(Came) THEN Came[i] ELSE <<frame.of>>[i - Len(Came)]
      BY <2>2, <2>7, <3>1, <3>3, ConcatProperties
    <3>5. DOMAIN Came' = 1 .. Len(Came) + 1 BY <3>4, LenProperties
    <3>6. Came'[Len(Came) + 1] = frame.of BY <3>2, <3>3, <3>4
    <3> QED BY <3>2, <3>4, <3>5, <3>6
  <2>9. \A i \in DOMAIN Came : Came[i] < frame.of BY <1>1, <1>3, <2>2 DEF NotedInOrder
  <2>10. InOrder(Came')
    <3> SUFFICES ASSUME NEW i \in DOMAIN Came', NEW j \in DOMAIN Came', i < j PROVE Came'[i] < Came'[j]
      BY DEF InOrder
    <3>1. i \in DOMAIN Came BY <2>8
    <3>2. CASE j = Len(Came) + 1 BY <3>1, <3>2, <2>8, <2>9
    <3>3. CASE j # Len(Came) + 1
      <4>1. j \in DOMAIN Came BY <3>3, <2>8
      <4> QED BY <3>1, <4>1, <2>8, <1>1 DEF NotedInOrder, InOrder
    <3> QED BY <3>2, <3>3
  <2>11. Range(Came') = Range(Came) \union {frame.of}
    <3>1. Len(Came) + 1 \in DOMAIN Came' /\ DOMAIN Came \subseteq DOMAIN Came' BY <2>8
    <3>2. Range(Came') \subseteq Range(Came) \union {frame.of} BY <2>8 DEF Range
    <3>3. Range(Came) \subseteq Range(Came') BY <2>8, <3>1 DEF Range
    <3>4. frame.of \in Range(Came') BY <2>8, <3>1 DEF Range
    <3> QED BY <3>2, <3>3, <3>4
  <2>12. \A i \in DOMAIN Came', n \in PushesOn(frames') : Came'[i] < n
    <3> SUFFICES ASSUME NEW i \in DOMAIN Came', NEW n \in PushesOn(frames') PROVE Came'[i] < n OBVIOUS
    <3>1. n \in PushesOn(frames) /\ frame.of < n BY <1>2, <1>3, <2>2
    <3>2. CASE i = Len(Came) + 1 BY <3>1, <3>2, <2>8
    <3>3. CASE i # Len(Came) + 1
      <4>1. i \in DOMAIN Came BY <3>3, <2>8
      <4> QED BY <3>1, <4>1, <2>8, <1>1 DEF NotedInOrder
    <3> QED BY <3>2, <3>3
  <2>13. Range(Came') \union PushesOn(frames') = sent' BY <1>1, <1>2, <1>3, <2>2, <2>11 DEF NotedInOrder
  <2>14. NotedInOrder' BY <1>2, <1>3, <2>10, <2>12, <2>13 DEF NotedInOrder, FlowInOrder
  <2> QED BY <2>4, <2>5, <2>6, <2>14 DEF StreamIInv
<1>11. CASE /\ frame.op = "ping" \/ (frame.op = "text" /\ ~frame.last)
            /\ unfinished' = TRUE /\ UNCHANGED <<queue, ended, waker, task>>
  <2>1. frame.of = NoPush /\ Midway(frame) = TRUE /\ frame.op # "close" BY <1>4, <1>11 DEF Midway
  <2>2. FrameTypes' BY <1>1, <1>2, <1>3, <1>11 DEF FrameTypes
  <2>3. Framed' BY <1>9, <1>11, <2>1
  <2>4. Ending' BY <1>1, <1>2, <1>6, <1>11 DEF Ending
  <2>5. PushesOn(frames') = PushesOn(frames) /\ Came' = Came
    BY <1>2, <1>3, <1>11, <2>1 DEF Came, InHand
  <2>6. NotedInOrder' BY <1>1, <1>2, <1>3, <2>5 DEF NotedInOrder, FlowInOrder
  <2> QED BY <2>2, <2>3, <2>4, <2>6 DEF StreamIInv
<1> QED BY <1>7, <1>8, <1>10, <1>11

\* The task takes the queue's first and notes it before it takes another.
LEMMA TaskKeepsOrder ==
  ASSUME StreamIInv, TaskActs PROVE StreamIInv'
<1>1. /\ FrameTypes /\ Framed /\ Ending /\ NotedInOrder
      /\ noted \in Seq(Nat) /\ queue \in Seq(Nat) /\ hand \in Nat
  BY DEF StreamIInv, FrameTypes
<1>2. CASE TaskConnects
  <2>1. frames' = <<>> /\ frames = <<>> /\ queue' = <<>> /\ queue = <<>> /\ hand' = hand /\ noted' = noted
    BY <1>1, <1>2 DEF TaskConnects, Ending
  <2>2. FrameTypes' BY <1>1, <1>2, <2>1 DEF TaskConnects, FrameTypes
  <2>3. Framed' BY <1>2, <2>1 DEF TaskConnects, Framed, WellFramed, Inside
  <2>4. Ending' BY <1>1, <1>2 DEF TaskConnects, Ending
  <2>5. NotedInOrder' BY <1>1, <1>2, <2>1 DEF TaskConnects, NotedInOrder, Came, InHand
  <2> QED BY <2>2, <2>3, <2>4, <2>5 DEF StreamIInv
<1>3. CASE TaskIsRefused
  BY <1>1, <1>3 DEF TaskIsRefused, host, shared, StreamIInv, FrameTypes, Framed, Ending, NotedInOrder,
       Came, InHand
<1>4. CASE TaskOpens
  BY <1>1, <1>4 DEF TaskOpens, host, shared, StreamIInv, FrameTypes, Framed, Ending, NotedInOrder, Came,
       InHand
<1>5. CASE TaskTakes
  <2>1. /\ hand = NoPush /\ hand' = Head(queue) /\ queue' = Tail(queue) /\ queue # <<>> /\ task' = "noting"
        /\ UNCHANGED <<pushLog, frames, socket, unfinished, ended, waker, sent, noted>> /\ task = "polling"
    BY <1>1, <1>5 DEF TaskTakes, Ending, host
  <2>2. /\ hand' \in Nat /\ queue' \in Seq(Nat) /\ queue = <<hand'>> \o queue'
    <3>1. /\ hand' \in Nat /\ queue' \in Seq(Nat) /\ Len(queue') = Len(queue) - 1
          /\ \A i \in 1 .. Len(queue') : queue'[i] = queue[i + 1]
      BY <1>1, <2>1, HeadTailProperties
    <3>2. Len(queue) \in Nat \ {0} /\ queue[1] = hand' BY <1>1, <2>1, EmptySeq
    <3>3. <<hand'>> \in Seq(Nat) /\ Len(<<hand'>>) = 1 /\ <<hand'>>[1] = hand' BY <3>1
    <3>4. /\ <<hand'>> \o queue' \in Seq(Nat) /\ Len(<<hand'>> \o queue') = Len(queue)
          /\ \A i \in 1 .. Len(queue) : (<<hand'>> \o queue')[i] = IF i <= 1 THEN <<hand'>>[i] ELSE queue'[i - 1]
      BY <3>1, <3>2, <3>3, ConcatProperties
    <3>5. ASSUME NEW i \in 1 .. Len(queue) PROVE queue[i] = (<<hand'>> \o queue')[i]
      <4>1. CASE i = 1 BY <3>2, <3>3, <3>4, <4>1
      <4>2. CASE i # 1
        <5>1. i - 1 \in 1 .. Len(queue') /\ ~(i <= 1) /\ i - 1 + 1 = i BY <4>2, <3>1, <3>2
        <5> QED BY <3>1, <3>4, <5>1
      <4> QED BY <4>1, <4>2
    <3> QED BY <1>1, <3>1, <3>4, <3>5, SeqEqual
  <2>3. hand' # NoPush
    <3>1. DOMAIN queue = 1 .. Len(queue) /\ Len(queue) \in Nat \ {0} /\ queue[1] = hand'
      BY <1>1, <2>1, EmptySeq, LenProperties
    <3>2. InHand = <<>> /\ noted \o <<>> = noted BY <1>1, <2>1, ConcatEmptySeq DEF InHand
    <3>3. Came = noted \o queue BY <3>2 DEF Came
    <3>4. /\ Len(Came) = Len(noted) + Len(queue) /\ Len(noted) \in Nat /\ Came \in Seq(Nat)
          /\ \A i \in 1 .. Len(noted) + Len(queue) :
               Came[i] = IF i <= Len(noted) THEN noted[i] ELSE queue[i - Len(noted)]
      BY <1>1, <3>3, ConcatProperties, LenProperties
    <3>5. Len(noted) + 1 \in 1 .. Len(Came) /\ ~(Len(noted) + 1 <= Len(noted)) /\ Len(noted) + 1 - Len(noted) = 1
      BY <3>1, <3>4
    <3>6. DOMAIN Came = 1 .. Len(Came) /\ Came[Len(noted) + 1] = hand' BY <3>1, <3>4, <3>5, LenProperties
    <3> QED BY <1>1, <3>5, <3>6, PushedBefore DEF NoPush
  <2>4. Came' = Came
    <3>1. InHand = <<>> /\ InHand' = <<hand'>> /\ noted \o <<>> = noted
      BY <1>1, <2>1, <2>3, ConcatEmptySeq DEF InHand
    <3>2. <<hand'>> \in Seq(Nat) BY <2>2
    <3>3. (noted \o <<hand'>>) \o queue' = noted \o (<<hand'>> \o queue') BY <1>1, <2>2, <3>2, ConcatAssociative
    <3> QED BY <2>1, <2>2, <3>1, <3>3 DEF Came
  <2>5. FrameTypes' BY <1>1, <2>1, <2>2 DEF FrameTypes
  <2>6. Framed' /\ Ending' BY <1>1, <2>1, <2>3 DEF Framed, Ending
  <2>7. NotedInOrder' BY <1>1, <2>1, <2>4 DEF NotedInOrder
  <2> QED BY <2>5, <2>6, <2>7 DEF StreamIInv
<1>6. CASE TaskParks
  BY <1>1, <1>6 DEF TaskParks, host, StreamIInv, FrameTypes, Framed, Ending, NotedInOrder, Came, InHand
<1>7. CASE TaskNotes
  <2>1. /\ hand # NoPush /\ hand' = NoPush /\ noted' = Append(noted, hand) /\ task = "noting" /\ task' = "polling"
        /\ UNCHANGED <<pushLog, frames, socket, unfinished, queue, ended, waker, sent>>
    BY <1>1, <1>7 DEF TaskNotes, Ending, host, shared
  <2>2. noted' \in Seq(Nat) /\ noted' = noted \o <<hand>> BY <1>1, <2>1, AppendProperties, AppendIsConcat
  <2>3. Came' = Came
    <3>1. InHand = <<hand>> /\ InHand' = <<>> /\ noted' \o <<>> = noted'
      BY <2>1, <2>2, ConcatEmptySeq DEF InHand
    <3> QED BY <2>1, <2>2, <3>1 DEF Came
  <2>4. FrameTypes' BY <1>1, <2>1, <2>2 DEF FrameTypes, NoPush
  <2>5. Framed' /\ Ending' BY <1>1, <2>1 DEF Framed, Ending
  <2>6. NotedInOrder' BY <1>1, <2>1, <2>3 DEF NotedInOrder
  <2> QED BY <2>4, <2>5, <2>6 DEF StreamIInv
<1>8. CASE TaskDrops
  <2>1. frames = <<>> /\ queue = <<>> BY <1>1, <1>8 DEF TaskDrops, Over, Ending
  <2>2. FrameTypes' /\ Framed' BY <1>1, <1>8, <2>1 DEF TaskDrops, shared, FrameTypes, Framed
  <2>3. Ending' BY <1>1, <1>8, <2>1 DEF TaskDrops, shared, Ending
  <2>4. NotedInOrder' BY <1>1, <1>8 DEF TaskDrops, shared, NotedInOrder, Came, InHand
  <2> QED BY <2>2, <2>3, <2>4 DEF StreamIInv
<1> QED BY <1>2, <1>3, <1>4, <1>5, <1>6, <1>7, <1>8 DEF TaskActs

-----------------------------------------------------------------------------
(* The replies, in the order of their commands *)

Unnoted == sent \ Range(noted)
ReplyTypes == replied \in Nat /\ commands \in Nat /\ lines \in Seq(Nat) /\ answers \in Seq(Nat)
\* The printer replies in the order of the commands, to none twice.
RepliesInOrder ==
  /\ replied <= commands
  /\ \A n \in DOMAIN pushLog : pushLog[n] <= replied
  /\ \A m, n \in DOMAIN pushLog : m < n /\ pushLog[n] # ResetPush => pushLog[m] < pushLog[n]
OlderIn(reply, pushes, log) == \A n \in pushes : log[n] # ResetPush => reply < log[n]
Older(reply) == OlderIn(reply, Unnoted, pushLog)
\* A reply that is kept, or was answered with, is older than any not yet noted.
LinesInOrder ==
  /\ InOrder(lines)
  /\ \A k \in DOMAIN lines : 0 < lines[k] /\ lines[k] <= replied /\ Older(lines[k])
AnswersInOrder ==
  /\ InOrder(answers)
  /\ \A k \in DOMAIN answers :
       /\ answers[k] <= replied /\ Older(answers[k])
       /\ \A l \in DOMAIN lines : answers[k] < lines[l]
\* With no command given up on, each was answered its own reply.
Counted(n) == Len(answers) = n /\ \A i \in 1 .. n : answers[i] = i
EachItsOwn ==
  ~givenUp => IF probe = "waiting" THEN commands > 0 /\ Counted(commands - 1) ELSE Counted(commands)
RepliesIInv == ReplyTypes /\ RepliesInOrder /\ LinesInOrder /\ AnswersInOrder /\ EachItsOwn

\* What is noted is the first of what was not.
LEMMA NotedNext ==
  ASSUME StreamIInv, hand # NoPush
  PROVE  hand \in Unnoted /\ \A n \in Unnoted : n = hand \/ hand < n
<1>1. /\ FrameTypes /\ NotedInOrder /\ noted \in Seq(Nat) /\ hand \in Nat /\ queue \in Seq(Nat)
  BY DEF StreamIInv, FrameTypes
<1>2. InHand = <<hand>> /\ <<hand>> \in Seq(Nat) /\ Len(<<hand>>) = 1 /\ <<hand>>[1] = hand
  BY <1>1 DEF InHand
<1>3. /\ noted \o InHand \in Seq(Nat) /\ Len(noted \o InHand) = Len(noted) + 1 /\ Len(noted) \in Nat
      /\ \A i \in 1 .. Len(noted) + 1 :
           (noted \o InHand)[i] = IF i <= Len(noted) THEN noted[i] ELSE <<hand>>[i - Len(noted)]
  BY <1>1, <1>2, ConcatProperties, LenProperties
<1>4. (noted \o InHand)[Len(noted) + 1] = hand BY <1>2, <1>3
<1>5. /\ Len(Came) = Len(noted) + 1 + Len(queue) /\ Came \in Seq(Nat) /\ Len(queue) \in Nat
      /\ \A i \in 1 .. Len(noted) + 1 : Came[i] = (noted \o InHand)[i]
  <2> DEFINE all == noted \o InHand
  <2>0. all \in Seq(Nat) /\ Len(all) \in Nat BY <1>3
  <2> HIDE DEF all
  <2>1. /\ Len(all \o queue) = Len(all) + Len(queue) /\ all \o queue \in Seq(Nat) /\ Len(queue) \in Nat
        /\ \A i \in 1 .. Len(all) + Len(queue) :
             (all \o queue)[i] = IF i <= Len(all) THEN all[i] ELSE queue[i - Len(all)]
    BY <1>1, <2>0, ConcatProperties, LenProperties
  <2>2. Came = all \o queue /\ Len(all) = Len(noted) + 1 BY <1>3 DEF Came, all
  <2>3. Len(Came) = Len(noted) + 1 + Len(queue) BY <2>1, <2>2
  <2>4. ASSUME NEW i \in 1 .. Len(noted) + 1 PROVE Came[i] = all[i]
    <3>1. i \in 1 .. Len(all) + Len(queue) /\ i <= Len(all) BY <1>3, <2>1, <2>2
    <3> QED BY <2>1, <2>2, <3>1
  <2> QED BY <2>1, <2>2, <2>3, <2>4 DEF all
<1>6. DOMAIN Came = 1 .. Len(noted) + 1 + Len(queue) /\ DOMAIN noted = 1 .. Len(noted)
  BY <1>1, <1>5, LenProperties
<1>7. /\ Len(noted) + 1 \in DOMAIN Came /\ Came[Len(noted) + 1] = hand
      /\ \A i \in DOMAIN noted : i \in DOMAIN Came /\ Came[i] = noted[i] /\ i < Len(noted) + 1
  <2>1. Len(noted) + 1 \in DOMAIN Came /\ Len(noted) + 1 \in 1 .. Len(noted) + 1 BY <1>3, <1>5, <1>6
  <2>2. Came[Len(noted) + 1] = hand BY <1>4, <1>5, <2>1
  <2>3. ASSUME NEW i \in DOMAIN noted
        PROVE  i \in DOMAIN Came /\ Came[i] = noted[i] /\ i < Len(noted) + 1
    <3>1. i \in 1 .. Len(noted) + 1 /\ i <= Len(noted) /\ i \in DOMAIN Came BY <1>3, <1>5, <1>6
    <3>2. Came[i] = (noted \o InHand)[i] BY <1>5, <3>1
    <3>3. (noted \o InHand)[i] = noted[i] BY <1>3, <3>1
    <3> QED BY <3>1, <3>2, <3>3, <1>3
  <2> QED BY <2>1, <2>2, <2>3
<1>8. hand \in Unnoted
  <2>1. hand \in sent BY <1>1, <1>7, PushedBefore
  <2>2. \A i \in DOMAIN noted : noted[i] < hand BY <1>1, <1>7 DEF NotedInOrder, InOrder
  <2>3. \A i \in DOMAIN noted : noted[i] # hand BY <1>1, <2>2
  <2> QED BY <2>1, <2>3 DEF Unnoted, Range
<1>9. ASSUME NEW n \in Unnoted, n # hand PROVE hand < n
  <2>1. n \in Range(Came) \union PushesOn(frames) /\ n \notin Range(noted) BY <1>1, <1>9 DEF NotedInOrder,
       Unnoted
  <2>2. CASE n \in PushesOn(frames) BY <2>2, <1>1, <1>7 DEF NotedInOrder
  <2>3. CASE n \in Range(Came)
    <3>1. PICK i \in DOMAIN Came : Came[i] = n BY <2>3 DEF Range
    <3>2. i \notin DOMAIN noted BY <2>1, <3>1, <1>7 DEF Range
    <3>3. i # Len(noted) + 1 BY <3>1, <1>7, <1>9
    <3>4. Len(noted) + 1 < i BY <3>2, <3>3, <1>3, <1>5, <1>6
    <3> QED BY <3>1, <3>4, <1>1, <1>7 DEF NotedInOrder, InOrder
  <2> QED BY <2>1, <2>2, <2>3
<1> QED BY <1>8, <1>9

\* A step that only notes or loses pushes leaves the replies as they were.
LEMMA UnnotedShrinks ==
  ASSUME RepliesIInv, Unnoted' \subseteq Unnoted,
         UNCHANGED <<pushLog, replied, commands, lines, answers, probe, givenUp>>
  PROVE  RepliesIInv'
  BY DEF RepliesIInv, ReplyTypes, RepliesInOrder, LinesInOrder, AnswersInOrder, Older, OlderIn, InOrder,
         EachItsOwn, Counted

\* What the printer replies now is newer than what it replied before.
LEMMA HostKeepsReplies ==
  ASSUME StreamIInv, RepliesIInv, HostResets \/ HostReplies PROVE RepliesIInv'
<1> DEFINE n == Len(pushLog) + 1
<1>1. /\ FrameTypes /\ NotedInOrder /\ ReplyTypes /\ RepliesInOrder /\ LinesInOrder /\ AnswersInOrder /\ EachItsOwn
  BY DEF StreamIInv, RepliesIInv
<1>2. PICK what \in Nat :
        /\ HostPushes(what) /\ (what # ResetPush => what = replied + 1)
        /\ \/ what = ResetPush /\ replied' = replied
           \/ what = replied + 1 /\ replied' = replied + 1 /\ replied < commands
  <2>1. CASE HostResets BY <2>1 DEF HostResets, ResetPush
  <2>2. CASE HostReplies
    <3>1. replied' = replied + 1 /\ replied + 1 \in Nat BY <2>2, <1>1 DEF HostReplies, ReplyTypes
    <3> QED BY <2>2, <3>1 DEF HostReplies
  <2> QED BY <2>1, <2>2
<1>3. /\ pushLog' = Append(pushLog, what) /\ sent' \subseteq sent \union {n}
      /\ UNCHANGED <<noted, commands, lines, answers, probe, givenUp>>
  BY <1>2 DEF HostPushes, probing
<1>4. /\ Len(pushLog) \in Nat /\ DOMAIN pushLog = 1 .. Len(pushLog) /\ DOMAIN pushLog' = 1 .. n
      /\ \A i \in DOMAIN pushLog : pushLog'[i] = pushLog[i] /\ pushLog[i] \in Nat
      /\ pushLog'[n] = what
  <2>1. /\ pushLog' \in Seq(Nat) /\ Len(pushLog') = n /\ Len(pushLog) \in Nat /\ DOMAIN pushLog = 1 .. Len(pushLog)
        /\ \A i \in 1 .. Len(pushLog) : pushLog'[i] = pushLog[i] /\ pushLog'[n] = what
        /\ \A i \in 1 .. Len(pushLog) : pushLog[i] \in Nat
        /\ pushLog'[n] = what
    BY <1>1, <1>3, AppendProperties, LenProperties, ElementOfSeq DEF FrameTypes
  <2> QED BY <2>1, LenProperties
<1>5. Unnoted' \subseteq Unnoted \union {n} /\ Unnoted \subseteq DOMAIN pushLog
  BY <1>1, <1>3 DEF Unnoted, FrameTypes
<1> HIDE DEF n
<1>6. replied \in Nat /\ replied' \in Nat /\ replied <= replied' /\ replied' <= commands
      /\ (what # ResetPush => what > replied /\ what <= replied')
  BY <1>1, <1>2 DEF ReplyTypes, RepliesInOrder, ResetPush
<1>7. n \in Nat /\ n \notin DOMAIN pushLog /\ \A i \in DOMAIN pushLog : i < n
  BY <1>4 DEF n
<1>8. \A i \in DOMAIN pushLog' : i = n \/ i \in DOMAIN pushLog BY <1>4 DEF n
<1>9. RepliesInOrder'
  <2>1. \A i \in DOMAIN pushLog' : pushLog'[i] <= replied'
    <3> SUFFICES ASSUME NEW i \in DOMAIN pushLog' PROVE pushLog'[i] <= replied' OBVIOUS
    <3>1. CASE i = n BY <3>1, <1>2, <1>4, <1>6 DEF ResetPush
    <3>2. CASE i \in DOMAIN pushLog BY <3>2, <1>1, <1>4, <1>6 DEF RepliesInOrder
    <3> QED BY <3>1, <3>2, <1>8
  <2>2. ASSUME NEW i \in DOMAIN pushLog', NEW j \in DOMAIN pushLog', i < j, pushLog'[j] # ResetPush
        PROVE  pushLog'[i] < pushLog'[j]
    <3>1. i \in DOMAIN pushLog BY <2>2, <1>4, <1>7, <1>8 DEF n
    <3>2. CASE j = n
      <4>1. pushLog[i] <= replied BY <3>1, <1>1 DEF RepliesInOrder
      <4> QED BY <2>2, <3>1, <3>2, <4>1, <1>4, <1>6
    <3>3. CASE j \in DOMAIN pushLog BY <2>2, <3>1, <3>3, <1>1, <1>4 DEF RepliesInOrder
    <3> QED BY <3>2, <3>3, <1>8
  <2> QED BY <2>1, <2>2, <1>3, <1>6 DEF RepliesInOrder
<1>10. ASSUME NEW r \in Nat, r <= replied, Older(r) PROVE Older(r)'
  <2> SUFFICES ASSUME NEW m \in Unnoted', pushLog'[m] # ResetPush PROVE r < pushLog'[m]
    BY DEF Older, OlderIn
  <2>1. CASE m = n BY <2>1, <1>4, <1>6, <1>10
  <2>2. CASE m \in Unnoted BY <2>2, <1>4, <1>5, <1>10 DEF Older, OlderIn
  <2> QED BY <2>1, <2>2, <1>5
<1>11. /\ \A k \in DOMAIN lines : lines[k] \in Nat
       /\ \A k \in DOMAIN answers : answers[k] \in Nat
  BY <1>1, LenProperties, ElementOfSeq DEF ReplyTypes
<1>12. LinesInOrder' BY <1>1, <1>3, <1>6, <1>10, <1>11 DEF LinesInOrder, InOrder
<1>13. AnswersInOrder' BY <1>1, <1>3, <1>6, <1>10, <1>11 DEF AnswersInOrder, InOrder
<1>14. ReplyTypes' /\ EachItsOwn' BY <1>1, <1>3, <1>6 DEF ReplyTypes, EachItsOwn, Counted
<1> QED BY <1>9, <1>12, <1>13, <1>14 DEF RepliesIInv

\* A noted reply is newer than the lines kept and older than what is to come.
LEMMA NotingKeepsReplies ==
  ASSUME StreamIInv, RepliesIInv, TaskNotes PROVE RepliesIInv'
<1> DEFINE r == pushLog[hand]
<1>1. /\ FrameTypes /\ Ending /\ ReplyTypes /\ RepliesInOrder /\ LinesInOrder /\ AnswersInOrder /\ EachItsOwn
      /\ noted \in Seq(Nat) /\ hand \in Nat /\ lines \in Seq(Nat) /\ answers \in Seq(Nat) /\ replied \in Nat
  BY DEF StreamIInv, RepliesIInv, FrameTypes, ReplyTypes
<1>2. /\ hand # NoPush /\ noted' = Append(noted, hand)
      /\ lines' = IF r = ResetPush THEN lines ELSE Keep(r)
      /\ UNCHANGED <<pushLog, replied, sent, commands, answers, probe, givenUp>>
  BY <1>1 DEF TaskNotes, Ending, host, probing
<1>3. hand \in Unnoted /\ \A n \in Unnoted : n = hand \/ hand < n BY <1>2, NotedNext
<1>4. Unnoted' = Unnoted \ {hand}
  <2>1. /\ noted' \in Seq(Nat) /\ Len(noted') = Len(noted) + 1 /\ Len(noted) \in Nat
        /\ \A i \in 1 .. Len(noted) : noted'[i] = noted[i]
        /\ noted'[Len(noted) + 1] = hand
    BY <1>1, <1>2, AppendProperties, LenProperties
  <2>2. DOMAIN noted' = 1 .. Len(noted) + 1 /\ DOMAIN noted = 1 .. Len(noted) BY <1>1, <2>1, LenProperties
  <2>3. Range(noted') = Range(noted) \union {hand}
    <3>1. Len(noted) + 1 \in DOMAIN noted' /\ DOMAIN noted \subseteq DOMAIN noted' BY <2>1, <2>2
    <3>2. \A i \in DOMAIN noted' : i \in DOMAIN noted \/ i = Len(noted) + 1 BY <2>1, <2>2
    <3> QED BY <2>1, <2>2, <3>1, <3>2 DEF Range
  <2> QED BY <1>2, <2>3 DEF Unnoted
<1>5. Unnoted \subseteq DOMAIN pushLog /\ \A n \in DOMAIN pushLog : pushLog[n] \in Nat
  BY <1>1, LenProperties, ElementOfSeq DEF Unnoted, FrameTypes
<1>6. \A n : Older(n) => OlderIn(n, Unnoted', pushLog') BY <1>2, <1>4 DEF Older, OlderIn
<1>7. CASE r = ResetPush
  <2>1. Unnoted' \subseteq Unnoted /\ lines' = lines BY <1>2, <1>4, <1>7
  <2> QED BY <1>2, <2>1, UnnotedShrinks
<1>8. CASE r # ResetPush
  <2>1. r \in Nat /\ r > 0 /\ r <= replied BY <1>1, <1>3, <1>5, <1>8 DEF RepliesInOrder, ResetPush
  <2>2. OlderIn(r, Unnoted', pushLog')
    <3> SUFFICES ASSUME NEW n \in Unnoted', pushLog'[n] # ResetPush PROVE r < pushLog'[n]
      BY DEF OlderIn
    <3>1. n \in DOMAIN pushLog /\ hand \in DOMAIN pushLog /\ hand < n BY <1>3, <1>4, <1>5
    <3> QED BY <3>1, <1>1, <1>2 DEF RepliesInOrder
  <2>3. /\ \A k \in DOMAIN lines : lines[k] < r
        /\ \A k \in DOMAIN answers : answers[k] < r
    BY <1>1, <1>3, <1>8 DEF LinesInOrder, AnswersInOrder, Older, OlderIn
  <2> DEFINE all == Append(lines, r)
  <2>4. /\ all \in Seq(Nat) /\ Len(all) = Len(lines) + 1 /\ Len(lines) \in Nat /\ all # <<>>
        /\ DOMAIN lines = 1 .. Len(lines)
        /\ \A i \in 1 .. Len(lines) : all[i] = lines[i] /\ lines[i] \in Nat
        /\ all[Len(lines) + 1] = r
    <3> HIDE DEF r
    <3>1. /\ all \in Seq(Nat) /\ Len(all) = Len(lines) + 1
          /\ \A i \in 1 .. Len(lines) : all[i] = lines[i]
          /\ all[Len(lines) + 1] = r
      BY <1>1, <2>1, AppendProperties
    <3>2. Len(lines) \in Nat /\ DOMAIN lines = 1 .. Len(lines) BY <1>1, LenProperties
    <3>3. \A i \in 1 .. Len(lines) : lines[i] \in Nat BY <1>1, ElementOfSeq
    <3>4. all # <<>> BY <1>1, <2>1, AppendProperties
    <3> HIDE DEF all
    <3> QED BY <3>1, <3>2, <3>3, <3>4
  <2>5. DOMAIN all = 1 .. Len(lines) + 1 BY <2>4, LenProperties
  <2> HIDE DEF r
  <2> HIDE DEF all
  <2>6. \A i \in DOMAIN all : i = Len(lines) + 1 \/ i \in DOMAIN lines BY <2>4, <2>5
  <2>7. InOrder(all)
    <3> SUFFICES ASSUME NEW i \in DOMAIN all, NEW j \in DOMAIN all, i < j PROVE all[i] < all[j] BY DEF InOrder
    <3>1. i \in DOMAIN lines /\ all[i] = lines[i] BY <2>4, <2>5
    <3>2. CASE j = Len(lines) + 1 BY <3>1, <3>2, <2>3, <2>4
    <3>3. CASE j \in DOMAIN lines BY <3>1, <3>3, <2>4, <1>1 DEF LinesInOrder, InOrder
    <3> QED BY <2>6, <3>2, <3>3
  <2>8. \A i \in DOMAIN all : /\ all[i] > 0 /\ all[i] <= replied /\ OlderIn(all[i], Unnoted', pushLog')
                             /\ \A k \in DOMAIN answers : answers[k] < all[i]
    <3> SUFFICES ASSUME NEW i \in DOMAIN all
                 PROVE  /\ all[i] > 0 /\ all[i] <= replied /\ OlderIn(all[i], Unnoted', pushLog')
                        /\ \A k \in DOMAIN answers : answers[k] < all[i]
      OBVIOUS
    <3>1. CASE i = Len(lines) + 1
      <4>1. all[i] = r BY <3>1, <2>4
      <4> QED BY <4>1, <2>1, <2>2, <2>3
    <3>2. CASE i \in DOMAIN lines
      <4>1. all[i] = lines[i] /\ Older(lines[i]) /\ 0 < lines[i] /\ lines[i] <= replied
        BY <3>2, <2>4, <1>1 DEF LinesInOrder
      <4>2. OlderIn(all[i], Unnoted', pushLog') BY <4>1, <1>6
      <4> QED BY <4>1, <4>2, <3>2, <2>4, <1>1 DEF AnswersInOrder
    <3> QED BY <2>6, <3>1, <3>2
  <2>9. PICK gone \in {0, 1} :
          /\ lines' \in Seq(Nat)
          /\ \A k \in DOMAIN lines' : k \in Nat /\ k + gone \in DOMAIN all /\ lines'[k] = all[k + gone]
    <3>1. lines' = Keep(r) /\ Keep(r) = IF Len(all) > KeptLines THEN Tail(all) ELSE all
      BY <1>2, <1>8 DEF Keep, all, r
    <3>2. CASE lines' = all
      <4>1. \A k \in DOMAIN lines' : k \in Nat /\ k + 0 = k BY <2>4, <2>5, <3>2
      <4> QED BY <2>4, <3>2, <4>1
    <3>3. CASE lines' = Tail(all)
      <4>1. /\ lines' \in Seq(Nat) /\ Len(lines') = Len(all) - 1
            /\ \A k \in 1 .. Len(lines') : lines'[k] = all[k + 1]
        BY <2>4, <3>3, HeadTailProperties
      <4>2. DOMAIN lines' = 1 .. Len(lines) BY <2>4, <4>1, LenProperties
      <4>3. \A k \in DOMAIN lines' : k \in Nat /\ k + 1 \in DOMAIN all /\ lines'[k] = all[k + 1]
        BY <2>4, <2>5, <4>1, <4>2
      <4> QED BY <4>1, <4>3
    <3> QED BY <3>1, <3>2, <3>3
  <2>10. InOrder(lines')
    <3> SUFFICES ASSUME NEW i \in DOMAIN lines', NEW j \in DOMAIN lines', i < j PROVE lines'[i] < lines'[j]
      BY DEF InOrder
    <3>1. i + gone < j + gone /\ i + gone \in DOMAIN all /\ j + gone \in DOMAIN all BY <2>9
    <3>2. all[i + gone] < all[j + gone] BY <2>7, <3>1 DEF InOrder
    <3> QED BY <2>9, <3>2
  <2>11. LinesInOrder'
    <3> SUFFICES ASSUME NEW k \in DOMAIN lines'
                 PROVE  0 < lines'[k] /\ lines'[k] <= replied /\ OlderIn(lines'[k], Unnoted', pushLog')
      BY <1>2, <2>10 DEF LinesInOrder, Older, InOrder
    <3>1. k + gone \in DOMAIN all /\ lines'[k] = all[k + gone] BY <2>9
    <3> QED BY <2>8, <3>1
  <2>12. \A k \in DOMAIN answers, l \in DOMAIN lines' : answers[k] < lines'[l]
    <3> SUFFICES ASSUME NEW k \in DOMAIN answers, NEW l \in DOMAIN lines' PROVE answers[k] < lines'[l] OBVIOUS
    <3>1. l + gone \in DOMAIN all /\ lines'[l] = all[l + gone] BY <2>9
    <3> QED BY <2>8, <3>1
  <2>13. AnswersInOrder' BY <1>1, <1>2, <1>6, <2>12 DEF AnswersInOrder, Older, InOrder
  <2>14. ReplyTypes' /\ RepliesInOrder' BY <1>1, <1>2, <2>9 DEF ReplyTypes, RepliesInOrder
  <2>15. EachItsOwn' BY <1>1, <1>2 DEF EachItsOwn, Counted
  <2> QED BY <2>11, <2>13, <2>14, <2>15 DEF RepliesIInv
<1> QED BY <1>7, <1>8

\* A probe takes the lines before it sends, and the first line after as its answer.
LEMMA ProbeKeepsReplies ==
  ASSUME StreamIInv, RepliesIInv, ProbeLooks \/ ProbeTakes \/ ProbeSends \/ ProbeFinds \/ ProbeGivesUp
  PROVE  RepliesIInv'
<1>1. /\ ReplyTypes /\ RepliesInOrder /\ LinesInOrder /\ AnswersInOrder /\ EachItsOwn
      /\ lines \in Seq(Nat) /\ answers \in Seq(Nat) /\ replied \in Nat /\ commands \in Nat
  BY DEF RepliesIInv, ReplyTypes
<1>2. UNCHANGED <<pushLog, replied, sent, noted>>
  BY DEF ProbeLooks, ProbeTakes, ProbeSends, ProbeFinds, ProbeGivesUp, passing, host
<1>3. Unnoted' = Unnoted BY <1>2 DEF Unnoted
<1>4. CASE ProbeLooks
  BY <1>1, <1>2, <1>3, <1>4 DEF ProbeLooks, RepliesIInv, ReplyTypes, RepliesInOrder, LinesInOrder,
       AnswersInOrder,
     Older, OlderIn, InOrder, EachItsOwn, Counted
<1>5. CASE ProbeTakes
  <2>1. lines' = <<>> /\ UNCHANGED <<commands, answers, givenUp>> /\ probe # "waiting" /\ probe' # "waiting"
    BY <1>5 DEF ProbeTakes, LinesTaken
  <2>2. LinesInOrder' BY <2>1 DEF LinesInOrder, InOrder
  <2>3. AnswersInOrder' BY <1>1, <1>2, <1>3, <2>1 DEF AnswersInOrder, Older, OlderIn, InOrder
  <2>4. ReplyTypes' /\ RepliesInOrder' /\ EachItsOwn'
    BY <1>1, <1>2, <2>1 DEF ReplyTypes, RepliesInOrder, EachItsOwn, Counted
  <2> QED BY <2>2, <2>3, <2>4 DEF RepliesIInv
<1>6. CASE ProbeSends
  <2>1. UNCHANGED <<lines, answers>> BY <1>6 DEF ProbeSends
  <2>2. commands' \in Nat /\ commands <= commands' BY <1>1, <1>6 DEF ProbeSends
  <2>3. EachItsOwn'
    <3>1. CASE commands' = commands + 1 /\ probe' = "waiting" /\ UNCHANGED givenUp
      <4>1. commands' > 0 /\ commands' - 1 = commands BY <1>1, <3>1
      <4> QED BY <1>1, <1>6, <2>1, <3>1, <4>1 DEF ProbeSends, EachItsOwn, Counted
    <3>2. CASE givenUp' = TRUE BY <3>2 DEF EachItsOwn
    <3>3. CASE probe' = "idle" /\ UNCHANGED <<commands, givenUp>>
      BY <1>1, <1>6, <2>1, <3>3 DEF ProbeSends, EachItsOwn, Counted
    <3> QED BY <1>6, <3>1, <3>2, <3>3 DEF ProbeSends
  <2>4. ReplyTypes' /\ RepliesInOrder' BY <1>1, <1>2, <2>1, <2>2 DEF ReplyTypes, RepliesInOrder
  <2>5. LinesInOrder' /\ AnswersInOrder'
    BY <1>1, <1>2, <1>3, <2>1 DEF LinesInOrder, AnswersInOrder, Older, OlderIn, InOrder
  <2> QED BY <2>3, <2>4, <2>5 DEF RepliesIInv
<1>7. CASE ProbeFinds
  <2> DEFINE h == Head(lines)
  <2>1. /\ probe = "waiting" /\ probe' = "idle" /\ lines # <<>> /\ lines' = <<>> /\ answers' = Append(answers, h)
        /\ UNCHANGED <<commands, givenUp>>
    BY <1>7 DEF ProbeFinds, LinesTaken
  <2>2. h = lines[1] /\ 1 \in DOMAIN lines /\ h \in Nat
    <3>1. Len(lines) \in Nat \ {0} /\ DOMAIN lines = 1 .. Len(lines) BY <1>1, <2>1, EmptySeq, LenProperties
    <3> QED BY <1>1, <2>1, <3>1, ElementOfSeq
  <2> HIDE DEF h
  <2>3. /\ 0 < h /\ h <= replied /\ Older(h) /\ \A k \in DOMAIN answers : answers[k] < h
    BY <1>1, <2>2 DEF LinesInOrder, AnswersInOrder
  <2>4. /\ answers' \in Seq(Nat) /\ Len(answers') = Len(answers) + 1 /\ Len(answers) \in Nat
        /\ DOMAIN answers = 1 .. Len(answers) /\ \A i \in 1 .. Len(answers) : answers'[i] = answers[i]
        /\ answers'[Len(answers) + 1] = h
    BY <1>1, <2>1, <2>2, AppendProperties, LenProperties
  <2>5. DOMAIN answers' = 1 .. Len(answers) + 1 BY <2>4, LenProperties
  <2>6. \A i \in DOMAIN answers' : i = Len(answers) + 1 \/ i \in DOMAIN answers BY <2>4, <2>5
  <2>7. InOrder(answers')
    <3> SUFFICES ASSUME NEW i \in DOMAIN answers', NEW j \in DOMAIN answers', i < j PROVE answers'[i] < answers'[j]
      BY DEF InOrder
    <3>1. i \in DOMAIN answers /\ answers'[i] = answers[i] BY <2>4, <2>5
    <3>2. CASE j = Len(answers) + 1 BY <3>1, <3>2, <2>3, <2>4
    <3>3. CASE j \in DOMAIN answers BY <3>1, <3>3, <2>4, <1>1 DEF AnswersInOrder, InOrder
    <3> QED BY <2>6, <3>2, <3>3
  <2>8. \A i \in DOMAIN answers' : answers'[i] <= replied /\ Older(answers'[i])
    <3> SUFFICES ASSUME NEW i \in DOMAIN answers' PROVE answers'[i] <= replied /\ Older(answers'[i]) OBVIOUS
    <3>1. CASE i = Len(answers) + 1
      <4>1. answers'[i] = h BY <3>1, <2>4
      <4> QED BY <4>1, <2>3
    <3>2. CASE i \in DOMAIN answers
      <4>1. answers'[i] = answers[i] BY <3>2, <2>4
      <4> QED BY <3>2, <4>1, <1>1 DEF AnswersInOrder
    <3> QED BY <2>6, <3>1, <3>2
  <2>9. AnswersInOrder'
    <3>1. DOMAIN lines' = {} BY <2>1
    <3> QED BY <2>7, <2>8, <3>1, <1>2, <1>3 DEF AnswersInOrder, Older, InOrder
  <2>10. LinesInOrder' BY <2>1 DEF LinesInOrder, InOrder
  <2>11. ReplyTypes' /\ RepliesInOrder' BY <1>1, <1>2, <2>1, <2>4 DEF ReplyTypes, RepliesInOrder
  <2>12. EachItsOwn'
    <3> SUFFICES ASSUME ~givenUp PROVE Counted(commands)' BY <2>1 DEF EachItsOwn
    <3>1. commands > 0 /\ Counted(commands - 1) BY <1>1, <2>1 DEF EachItsOwn
    <3>2. Len(answers) = commands - 1 /\ \A i \in 1 .. commands - 1 : answers[i] = i BY <3>1 DEF Counted
    <3>3. h = commands
      <4>1. h <= commands BY <1>1, <2>2, <2>3 DEF RepliesInOrder
      <4>2. CASE commands = 1 BY <4>1, <4>2, <2>2, <2>3
      <4>3. CASE commands # 1
        <5>1. commands - 1 \in DOMAIN answers /\ answers[commands - 1] = commands - 1
          BY <1>1, <2>4, <3>1, <3>2, <4>3
        <5>2. commands - 1 < h BY <2>3, <5>1
        <5> QED BY <1>1, <2>2, <4>1, <5>2
      <4> QED BY <4>2, <4>3
    <3>4. Len(answers') = commands BY <1>1, <2>4, <3>2
    <3>5. ASSUME NEW i \in 1 .. commands PROVE answers'[i] = i
      <4>1. CASE i = commands BY <4>1, <2>4, <3>2, <3>3, <1>1
      <4>2. CASE i # commands
        <5>1. i \in 1 .. commands - 1 /\ i \in 1 .. Len(answers) BY <4>2, <3>2, <1>1
        <5> QED BY <5>1, <2>4, <3>2
      <4> QED BY <4>1, <4>2
    <3> QED BY <2>1, <3>4, <3>5 DEF Counted
  <2> QED BY <2>9, <2>10, <2>11, <2>12 DEF RepliesIInv
<1>8. CASE ProbeGivesUp
  <2>1. UNCHANGED <<lines, answers, commands>> /\ givenUp' = TRUE BY <1>8 DEF ProbeGivesUp
  <2> QED BY <1>1, <1>2, <1>3, <2>1 DEF RepliesIInv, ReplyTypes, RepliesInOrder, LinesInOrder,
       AnswersInOrder,
     Older, OlderIn, InOrder, EachItsOwn
<1> QED BY <1>4, <1>5, <1>6, <1>7, <1>8

-----------------------------------------------------------------------------
OrderIInv == StreamIInv /\ RepliesIInv

LEMMA OrderInitial == PushInit => OrderIInv
<1> SUFFICES ASSUME PushInit PROVE OrderIInv OBVIOUS
<1>1. /\ frames = <<>> /\ queue = <<>> /\ noted = <<>> /\ hand = NoPush /\ sent = {} /\ lines = <<>> /\ answers = <<>>
      /\ pushLog = <<>> /\ commands = 0 /\ replied = 0 /\ probe = "idle"
      /\ task = "down" /\ ended = FALSE /\ waker = FALSE /\ unfinished = FALSE /\ socket = "closed"
  BY DEF PushInit
<1>2. FrameTypes /\ Ending
  <2>1. FrameTypes BY <1>1, EmptySeq DEF FrameTypes, NoPush
  <2>2. Ending BY <1>1 DEF Ending, NoPush
  <2> QED BY <2>1, <2>2
<1>3. Framed BY <1>1 DEF Framed, WellFramed
<1>4. Came = <<>> BY <1>1 DEF Came, InHand
<1>5. NotedInOrder BY <1>1, <1>4 DEF NotedInOrder, InOrder, PushesOn, Range
<1>6. RepliesIInv
  BY <1>1 DEF RepliesIInv, ReplyTypes, RepliesInOrder, LinesInOrder, AnswersInOrder, InOrder,
       EachItsOwn, Counted
<1> QED BY <1>2, <1>3, <1>5, <1>6 DEF OrderIInv, StreamIInv

LEMMA OrderStep == OrderIInv /\ [PushNext]_push => OrderIInv'
<1> SUFFICES ASSUME OrderIInv, [PushNext]_push PROVE OrderIInv' OBVIOUS
<1>1. StreamIInv /\ RepliesIInv BY DEF OrderIInv
<1>2. CASE HostResets \/ HostReplies
  <2>1. PICK what \in Nat : HostPushes(what)
    <3>1. replied + 1 \in Nat BY <1>1 DEF RepliesIInv, ReplyTypes
    <3> QED BY <1>2, <3>1 DEF HostResets, HostReplies, ResetPush
  <2>2. StreamIInv' BY <1>1, <2>1, HostKeepsOrder
  <2> QED BY <1>1, <1>2, <2>2, HostKeepsReplies DEF OrderIInv
<1>3. CASE SocketEnds
  <2>1. StreamIInv' BY <1>1, <1>3, SocketKeepsOrder
  <2>2. sent' \subseteq sent /\ UNCHANGED <<noted, pushLog, replied, commands, lines, answers, probe, givenUp>>
    BY <1>3 DEF SocketEnds, probing
  <2>3. Unnoted' \subseteq Unnoted BY <2>2 DEF Unnoted
  <2> QED BY <1>1, <2>1, <2>2, <2>3, UnnotedShrinks DEF OrderIInv
<1>4. CASE ThreadReads
  <2>1. StreamIInv' BY <1>1, <1>4, ThreadKeepsOrder
  <2>2. UNCHANGED <<sent, noted, pushLog, replied, commands, lines, answers, probe, givenUp>>
    BY <1>4 DEF ThreadReads, probing
  <2>3. Unnoted' \subseteq Unnoted BY <2>2 DEF Unnoted
  <2> QED BY <1>1, <2>1, <2>2, <2>3, UnnotedShrinks DEF OrderIInv
<1>5. CASE TaskNotes
  <2>1. StreamIInv' BY <1>1, <1>5, TaskKeepsOrder DEF TaskActs
  <2> QED BY <1>1, <1>5, <2>1, NotingKeepsReplies DEF OrderIInv
<1>6. CASE TaskConnects \/ TaskIsRefused \/ TaskOpens \/ TaskTakes \/ TaskParks \/ TaskDrops
  <2>1. StreamIInv' BY <1>1, <1>6, TaskKeepsOrder DEF TaskActs
  <2>2. UNCHANGED <<sent, noted, pushLog, replied, commands, lines, answers, probe, givenUp>>
    BY <1>6 DEF TaskConnects, TaskIsRefused, TaskOpens, TaskTakes, TaskParks, TaskDrops, probing, host
  <2>3. Unnoted' \subseteq Unnoted BY <2>2 DEF Unnoted
  <2> QED BY <1>1, <2>1, <2>2, <2>3, UnnotedShrinks DEF OrderIInv
<1>7. CASE \/ ProbeLooks \/ ProbeTakes \/ ProbeSends \/ ProbeFinds \/ ProbeGivesUp
  <2>1. UNCHANGED passing
    BY <1>7 DEF ProbeLooks, ProbeTakes, ProbeSends, ProbeFinds, ProbeGivesUp
  <2>2. StreamIInv'
    BY <1>1, <2>1 DEF passing, host, shared, StreamIInv, FrameTypes, Framed, Ending, NotedInOrder, Came,
         InHand
  <2> QED BY <1>1, <1>7, <2>2, ProbeKeepsReplies DEF OrderIInv
<1>8. CASE CoreForgets \/ UNCHANGED push
  <2>1. /\ UNCHANGED <<host, unfinished, shared, task, hand, sent, noted>>
        /\ UNCHANGED <<commands, lines, answers, probe, givenUp>>
    BY <1>8 DEF CoreForgets, push, passing, probing
  <2>2. StreamIInv'
    BY <1>1, <2>1 DEF host, shared, StreamIInv, FrameTypes, Framed, Ending, NotedInOrder, Came, InHand
  <2>3. Unnoted' \subseteq Unnoted BY <2>1 DEF Unnoted
  <2> QED BY <1>1, <2>1, <2>2, <2>3, UnnotedShrinks DEF OrderIInv, host
<1> QED BY <1>2, <1>3, <1>4, <1>5, <1>6, <1>7, <1>8 DEF PushNext, TaskActs

\* The order of the pushes and of the replies is kept by every step of the socket,
\* the reading thread, the task and the probe, whatever is lost.
THEOREM OrderInvariance == PushSpec => []OrderIInv
  BY OrderInitial, OrderStep, PTL DEF PushSpec

\* What the socket delivers is noted once and in the order pushed, and none of it
\* is passed over on its way from the frames to core (push.rs: `message`,
\* `hand_over`, `poll_next`).
THEOREM PushesAreNotedInOrder == PushSpec => []PushesInOrder
<1>1. OrderIInv => NotedInOrder BY DEF OrderIInv, StreamIInv
<1> QED BY OrderInvariance, NoPushWaitsUnseen, <1>1, PTL DEF PushesInOrder

\* No reply of the printer answers two probes, none answers after a newer one, and
\* with no command given up on each probe is answered its own command's (watch.rs:
\* `Probe::position`, which takes the kept lines before it sends).
THEOREM RepliesAreNotTakenTwice == PushSpec => []PositionsMoveOn
<1>1. OrderIInv => PositionsMoveOn
  <2> SUFFICES ASSUME OrderIInv PROVE PositionsMoveOn OBVIOUS
  <2>1. InOrder(answers) /\ EachItsOwn /\ answers \in Seq(Nat)
    BY DEF OrderIInv, RepliesIInv, AnswersInOrder, ReplyTypes
  <2>2. ASSUME ~givenUp, probe # "waiting" PROVE answers = [i \in 1 .. commands |-> i]
    <3>1. Len(answers) = commands /\ \A i \in 1 .. commands : answers[i] = i BY <2>1, <2>2 DEF EachItsOwn,
         Counted
    <3>2. answers \in [1 .. commands -> Nat] BY <2>1, <3>1, LenProperties
    <3> QED BY <3>1, <3>2
  <2> QED BY <2>1, <2>2 DEF PositionsMoveOn
<1> QED BY OrderInvariance, <1>1, PTL

-----------------------------------------------------------------------------
(* What the watch holds between its reads (PrinterWatch) *)

WatchSpec == WatchInit /\ [][WatchNext]_watch

CloseStages == {"none", "settling", "ending", "following", "opening"}
RecordTypes ==
  /\ job \in {NoPrint} \union Prints /\ begun \in 0 .. MaxRuns
  /\ cause \in [Prints -> {"running", "completed", "cancelled", "reset"}]
  /\ record \in [Prints -> {"none", "open", "settled", "ended"}]
  /\ outcome \in [Prints -> {"none", "completed", "cancelled", "interrupted"}]
  /\ claims \in [Prints -> Nat] /\ blurred \subseteq Prints
CountTypes ==
  /\ wire \in Nat /\ pending_resets \in Nat /\ pushed \in Nat /\ resets \in Nat
  /\ writing \in BOOLEAN /\ reset \in BOOLEAN /\ replaced \in BOOLEAN
Stage == [stage : CloseStages, print : {NoPrint} \union Prints]
Window == [print : {NoPrint} \union Prints, recorded : {Quiet, "active"}]
Round == [stage : {"none", "ends", "looking", "writing", "marking"}, ends : SUBSET Prints,
          print : {NoPrint} \union Prints, saw : {Quiet, "active"}]
MemoryTypes ==
  /\ closing \in [Closers -> Stage] /\ window \in Window /\ round \in Round /\ pending_ends \subseteq Prints
WatchTypeOK == RecordTypes /\ CountTypes /\ MemoryTypes

\* The job that runs is the last begun, and no print of it is closed out.
JobInv ==
  /\ job # NoPrint => job = begun
  /\ \A p \in Prints : p = job \/ p > begun => cause[p] = "running"
  /\ \A p \in Prints : record[p] # "none" => p <= begun
  /\ \A p \in Prints : record[p] \in {"settled", "ended"} => p # job
  /\ \A p \in Prints : outcome[p] # "none" => record[p] \in {"settled", "ended"}

\* A close-out is of a print with a record as far as it has come.
CloseInv ==
  \A c \in Closers :
    /\ closing[c].stage = "none" <=> closing[c].print = NoPrint
    /\ closing[c].print # NoPrint => closing[c].print # job
    /\ closing[c].stage = "settling" => record[closing[c].print] \in {"open", "settled"}
    /\ closing[c].stage = "ending" => record[closing[c].print] = "settled"
    /\ closing[c].stage \in {"following", "opening"} => record[closing[c].print] = "ended"

\* What was pushed and not yet forgotten is of the open print, if it is anybody's.
ResetsInv ==
  \A p \in Prints \ blurred : record[p] = "open" => (cause[p] = "reset" <=> reset \/ wire > 0)

\* One task at a time sees to a print.
OneCloser ==
  /\ \A c, d \in Closers : c # d => closing[c].print # closing[d].print \/ closing[c].print = NoPrint
  /\ \A p \in pending_ends \union round.ends :
       record[p] = "ended" /\ \A c \in Closers : closing[c].print # p
  /\ pending_ends \intersect round.ends = {} /\ (round.stage # "ends" => round.ends = {})

Unclaimed == \A p \in Prints : record[p] # "ended" => claims[p] = 0

\* What a round writes down is of the window it found, unless it was replaced.
RoundInv ==
  /\ round.stage = "marking" => <<round.print, round.saw>> \in written
  /\ ~replaced /\ round.stage \in {"writing", "marking"} => window = NoWindow \/ window.print = round.print

PushesCounted == pushed = resets + pending_resets + wire + (IF writing THEN 1 ELSE 0)
EndsAnswered ==
  \A p \in Prints \ forgotten :
    record[p] = "ended" /\ outcome[p] = "interrupted" => claims[p] = IF Following(p) THEN 0 ELSE 1

WatchIInv == /\ WatchTypeOK /\ JobInv /\ CloseInv /\ ResetsInv /\ ResetsReachTheirPrint
             /\ OneCloser /\ Unclaimed /\ PushesCounted /\ EndsAnswered
             /\ RoundInv /\ RememberedIsWritten

-----------------------------------------------------------------------------
\* A close-out comes to its next stage.
LEMMA StageMoves ==
  ASSUME WatchTypeOK, NEW c \in Closers, NEW stage \in CloseStages,
         closing' = [closing EXCEPT ![c].stage = stage]
  PROVE  /\ closing' \in [Closers -> Stage]
         /\ closing'[c].stage = stage /\ closing'[c].print = closing[c].print
         /\ \A d \in Closers : d # c => closing'[d] = closing[d]
<1>1. closing[c] \in Stage BY DEF WatchTypeOK, RecordTypes, MemoryTypes, Stage
<1>2. closing' = [closing EXCEPT ![c] = [closing[c] EXCEPT !.stage = stage]] OBVIOUS
<1>3. PICK new \in Stage :
        new = [closing[c] EXCEPT !.stage = stage] /\ new.stage = stage /\ new.print = closing[c].print
  <2> DEFINE e == [closing[c] EXCEPT !.stage = stage]
  <2>1. /\ e \in Stage
        /\ e.stage = stage /\ e.print = closing[c].print
    BY <1>1 DEF Stage
  <2> QED BY <2>1
<1> QED BY <1>2, <1>3 DEF WatchTypeOK, RecordTypes, MemoryTypes, Stage

\* What a settlement does: the print is settled now, was before, or the store
\* refuses.
Settles(c) ==
  LET p == closing[c].print IN
  /\ p \in Prints /\ p # job /\ record[p] \in {"open", "settled"}
  /\ UNCHANGED <<machine, wire, writing, kept, round, pushed, resets, claims, written, replaced, forgotten>>
  /\ closing' \in [Closers -> Stage]
  /\ \A d \in Closers : d # c => closing'[d] = closing[d]
  /\ \/ /\ closing'[c].stage = "ending" /\ closing'[c].print = p
        /\ record[p] = "open" /\ record' = [record EXCEPT ![p] = "settled"]
        /\ outcome' = [outcome EXCEPT ![p] = IF cause[p] = "completed" THEN "completed"
                                             ELSE IF reset THEN "interrupted" ELSE "cancelled"]
        /\ blurred' = IF cause[p] = "reset" /\ ~reset /\ wire > 0 THEN blurred \union {p} ELSE blurred
     \/ /\ closing'[c].stage = "ending" /\ closing'[c].print = p
        /\ record[p] = "settled" /\ UNCHANGED <<record, outcome, blurred>>
     \/ closing'[c] = NoClose /\ UNCHANGED <<record, outcome, blurred>>
LEMMA SettlesWhat ==
  ASSUME WatchTypeOK, CloseInv, NEW c \in Closers, CloseSettles(c)
  PROVE  Settles(c)
<1> DEFINE p == closing[c].print
<1>1. closing[c].stage = "settling" /\ p \in Prints /\ p # job /\ record[p] \in {"open", "settled"}
  BY DEF CloseSettles, CloseInv, WatchTypeOK, MemoryTypes, Stage, CloseStages, NoPrint
<1>2. UNCHANGED <<machine, wire, writing, kept, round, pushed, resets, claims, written, replaced, forgotten>>
  BY DEF CloseSettles
<1>3. "ending" \in CloseStages BY DEF CloseStages
<1>4. \/ /\ closing' = [closing EXCEPT ![c].stage = "ending"]
         /\ \/ /\ record[p] = "open" /\ record' = [record EXCEPT ![p] = "settled"]
               /\ outcome' = [outcome EXCEPT ![p] = IF cause[p] = "completed" THEN "completed"
                                                    ELSE IF reset THEN "interrupted" ELSE "cancelled"]
               /\ blurred' = IF cause[p] = "reset" /\ ~reset /\ wire > 0 THEN blurred \union {p} ELSE blurred
            \/ record[p] = "settled" /\ UNCHANGED <<record, outcome, blurred>>
      \/ closing' = [closing EXCEPT ![c] = NoClose] /\ UNCHANGED <<record, outcome, blurred>>
  BY <1>1 DEF CloseSettles
<1>5. CASE closing' = [closing EXCEPT ![c].stage = "ending"]
  <2>1. /\ closing' \in [Closers -> Stage]
        /\ closing'[c].stage = "ending" /\ closing'[c].print = p
        /\ \A d \in Closers : d # c => closing'[d] = closing[d]
    BY <1>3, <1>5, StageMoves
  <2>2. \/ /\ record[p] = "open" /\ record' = [record EXCEPT ![p] = "settled"]
           /\ outcome' = [outcome EXCEPT ![p] = IF cause[p] = "completed" THEN "completed"
                                                ELSE IF reset THEN "interrupted" ELSE "cancelled"]
           /\ blurred' = IF cause[p] = "reset" /\ ~reset /\ wire > 0 THEN blurred \union {p} ELSE blurred
        \/ record[p] = "settled" /\ UNCHANGED <<record, outcome, blurred>>
        \/ closing' = [closing EXCEPT ![c] = NoClose] /\ UNCHANGED <<record, outcome, blurred>>
    BY <1>4
  <2>3. closing' = [closing EXCEPT ![c] = NoClose] => closing'[c] = NoClose BY DEF WatchTypeOK,
       RecordTypes, MemoryTypes, Stage
  <2> HIDE DEF p
  <2> QED BY <1>1, <1>2, <2>1, <2>2, <2>3 DEF p, Settles
<1>6. CASE closing' = [closing EXCEPT ![c] = NoClose] /\ UNCHANGED <<record, outcome, blurred>>
  <2>1. NoClose \in Stage BY DEF NoClose, Stage, CloseStages
  <2>2. /\ closing' \in [Closers -> Stage]
        /\ closing'[c] = NoClose /\ \A d \in Closers : d # c => closing'[d] = closing[d]
    BY <1>6, <2>1 DEF WatchTypeOK, RecordTypes, MemoryTypes, Stage
  <2> HIDE DEF p
  <2> QED BY <1>1, <1>2, <1>6, <2>2 DEF p, Settles
<1> QED BY <1>4, <1>5, <1>6

\* A follow-up forgets the pushes, and its print's end is answered, gets its
\* window next, or is owed.
Forgets(c) ==
  LET p == closing[c].print IN
  /\ p \in Prints /\ p # job /\ record[p] = "ended" /\ closing[c].stage = "following"
  /\ UNCHANGED <<machine, record, outcome, wire, writing, pending_resets, round, pushed, resets, claims,
                 written, forgotten, replaced>>
  /\ reset' = FALSE /\ blurred' = blurred \union Erased
  /\ closing' \in [Closers -> Stage] /\ \A d \in Closers : d # c => closing'[d] = closing[d]
  /\ \/ /\ outcome[p] = "interrupted" /\ closing'[c].stage = "opening" /\ closing'[c].print = p
        /\ UNCHANGED <<window, pending_ends>>
     \/ /\ outcome[p] # "interrupted" /\ closing'[c] = NoClose /\ window' = NoWindow
        /\ UNCHANGED pending_ends
     \/ closing'[c] = NoClose /\ pending_ends' = pending_ends \union {p} /\ UNCHANGED window
LEMMA ForgetsWhat ==
  ASSUME WatchTypeOK, CloseInv, NEW c \in Closers, FollowForgets(c)
  PROVE  Forgets(c)
<1> DEFINE p == closing[c].print
<1>1. closing[c].stage = "following" /\ p \in Prints /\ p # job /\ record[p] = "ended"
  BY DEF FollowForgets, CloseInv, WatchTypeOK, MemoryTypes, Stage, CloseStages, NoPrint
<1>2. /\ UNCHANGED <<machine, record, outcome, wire, writing, pending_resets, round, pushed, resets, claims,
                     written, forgotten, replaced>>
      /\ reset' = FALSE /\ blurred' = blurred \union Erased
  BY DEF FollowForgets
<1>3. "opening" \in CloseStages BY DEF CloseStages
<1>4. \/ /\ outcome[p] = "interrupted" /\ closing' = [closing EXCEPT ![c].stage = "opening"]
         /\ UNCHANGED <<window, pending_ends>>
      \/ /\ outcome[p] # "interrupted" /\ closing' = [closing EXCEPT ![c] = NoClose]
         /\ window' = NoWindow /\ UNCHANGED pending_ends
      \/ /\ closing' = [closing EXCEPT ![c] = NoClose] /\ pending_ends' = pending_ends \union {p}
         /\ UNCHANGED window
  BY DEF FollowForgets, Owed
<1>5. ASSUME closing' = [closing EXCEPT ![c].stage = "opening"]
      PROVE  /\ closing' \in [Closers -> Stage] /\ \A d \in Closers : d # c => closing'[d] = closing[d]
             /\ closing'[c].stage = "opening" /\ closing'[c].print = p
  BY <1>3, <1>5, StageMoves
<1>6. ASSUME closing' = [closing EXCEPT ![c] = NoClose]
      PROVE  /\ closing' \in [Closers -> Stage] /\ \A d \in Closers : d # c => closing'[d] = closing[d]
             /\ closing'[c] = NoClose
  <2>1. NoClose \in Stage BY DEF NoClose, Stage, CloseStages
  <2> QED BY <1>6, <2>1 DEF WatchTypeOK, MemoryTypes
<1> HIDE DEF p
<1>7. /\ closing' \in [Closers -> Stage] /\ \A d \in Closers : d # c => closing'[d] = closing[d]
      /\ \/ /\ outcome[p] = "interrupted" /\ closing'[c].stage = "opening" /\ closing'[c].print = p
            /\ UNCHANGED <<window, pending_ends>>
         \/ /\ outcome[p] # "interrupted" /\ closing'[c] = NoClose /\ window' = NoWindow
            /\ UNCHANGED pending_ends
         \/ closing'[c] = NoClose /\ pending_ends' = pending_ends \union {p} /\ UNCHANGED window
  BY <1>4, <1>5, <1>6
<1> QED BY <1>1, <1>2, <1>7 DEF p, Forgets



\* The window opens anew, and the turn is claimed or the end owed.
Opens(c) ==
  LET p == closing[c].print IN
  /\ p \in Prints /\ p # job /\ record[p] = "ended" /\ closing[c].stage = "opening"
  /\ UNCHANGED <<machine, record, outcome, wire, writing, reset, pending_resets, round, pushed, resets,
                 written, blurred, forgotten>>
  /\ replaced' = (replaced \/ round.stage \in {"writing", "marking"})
  /\ window' = [print |-> p, recorded |-> Quiet] /\ window' \in Window
  /\ closing' \in [Closers -> Stage] /\ \A d \in Closers : d # c => closing'[d] = closing[d]
  /\ closing'[c] = NoClose
  /\ \/ claims' = [claims EXCEPT ![p] = @ + 1] /\ UNCHANGED pending_ends
     \/ pending_ends' = pending_ends \union {p} /\ UNCHANGED claims
LEMMA OpensWhat ==
  ASSUME WatchTypeOK, CloseInv, NEW c \in Closers, FollowOpens(c)
  PROVE  Opens(c)
<1>1. NoClose \in Stage BY DEF NoClose, Stage, CloseStages
<1>2. closing' = [closing EXCEPT ![c] = NoClose] BY DEF FollowOpens
<1>3. /\ closing' \in [Closers -> Stage] /\ \A d \in Closers : d # c => closing'[d] = closing[d]
      /\ closing'[c] = NoClose
  BY <1>1, <1>2 DEF WatchTypeOK, MemoryTypes
<1>4. /\ closing[c].stage = "opening" /\ closing[c].print \in Prints /\ closing[c].print # job
      /\ record[closing[c].print] = "ended"
  BY DEF FollowOpens, CloseInv, WatchTypeOK, MemoryTypes, Stage, CloseStages, NoPrint
<1>5. [print |-> closing[c].print, recorded |-> Quiet] \in Window BY <1>4 DEF Window
<1> QED BY <1>3, <1>4, <1>5 DEF FollowOpens, Owed, bounds, Opens


\* A comparison ends the round, or leaves it an activity to write of the window
\* it found, which remembers no more than it did.
Compares ==
  /\ UNCHANGED <<machine, record, outcome, wire, writing, reset, pending_resets, pending_ends, closing,
                 pushed, resets, claims, written, blurred, forgotten, replaced>>
  /\ round.stage = "looking" /\ round' \in Round /\ window' \in Window
  /\ window'.print = window.print /\ window'.recorded \in {Quiet, window.recorded}
  /\ window = NoWindow => window' = NoWindow
  /\ \/ round' = NoRound
     \/ /\ round'.stage = "writing" /\ round'.ends = round.ends
        /\ round'.print = round.print /\ window.print = round.print
LEMMA ComparesWhat ==
  ASSUME WatchTypeOK, RoundCompares
  PROVE  Compares
<1>1. /\ UNCHANGED <<machine, record, outcome, wire, writing, reset, pending_resets, pending_ends, closing,
                     pushed, resets, claims, written, blurred, forgotten, replaced>>
      /\ round.stage = "looking"
  BY DEF RoundCompares
<1>2. window \in Window /\ round \in Round BY DEF WatchTypeOK, MemoryTypes
<1>3. NoRound \in Round BY DEF NoRound, Round, NoPrint
<1>4. CASE round' = NoRound /\ UNCHANGED window BY <1>1, <1>2, <1>3, <1>4 DEF Window, Compares
<1>5. ASSUME window.print = round.print, NEW saw \in {Quiet, "active"}, window' = Compared(saw),
             round' = IF saw \in {Quiet, window.recorded} THEN NoRound
                      ELSE [round EXCEPT !.stage = "writing", !.saw = saw]
      PROVE  /\ round' \in Round /\ window' \in Window
             /\ window'.print = window.print /\ window'.recorded \in {Quiet, window.recorded}
             /\ window = NoWindow => window' = NoWindow
             /\ \/ round' = NoRound
                \/ /\ round'.stage = "writing" /\ round'.ends = round.ends
                   /\ round'.print = round.print /\ window.print = round.print
  <2>1. /\ window' \in Window /\ window'.print = window.print
        /\ window'.recorded \in {Quiet, window.recorded}
        /\ window = NoWindow => window' = NoWindow
    BY <1>2, <1>5 DEF Compared, Window, NoWindow
  <2> DEFINE next == [round EXCEPT !.stage = "writing", !.saw = saw]
  <2>2. next \in Round /\ next.stage = "writing" /\ next.ends = round.ends /\ next.print = round.print
    BY <1>2 DEF Round
  <2>3. round' = NoRound \/ round' = next BY <1>5
  <2> HIDE DEF next
  <2> QED BY <1>3, <1>5, <2>1, <2>2, <2>3
<1>6. \/ round' = NoRound /\ UNCHANGED window
      \/ /\ window.print = round.print
         /\ \E saw \in {Quiet, "active"} :
              /\ window' = Compared(saw)
              /\ round' = IF saw \in {Quiet, window.recorded} THEN NoRound
                          ELSE [round EXCEPT !.stage = "writing", !.saw = saw]
  BY DEF RoundCompares
<1> QED BY <1>1, <1>4, <1>5, <1>6 DEF Compares

\* The record of the print is ended, and the close-out follows it up.
EndsRecord(c) ==
  LET p == closing[c].print IN
  /\ p \in Prints /\ record[p] = "settled" /\ p # job
  /\ UNCHANGED <<machine, outcome, wire, writing, kept, round, bounds, pushed, resets, claims, written, blurred,
                 forgotten, replaced>>
  /\ record' = [record EXCEPT ![p] = "ended"]
  /\ closing' \in [Closers -> Stage] /\ closing'[c].stage = "following" /\ closing'[c].print = p
  /\ \A d \in Closers : d # c => closing'[d] = closing[d]
LEMMA EndsRecordWhat ==
  ASSUME WatchTypeOK, CloseInv, NEW c \in Closers, CloseEndsRecord(c)
  PROVE  EndsRecord(c)
<1>1. "following" \in CloseStages BY DEF CloseStages
<1>2. closing' = [closing EXCEPT ![c].stage = "following"] BY DEF CloseEndsRecord
<1>3. /\ closing' \in [Closers -> Stage] /\ closing'[c].stage = "following"
      /\ closing'[c].print = closing[c].print /\ \A d \in Closers : d # c => closing'[d] = closing[d]
  BY <1>1, <1>2, StageMoves
<1>4. /\ closing[c].stage = "ending" /\ closing[c].print \in Prints /\ closing[c].print # job
      /\ record[closing[c].print] = "settled"
  BY DEF CloseEndsRecord, CloseInv, WatchTypeOK, MemoryTypes, Stage, CloseStages, NoPrint
<1> QED BY <1>3, <1>4 DEF CloseEndsRecord, EndsRecord

\* The records and the outcomes a settlement leaves, print by print.
LEMMA SettlesEach ==
  ASSUME WatchTypeOK, NEW c \in Closers, Settles(c)
  PROVE  LET p == closing[c].print IN
         /\ \A q \in Prints : q # p => /\ record'[q] = record[q] /\ outcome'[q] = outcome[q]
                                       /\ q \in blurred' <=> q \in blurred
         /\ \/ record'[p] = record[p] /\ outcome'[p] = outcome[p] /\ blurred' = blurred
            \/ /\ record[p] = "open" /\ record'[p] = "settled" /\ blurred \subseteq blurred'
               /\ outcome'[p] = IF cause[p] = "completed" THEN "completed"
                                ELSE IF reset THEN "interrupted" ELSE "cancelled"
               /\ cause[p] = "reset" /\ ~reset /\ wire > 0 => p \in blurred'
         /\ closing'[c] = NoClose \/ (closing'[c].stage = "ending" /\ closing'[c].print = p /\ record'[p] = "settled")
<1> DEFINE p == closing[c].print
<1>1. record \in [Prints -> {"none", "open", "settled", "ended"}]
      /\ outcome \in [Prints -> {"none", "completed", "cancelled", "interrupted"}] /\ p \in Prints
  BY DEF WatchTypeOK, RecordTypes, Settles
<1>2. CASE UNCHANGED <<record, outcome, blurred>> BY <1>1, <1>2 DEF Settles
<1>3. CASE /\ closing'[c].stage = "ending" /\ closing'[c].print = p
           /\ record[p] = "open" /\ record' = [record EXCEPT ![p] = "settled"]
           /\ outcome' = [outcome EXCEPT ![p] = IF cause[p] = "completed" THEN "completed"
                                                ELSE IF reset THEN "interrupted" ELSE "cancelled"]
           /\ blurred' = IF cause[p] = "reset" /\ ~reset /\ wire > 0 THEN blurred \union {p} ELSE blurred
  <2> HIDE DEF p
  <2>1. record'[p] = "settled" /\ \A q \in Prints : q # p => record'[q] = record[q] BY <1>1, <1>3
  <2>2. /\ outcome'[p] = IF cause[p] = "completed" THEN "completed"
                         ELSE IF reset THEN "interrupted" ELSE "cancelled"
        /\ \A q \in Prints : q # p => outcome'[q] = outcome[q]
    BY <1>1, <1>3
  <2>3. /\ blurred \subseteq blurred'
        /\ cause[p] = "reset" /\ ~reset /\ wire > 0 => p \in blurred'
        /\ \A q \in Prints : q # p => (q \in blurred' <=> q \in blurred)
    BY <1>3
  <2> QED BY <1>3, <2>1, <2>2, <2>3 DEF p
<1> QED BY <1>2, <1>3 DEF Settles

\* A close-out that comes further, or ends, leaves each print one task.
LEMMA CloserStays ==
  ASSUME OneCloser, NEW c \in Closers, \A d \in Closers : d # c => closing'[d] = closing[d],
         closing'[c].print \in {closing[c].print, NoPrint}, UNCHANGED <<round, pending_ends>>,
         NoPrint \notin pending_ends \union round.ends,
         \A p \in pending_ends \union round.ends : record'[p] = record[p]
  PROVE  OneCloser'
<1>1. \A d, e \in Closers : d # e => closing'[d].print # closing'[e].print \/ closing'[d].print = NoPrint
  <2> SUFFICES ASSUME NEW d \in Closers, NEW e \in Closers, d # e
               PROVE  closing'[d].print # closing'[e].print \/ closing'[d].print = NoPrint
    OBVIOUS
  <2>1. /\ closing[d].print # closing[e].print \/ closing[d].print = NoPrint
        /\ closing[e].print # closing[d].print \/ closing[e].print = NoPrint
    BY DEF OneCloser
  <2>2. closing'[d].print \in {closing[d].print, NoPrint} /\ closing'[e].print \in {closing[e].print, NoPrint}
    OBVIOUS
  <2> QED BY <2>1, <2>2
<1>2. \A p \in pending_ends \union round.ends :
        record[p] = "ended" /\ p # NoPrint /\ \A d \in Closers : closing[d].print # p
  BY DEF OneCloser
<1>3. \A p \in pending_ends \union round.ends : record'[p] = "ended" /\ \A d \in Closers : closing'[d].print # p
  BY <1>2
<1> QED BY <1>1, <1>3 DEF OneCloser

\* A close-out that ends may leave its end owed.
LEMMA CloserOwes ==
  ASSUME OneCloser, NEW c \in Closers, \A d \in Closers : d # c => closing'[d] = closing[d],
         closing'[c].print = NoPrint, round' = round, closing[c].print # NoPrint,
         pending_ends' = pending_ends \union {closing[c].print},
         NoPrint \notin pending_ends \union round.ends, record[closing[c].print] = "ended", record' = record
  PROVE  OneCloser'
<1> DEFINE owed == closing[c].print
<1>1. \A d, e \in Closers : d # e => closing'[d].print # closing'[e].print \/ closing'[d].print = NoPrint
  <2> SUFFICES ASSUME NEW d \in Closers, NEW e \in Closers, d # e
               PROVE  closing'[d].print # closing'[e].print \/ closing'[d].print = NoPrint
    OBVIOUS
  <2>1. /\ closing[d].print # closing[e].print \/ closing[d].print = NoPrint
        /\ closing[e].print # closing[d].print \/ closing[e].print = NoPrint
    BY DEF OneCloser
  <2>2. closing'[d].print \in {closing[d].print, NoPrint} /\ closing'[e].print \in {closing[e].print, NoPrint}
    OBVIOUS
  <2> QED BY <2>1, <2>2
<1>2. /\ \A p \in pending_ends \union round.ends :
           record[p] = "ended" /\ p # NoPrint /\ \A d \in Closers : closing[d].print # p
      /\ \A d \in Closers : d # c => closing[d].print # owed
      /\ pending_ends \intersect round.ends = {} /\ (round.stage # "ends" => round.ends = {})
  BY DEF OneCloser
<1>3. owed \notin round.ends BY <1>2
<1>4. \A p \in pending_ends' \union round'.ends : record'[p] = "ended" /\ \A d \in Closers : closing'[d].print # p
  BY <1>2
<1>5. pending_ends' \intersect round'.ends = {} /\ (round'.stage # "ends" => round'.ends = {})
  BY <1>2, <1>3
<1> QED BY <1>1, <1>4, <1>5 DEF OneCloser

\* It leaves the prints that are not its own followed up as they were.
LEMMA FollowedElsewhere ==
  ASSUME NEW c \in Closers, \A d \in Closers : d # c => closing'[d] = closing[d],
         closing'[c].print \in {closing[c].print, NoPrint}, round' = round,
         NEW q \in Prints, q # closing[c].print, q \in pending_ends' <=> q \in pending_ends
  PROVE  Following(q)' <=> Following(q)
<1>1. q # NoPrint BY DEF Prints, NoPrint
<1>2. \A d \in Closers : /\ closing'[d].print = q <=> closing[d].print = q
                         /\ closing[d].print = q => closing'[d] = closing[d]
  BY <1>1
<1>3. (\E d \in Closers : closing'[d].print = q /\ closing'[d].stage \in {"following", "opening"})
      <=> (\E d \in Closers : closing[d].print = q /\ closing[d].stage \in {"following", "opening"})
  BY <1>2
<1> QED BY <1>3 DEF Following

-----------------------------------------------------------------------------
LEMMA WatchInitial == WatchInit => WatchIInv
<1> SUFFICES ASSUME WatchInit PROVE WatchIInv OBVIOUS
<1> USE DEF WatchInit, NoWindow, NoClose, NoRound
<1>1. RecordTypes BY WatchConstants DEF RecordTypes, Prints
<1>2. CountTypes /\ MemoryTypes
  BY DEF CountTypes, MemoryTypes, Closers, CloseStages, Stage, Window, Round
<1>3. JobInv /\ CloseInv /\ ResetsInv /\ ResetsReachTheirPrint
  BY DEF JobInv, CloseInv, ResetsInv, ResetsReachTheirPrint
<1>4. OneCloser /\ Unclaimed /\ PushesCounted /\ EndsAnswered /\ RoundInv /\ RememberedIsWritten
  BY DEF OneCloser, Unclaimed, PushesCounted, EndsAnswered, Following, RoundInv, RememberedIsWritten
<1> QED BY <1>1, <1>2, <1>3, <1>4 DEF WatchIInv, WatchTypeOK

LEMMA RecordTypesKept ==
  ASSUME WatchTypeOK, CloseInv, [WatchNext]_watch PROVE RecordTypes'
<1>0. UNCHANGED <<job, begun, cause, record, outcome, claims, blurred>> => RecordTypes'
  BY DEF RecordTypes, WatchTypeOK
<1>1. CASE JobStarts
  <2>1. begun' \in 0 .. MaxRuns /\ job' \in Prints BY <1>1, WatchConstants DEF JobStarts, WatchTypeOK,
       RecordTypes, Prints
  <2> QED BY <1>1, <2>1 DEF JobStarts, WatchTypeOK, RecordTypes
<1>2. CASE IdleReset
  BY <1>2 DEF IdleReset, Reset, OpenRecords, WatchTypeOK, RecordTypes, Prints, NoPrint, machine, kept,
       bounds
<1>3. ASSUME NEW how \in {"completed", "cancelled", "reset"}, JobStops(how) PROVE RecordTypes'
  BY <1>3 DEF JobStops, Reset, OpenRecords, WatchTypeOK, RecordTypes, Prints, NoPrint, machine, kept,
       bounds
<1>4. CASE PushSetsTheFlag
  BY <1>4, <1>0 DEF PushSetsTheFlag, machine, kept, bounds
<1>5. CASE PushWrites
  BY <1>5, <1>0 DEF PushWrites, machine, kept, bounds
<1>6. CASE Adopts
  BY <1>6 DEF Adopts, PushesAtStart, Erased, OpenRecords, WatchTypeOK, RecordTypes, Prints, NoPrint,
       machine, kept, bounds
<1>7. CASE OpensUnread
  BY <1>7 DEF OpensUnread, PushesAtStart, Erased, OpenRecords, WatchTypeOK, RecordTypes, Prints,
       NoPrint, machine, kept, bounds
<1>8. CASE FindsRunning
  BY <1>8, <1>0 DEF FindsRunning, machine, kept, bounds
<1>9. ASSUME NEW c \in Closers, NEW p \in Prints, CloseBegins(c, p) PROVE RecordTypes'
  BY <1>9, <1>0 DEF CloseBegins, machine, kept, bounds
<1>10. ASSUME NEW c \in Closers, CloseSettles(c) PROVE RecordTypes'
  <2>1. Settles(c) BY <1>10, SettlesWhat
  <2> QED BY <2>1 DEF Settles, WatchTypeOK, RecordTypes, Prints, NoPrint, machine, kept, bounds
<1>11. ASSUME NEW c \in Closers, CloseEndsRecord(c) PROVE RecordTypes'
  <2>1. EndsRecord(c) BY <1>11, EndsRecordWhat
  <2> QED BY <2>1 DEF EndsRecord, WatchTypeOK, RecordTypes, Prints, NoPrint, machine, kept, bounds
<1>12. ASSUME NEW c \in Closers, FollowForgets(c) PROVE RecordTypes'
  <2>1. Forgets(c) BY <1>12, ForgetsWhat
  <2> QED BY <2>1 DEF Forgets, Erased, OpenRecords, WatchTypeOK, RecordTypes, Prints, NoPrint, machine,
       kept, bounds
<1>13. ASSUME NEW c \in Closers, FollowOpens(c) PROVE RecordTypes'
  <2>1. Opens(c) BY <1>13, OpensWhat
  <2> QED BY <2>1 DEF Opens, WatchTypeOK, RecordTypes, Prints, NoPrint, machine, kept, bounds
<1>14. CASE RoundCatchesUp
  BY <1>14, <1>0 DEF RoundCatchesUp, machine, kept, bounds
<1>15. ASSUME NEW p \in Prints, RoundFollows(p) PROVE RecordTypes'
  BY <1>15, <1>0 DEF RoundFollows, machine, kept, bounds
<1>16. CASE RoundLooks
  BY <1>16, <1>0 DEF RoundLooks, machine, kept, bounds
<1>17. CASE RoundCompares
  BY <1>17, <1>0 DEF RoundCompares, machine, kept, bounds
<1>18. CASE RoundWrites
  BY <1>18, <1>0 DEF RoundWrites, machine, kept, bounds
<1>19. CASE RoundMarks
  BY <1>19, <1>0 DEF RoundMarks, machine, kept, bounds
<1>20. CASE ServerRestarts
  BY <1>20 DEF ServerRestarts, NoRound, OpenRecords, Unanswered, WatchTypeOK, RecordTypes, Prints,
       NoPrint, machine, kept, bounds
<1>21. CASE UNCHANGED watch BY <1>21, <1>0 DEF watch, machine, kept, bounds
<1> QED BY <1>1, <1>2, <1>3, <1>4, <1>5, <1>6, <1>7, <1>8, <1>9, <1>10, <1>11, <1>12, <1>13, <1>14,
     <1>15, <1>16, <1>17, <1>18, <1>19, <1>20, <1>21 DEF WatchNext

LEMMA CountTypesKept ==
  ASSUME WatchTypeOK, CloseInv, [WatchNext]_watch PROVE CountTypes'
<1>0. UNCHANGED <<wire, pending_resets, pushed, resets, writing, reset, replaced>> => CountTypes'
  BY DEF CountTypes, WatchTypeOK
<1>1. CASE JobStarts
  BY <1>1, <1>0 DEF JobStarts, machine, kept, bounds
<1>2. CASE IdleReset
  BY <1>2 DEF IdleReset, Reset, OpenRecords, WatchTypeOK, CountTypes, machine, kept, bounds
<1>3. ASSUME NEW how \in {"completed", "cancelled", "reset"}, JobStops(how) PROVE CountTypes'
  BY <1>3 DEF JobStops, Reset, OpenRecords, WatchTypeOK, CountTypes, machine, kept, bounds
<1>4. CASE PushSetsTheFlag
  BY <1>4 DEF PushSetsTheFlag, WatchTypeOK, CountTypes, machine, kept, bounds
<1>5. CASE PushWrites
  <2>1. resets' \in Nat BY <1>5 DEF PushWrites, WatchTypeOK, CountTypes
  <2>2. pending_resets' \in Nat BY <1>5 DEF PushWrites, WatchTypeOK, CountTypes
  <2> QED BY <1>5, <2>1, <2>2 DEF PushWrites, WatchTypeOK, CountTypes
<1>6. CASE Adopts
  BY <1>6 DEF Adopts, PushesAtStart, Erased, OpenRecords, WatchTypeOK, CountTypes, machine, kept, bounds
<1>7. CASE OpensUnread
  BY <1>7 DEF OpensUnread, PushesAtStart, Erased, OpenRecords, WatchTypeOK, CountTypes, machine, kept,
       bounds
<1>8. CASE FindsRunning
  BY <1>8, <1>0 DEF FindsRunning, machine, kept, bounds
<1>9. ASSUME NEW c \in Closers, NEW p \in Prints, CloseBegins(c, p) PROVE CountTypes'
  BY <1>9, <1>0 DEF CloseBegins, machine, kept, bounds
<1>10. ASSUME NEW c \in Closers, CloseSettles(c) PROVE CountTypes'
  BY <1>10, <1>0 DEF CloseSettles, machine, kept, bounds
<1>11. ASSUME NEW c \in Closers, CloseEndsRecord(c) PROVE CountTypes'
  BY <1>11, <1>0 DEF CloseEndsRecord, machine, kept, bounds
<1>12. ASSUME NEW c \in Closers, FollowForgets(c) PROVE CountTypes'
  <2>1. Forgets(c) BY <1>12, ForgetsWhat
  <2> QED BY <2>1 DEF Forgets, Erased, OpenRecords, WatchTypeOK, CountTypes, machine, kept, bounds
<1>13. ASSUME NEW c \in Closers, FollowOpens(c) PROVE CountTypes'
  <2>1. Opens(c) BY <1>13, OpensWhat
  <2> QED BY <2>1 DEF Opens, WatchTypeOK, CountTypes, machine, kept, bounds
<1>14. CASE RoundCatchesUp
  BY <1>14 DEF RoundCatchesUp, Answered, Refused, NoRound, WatchTypeOK, CountTypes, machine, kept,
       bounds
<1>15. ASSUME NEW p \in Prints, RoundFollows(p) PROVE CountTypes'
  BY <1>15, <1>0 DEF RoundFollows, machine, kept, bounds
<1>16. CASE RoundLooks
  BY <1>16, <1>0 DEF RoundLooks, machine, kept, bounds
<1>17. CASE RoundCompares
  BY <1>17, <1>0 DEF RoundCompares, machine, kept, bounds
<1>18. CASE RoundWrites
  BY <1>18, <1>0 DEF RoundWrites, machine, kept, bounds
<1>19. CASE RoundMarks
  BY <1>19, <1>0 DEF RoundMarks, machine, kept, bounds
<1>20. CASE ServerRestarts
  <2>1. pushed' \in Nat BY <1>20 DEF ServerRestarts, WatchTypeOK, CountTypes
  <2> QED BY <1>20, <2>1 DEF ServerRestarts, WatchTypeOK, CountTypes
<1>21. CASE UNCHANGED watch BY <1>21, <1>0 DEF watch, machine, kept, bounds
<1> QED BY <1>1, <1>2, <1>3, <1>4, <1>5, <1>6, <1>7, <1>8, <1>9, <1>10, <1>11, <1>12, <1>13, <1>14,
     <1>15, <1>16, <1>17, <1>18, <1>19, <1>20, <1>21 DEF WatchNext

LEMMA MemoryTypesKept ==
  ASSUME WatchTypeOK, CloseInv, [WatchNext]_watch PROVE MemoryTypes'
<1>0. UNCHANGED <<closing, window, round, pending_ends>> => MemoryTypes'
  BY DEF MemoryTypes, WatchTypeOK
<1>1. CASE JobStarts
  BY <1>1, <1>0 DEF JobStarts, machine, kept, bounds
<1>2. CASE IdleReset
  BY <1>2, <1>0 DEF IdleReset, machine, kept, bounds
<1>3. ASSUME NEW how \in {"completed", "cancelled", "reset"}, JobStops(how) PROVE MemoryTypes'
  BY <1>3, <1>0 DEF JobStops, machine, kept, bounds
<1>4. CASE PushSetsTheFlag
  BY <1>4, <1>0 DEF PushSetsTheFlag, machine, kept, bounds
<1>5. CASE PushWrites
  BY <1>5, <1>0 DEF PushWrites, machine, kept, bounds
<1>6. CASE Adopts
  BY <1>6 DEF Adopts, PushesAtStart, Erased, OpenRecords, WatchTypeOK, MemoryTypes, NoWindow, NoClose,
       Stage, Window, Round, CloseStages, NoPrint, machine, kept, bounds
<1>7. CASE OpensUnread
  BY <1>7, <1>0 DEF OpensUnread, machine, kept, bounds
<1>8. CASE FindsRunning
  BY <1>8 DEF FindsRunning, WatchTypeOK, MemoryTypes, NoWindow, NoClose, Stage, Window, Round,
       CloseStages, NoPrint, machine, kept, bounds
<1>9. ASSUME NEW c \in Closers, NEW p \in Prints, CloseBegins(c, p) PROVE MemoryTypes'
  BY <1>9 DEF CloseBegins, WatchTypeOK, MemoryTypes, NoWindow, NoClose, Stage, Window, Round,
       CloseStages, NoPrint, machine, kept, bounds
<1>10. ASSUME NEW c \in Closers, CloseSettles(c) PROVE MemoryTypes'
  <2>1. Settles(c) BY <1>10, SettlesWhat
  <2> QED BY <2>1 DEF Settles, WatchTypeOK, MemoryTypes, NoWindow, NoClose, Stage, Window, Round,
       CloseStages, NoPrint, machine, kept, bounds
<1>11. ASSUME NEW c \in Closers, CloseEndsRecord(c) PROVE MemoryTypes'
  <2>1. EndsRecord(c) BY <1>11, EndsRecordWhat
  <2> QED BY <2>1 DEF EndsRecord, WatchTypeOK, MemoryTypes, NoWindow, NoClose, Stage, Window, Round,
       CloseStages, NoPrint, machine, kept, bounds
<1>12. ASSUME NEW c \in Closers, FollowForgets(c) PROVE MemoryTypes'
  <2>1. Forgets(c) BY <1>12, ForgetsWhat
  <2> QED BY <2>1 DEF Forgets, Erased, OpenRecords, WatchTypeOK, MemoryTypes, NoWindow, NoClose, Stage,
       Window, Round, CloseStages, NoPrint, machine, kept, bounds
<1>13. ASSUME NEW c \in Closers, FollowOpens(c) PROVE MemoryTypes'
  <2>1. Opens(c) BY <1>13, OpensWhat
  <2> QED BY <2>1 DEF Opens, WatchTypeOK, MemoryTypes, NoWindow, NoClose, Stage, Window, Round,
       CloseStages, NoPrint, machine, kept, bounds
<1>14. CASE RoundCatchesUp
  BY <1>14 DEF RoundCatchesUp, Answered, Refused, NoRound, WatchTypeOK, MemoryTypes, NoWindow, NoClose,
       Stage, Window, Round, CloseStages, NoPrint, machine, kept, bounds
<1>15. ASSUME NEW p \in Prints, RoundFollows(p) PROVE MemoryTypes'
  BY <1>15 DEF RoundFollows, WatchTypeOK, MemoryTypes, NoWindow, NoClose, Stage, Window, Round,
       CloseStages, NoPrint, machine, kept, bounds
<1>16. CASE RoundLooks
  BY <1>16 DEF RoundLooks, NoRound, WatchTypeOK, MemoryTypes, NoWindow, NoClose, Stage, Window, Round,
       CloseStages, NoPrint, machine, kept, bounds
<1>17. CASE RoundCompares
  <2>1. Compares BY <1>17, ComparesWhat
  <2>2. window' \in Window /\ round' \in Round /\ UNCHANGED <<closing, pending_ends>>
    BY <2>1 DEF Compares
  <2> QED BY <2>2 DEF WatchTypeOK, MemoryTypes
<1>18. CASE RoundWrites
  BY <1>18 DEF RoundWrites, Answered, Refused, NoRound, WatchTypeOK, MemoryTypes, NoWindow, NoClose,
       Stage, Window, Round, CloseStages, NoPrint, machine, kept, bounds
<1>19. CASE RoundMarks
  BY <1>19 DEF RoundMarks, NoRound, WatchTypeOK, MemoryTypes, NoWindow, NoClose, Stage, Window, Round,
       CloseStages, NoPrint, machine, kept, bounds
<1>20. CASE ServerRestarts
  BY <1>20 DEF ServerRestarts, NoRound, OpenRecords, Unanswered, WatchTypeOK, MemoryTypes, NoWindow,
       NoClose, Stage, Window, Round, CloseStages, NoPrint, machine, kept, bounds
<1>21. CASE UNCHANGED watch BY <1>21, <1>0 DEF watch, machine, kept, bounds
<1> QED BY <1>1, <1>2, <1>3, <1>4, <1>5, <1>6, <1>7, <1>8, <1>9, <1>10, <1>11, <1>12, <1>13, <1>14,
     <1>15, <1>16, <1>17, <1>18, <1>19, <1>20, <1>21 DEF WatchNext

LEMMA JobKept ==
  ASSUME WatchTypeOK, JobInv, CloseInv, [WatchNext]_watch PROVE JobInv'
<1>0. UNCHANGED <<job, begun, cause, record, outcome>> => JobInv'
  BY DEF JobInv
<1>1. CASE JobStarts
  <2>1. begun \in Nat /\ job' = begun + 1 /\ begun' = begun + 1 /\ UNCHANGED <<cause, record, outcome>>
    BY <1>1 DEF JobStarts, WatchTypeOK, RecordTypes
  <2>2. \A p \in Prints : p \in Nat BY DEF Prints
  <2>3. \A p \in Prints : p = job' \/ p > begun' => cause'[p] = "running" BY <2>1, <2>2 DEF JobInv
  <2>4. \A p \in Prints : record'[p] # "none" => p <= begun' /\ p # job' BY <2>1, <2>2 DEF JobInv
  <2> QED BY <2>1, <2>3, <2>4 DEF JobInv
<1>2. CASE IdleReset
  BY <1>2, <1>0 DEF IdleReset, machine, kept, bounds
<1>3. ASSUME NEW how \in {"completed", "cancelled", "reset"}, JobStops(how) PROVE JobInv'
  BY <1>3 DEF JobStops, Reset, OpenRecords, JobInv, WatchTypeOK, RecordTypes, Prints, NoPrint, machine,
       kept, bounds
<1>4. CASE PushSetsTheFlag
  BY <1>4, <1>0 DEF PushSetsTheFlag, machine, kept, bounds
<1>5. CASE PushWrites
  BY <1>5, <1>0 DEF PushWrites, machine, kept, bounds
<1>6. CASE Adopts
  BY <1>6 DEF Adopts, PushesAtStart, Erased, OpenRecords, JobInv, WatchTypeOK, RecordTypes, Prints,
       NoPrint, machine, kept, bounds
<1>7. CASE OpensUnread
  BY <1>7 DEF OpensUnread, PushesAtStart, Erased, OpenRecords, JobInv, WatchTypeOK, RecordTypes, Prints,
       NoPrint, machine, kept, bounds
<1>8. CASE FindsRunning
  BY <1>8, <1>0 DEF FindsRunning, machine, kept, bounds
<1>9. ASSUME NEW c \in Closers, NEW p \in Prints, CloseBegins(c, p) PROVE JobInv'
  BY <1>9, <1>0 DEF CloseBegins, machine, kept, bounds
<1>10. ASSUME NEW c \in Closers, CloseSettles(c) PROVE JobInv'
  <2>1. Settles(c) BY <1>10, SettlesWhat
  <2>2. UNCHANGED <<job, begun, cause>> BY <2>1 DEF Settles, machine
  <2>3. ASSUME NEW q \in Prints
        PROVE  /\ record'[q] # "none" => q <= begun'
               /\ record'[q] \in {"settled", "ended"} => q # job'
               /\ outcome'[q] # "none" => record'[q] \in {"settled", "ended"}
    <3>1. /\ closing[c].print # job /\ record[closing[c].print] # "none"
      BY <2>1 DEF Settles
    <3> QED BY <2>1, <2>2, <3>1, SettlesEach DEF JobInv
  <2> QED BY <2>2, <2>3 DEF JobInv
<1>11. ASSUME NEW c \in Closers, CloseEndsRecord(c) PROVE JobInv'
  <2>1. EndsRecord(c) BY <1>11, EndsRecordWhat
  <2> QED BY <2>1 DEF EndsRecord, JobInv, WatchTypeOK, RecordTypes, Prints, NoPrint, machine, kept,
       bounds
<1>12. ASSUME NEW c \in Closers, FollowForgets(c) PROVE JobInv'
  BY <1>12, <1>0 DEF FollowForgets, machine, kept, bounds
<1>13. ASSUME NEW c \in Closers, FollowOpens(c) PROVE JobInv'
  BY <1>13, <1>0 DEF FollowOpens, machine, kept, bounds
<1>14. CASE RoundCatchesUp
  BY <1>14, <1>0 DEF RoundCatchesUp, machine, kept, bounds
<1>15. ASSUME NEW p \in Prints, RoundFollows(p) PROVE JobInv'
  BY <1>15, <1>0 DEF RoundFollows, machine, kept, bounds
<1>16. CASE RoundLooks
  BY <1>16, <1>0 DEF RoundLooks, machine, kept, bounds
<1>17. CASE RoundCompares
  BY <1>17, <1>0 DEF RoundCompares, machine, kept, bounds
<1>18. CASE RoundWrites
  BY <1>18, <1>0 DEF RoundWrites, machine, kept, bounds
<1>19. CASE RoundMarks
  BY <1>19, <1>0 DEF RoundMarks, machine, kept, bounds
<1>20. CASE ServerRestarts
  BY <1>20, <1>0 DEF ServerRestarts, machine, kept, bounds
<1>21. CASE UNCHANGED watch BY <1>21, <1>0 DEF watch, machine, kept, bounds
<1> QED BY <1>1, <1>2, <1>3, <1>4, <1>5, <1>6, <1>7, <1>8, <1>9, <1>10, <1>11, <1>12, <1>13, <1>14,
     <1>15, <1>16, <1>17, <1>18, <1>19, <1>20, <1>21 DEF WatchNext

LEMMA ClosesKept ==
  ASSUME WatchTypeOK, JobInv, CloseInv, OneCloser, [WatchNext]_watch PROVE CloseInv'
<1>0. UNCHANGED <<closing, job, record>> => CloseInv'
  BY DEF CloseInv
<1>1. CASE JobStarts
  <2>1. begun \in Nat /\ job' = begun + 1 /\ UNCHANGED <<closing, record>>
    BY <1>1 DEF JobStarts, WatchTypeOK, RecordTypes
  <2>2. ASSUME NEW d \in Closers, closing[d].print # NoPrint PROVE closing[d].print # job'
    <3>1. closing[d].print \in Prints /\ closing[d].print \in Nat /\ closing[d].stage \in CloseStages
      BY <2>2 DEF WatchTypeOK, MemoryTypes, Stage, Prints, NoPrint
    <3>2. record[closing[d].print] # "none" BY <2>2, <3>1 DEF CloseInv, CloseStages
    <3>3. closing[d].print <= begun BY <3>1, <3>2 DEF JobInv
    <3> QED BY <2>1, <3>1, <3>3
  <2> QED BY <2>1, <2>2 DEF CloseInv
<1>2. CASE IdleReset
  BY <1>2, <1>0 DEF IdleReset, machine, kept, bounds
<1>3. ASSUME NEW how \in {"completed", "cancelled", "reset"}, JobStops(how) PROVE CloseInv'
  BY <1>3 DEF JobStops, Reset, OpenRecords, CloseInv, JobInv, OneCloser, NoClose, RecordTypes,
       WatchTypeOK, MemoryTypes, Stage, Prints, NoPrint, machine, kept, bounds
<1>4. CASE PushSetsTheFlag
  BY <1>4, <1>0 DEF PushSetsTheFlag, machine, kept, bounds
<1>5. CASE PushWrites
  BY <1>5, <1>0 DEF PushWrites, machine, kept, bounds
<1>6. CASE Adopts
  BY <1>6 DEF Adopts, PushesAtStart, Erased, OpenRecords, CloseInv, JobInv, OneCloser, NoClose,
       RecordTypes, WatchTypeOK, MemoryTypes, Stage, Prints, NoPrint, machine, kept, bounds
<1>7. CASE OpensUnread
  BY <1>7 DEF OpensUnread, PushesAtStart, Erased, OpenRecords, CloseInv, JobInv, OneCloser, NoClose,
       RecordTypes, WatchTypeOK, MemoryTypes, Stage, Prints, NoPrint, machine, kept, bounds
<1>8. CASE FindsRunning
  BY <1>8, <1>0 DEF FindsRunning, machine, kept, bounds
<1>9. ASSUME NEW c \in Closers, NEW p \in Prints, CloseBegins(c, p) PROVE CloseInv'
  BY <1>9 DEF CloseBegins, CloseInv, JobInv, OneCloser, NoClose, RecordTypes, WatchTypeOK, MemoryTypes,
       Stage, Prints, NoPrint, machine, kept, bounds
<1>10. ASSUME NEW c \in Closers, CloseSettles(c) PROVE CloseInv'
  <2>1. Settles(c) BY <1>10, SettlesWhat
  <2> DEFINE p == closing[c].print
  <2>2. /\ p \in Prints /\ p # job /\ p # NoPrint /\ job' = job /\ record[p] \in {"open", "settled"}
        /\ \A d \in Closers : d # c => closing'[d] = closing[d]
    BY <2>1 DEF Settles, machine, Prints, NoPrint
  <2>3. ASSUME NEW d \in Closers, d # c
        PROVE  /\ closing'[d] = closing[d] /\ closing[d].print # p
               /\ closing[d].print \in Prints => record'[closing[d].print] = record[closing[d].print]
    BY <2>1, <2>2, <2>3, SettlesEach DEF OneCloser
  <2>4. closing'[c] = NoClose \/ (closing'[c].stage = "ending" /\ closing'[c].print = p /\ record'[p] = "settled")
    BY <2>1, SettlesEach
  <2> HIDE DEF p
  <2>5. ASSUME NEW d \in Closers, d # c
        PROVE  /\ closing'[d].stage = "none" <=> closing'[d].print = NoPrint
               /\ closing'[d].print # NoPrint => closing'[d].print # job'
               /\ closing'[d].stage = "settling" => record'[closing'[d].print] \in {"open", "settled"}
               /\ closing'[d].stage = "ending" => record'[closing'[d].print] = "settled"
               /\ closing'[d].stage \in {"following", "opening"} => record'[closing'[d].print] = "ended"
    <3>1. closing[d].print \in {NoPrint} \union Prints BY DEF WatchTypeOK, MemoryTypes, Stage
    <3> QED BY <2>2, <2>3, <2>5, <3>1 DEF CloseInv
  <2>6. /\ closing'[c].stage = "none" <=> closing'[c].print = NoPrint
        /\ closing'[c].print # NoPrint => closing'[c].print # job'
        /\ closing'[c].stage = "settling" => record'[closing'[c].print] \in {"open", "settled"}
        /\ closing'[c].stage = "ending" => record'[closing'[c].print] = "settled"
        /\ closing'[c].stage \in {"following", "opening"} => record'[closing'[c].print] = "ended"
    BY <2>2, <2>4 DEF NoClose
  <2> QED BY <2>5, <2>6 DEF CloseInv
<1>11. ASSUME NEW c \in Closers, CloseEndsRecord(c) PROVE CloseInv'
  <2>1. EndsRecord(c) BY <1>11, EndsRecordWhat
  <2> QED BY <2>1 DEF EndsRecord, CloseInv, JobInv, OneCloser, NoClose, RecordTypes, WatchTypeOK,
       MemoryTypes, Stage, Prints, NoPrint, machine, kept, bounds
<1>12. ASSUME NEW c \in Closers, FollowForgets(c) PROVE CloseInv'
  <2>1. Forgets(c) BY <1>12, ForgetsWhat
  <2> QED BY <2>1 DEF Forgets, Erased, OpenRecords, CloseInv, JobInv, OneCloser, NoClose, RecordTypes,
       WatchTypeOK, MemoryTypes, Stage, Prints, NoPrint, machine, kept, bounds
<1>13. ASSUME NEW c \in Closers, FollowOpens(c) PROVE CloseInv'
  <2>1. Opens(c) BY <1>13, OpensWhat
  <2> QED BY <2>1 DEF Opens, CloseInv, JobInv, OneCloser, NoClose, RecordTypes, WatchTypeOK,
       MemoryTypes, Stage, Prints, NoPrint, machine, kept, bounds
<1>14. CASE RoundCatchesUp
  BY <1>14, <1>0 DEF RoundCatchesUp, machine, kept, bounds
<1>15. ASSUME NEW p \in Prints, RoundFollows(p) PROVE CloseInv'
  BY <1>15 DEF RoundFollows, CloseInv, JobInv, OneCloser, NoClose, RecordTypes, WatchTypeOK,
       MemoryTypes, Stage, Prints, NoPrint, machine, kept, bounds
<1>16. CASE RoundLooks
  BY <1>16, <1>0 DEF RoundLooks, machine, kept, bounds
<1>17. CASE RoundCompares
  BY <1>17, <1>0 DEF RoundCompares, machine, kept, bounds
<1>18. CASE RoundWrites
  BY <1>18, <1>0 DEF RoundWrites, machine, kept, bounds
<1>19. CASE RoundMarks
  BY <1>19, <1>0 DEF RoundMarks, machine, kept, bounds
<1>20. CASE ServerRestarts
  BY <1>20 DEF ServerRestarts, NoRound, OpenRecords, Unanswered, CloseInv, JobInv, OneCloser, NoClose,
       RecordTypes, WatchTypeOK, MemoryTypes, Stage, Prints, NoPrint, machine, kept, bounds
<1>21. CASE UNCHANGED watch BY <1>21, <1>0 DEF watch, machine, kept, bounds
<1> QED BY <1>1, <1>2, <1>3, <1>4, <1>5, <1>6, <1>7, <1>8, <1>9, <1>10, <1>11, <1>12, <1>13, <1>14,
     <1>15, <1>16, <1>17, <1>18, <1>19, <1>20, <1>21 DEF WatchNext

LEMMA ResetsKept ==
  ASSUME WatchTypeOK, JobInv, CloseInv, ResetsInv, [WatchNext]_watch PROVE ResetsInv'
<1>0. UNCHANGED <<blurred, record, cause, reset, wire>> => ResetsInv'
  BY DEF ResetsInv
<1>1. CASE JobStarts
  BY <1>1, <1>0 DEF JobStarts, machine, kept, bounds
<1>2. CASE IdleReset
  BY <1>2 DEF IdleReset, Reset, OpenRecords, ResetsInv, JobInv, WatchTypeOK, RecordTypes, CountTypes,
       Prints, NoPrint, machine, kept, bounds
<1>3. ASSUME NEW how \in {"completed", "cancelled", "reset"}, JobStops(how) PROVE ResetsInv'
  BY <1>3 DEF JobStops, Reset, OpenRecords, ResetsInv, JobInv, WatchTypeOK, RecordTypes, CountTypes,
       Prints, NoPrint, machine, kept, bounds
<1>4. CASE PushSetsTheFlag
  BY <1>4 DEF PushSetsTheFlag, ResetsInv, JobInv, WatchTypeOK, RecordTypes, CountTypes, Prints, NoPrint,
       machine, kept, bounds
<1>5. CASE PushWrites
  BY <1>5, <1>0 DEF PushWrites, machine, kept, bounds
<1>6. CASE Adopts
  BY <1>6 DEF Adopts, PushesAtStart, Erased, OpenRecords, ResetsInv, JobInv, WatchTypeOK, RecordTypes,
       CountTypes, Prints, NoPrint, machine, kept, bounds
<1>7. CASE OpensUnread
  BY <1>7 DEF OpensUnread, PushesAtStart, Erased, OpenRecords, ResetsInv, JobInv, WatchTypeOK,
       RecordTypes, CountTypes, Prints, NoPrint, machine, kept, bounds
<1>8. CASE FindsRunning
  BY <1>8, <1>0 DEF FindsRunning, machine, kept, bounds
<1>9. ASSUME NEW c \in Closers, NEW p \in Prints, CloseBegins(c, p) PROVE ResetsInv'
  BY <1>9, <1>0 DEF CloseBegins, machine, kept, bounds
<1>10. ASSUME NEW c \in Closers, CloseSettles(c) PROVE ResetsInv'
  <2>1. Settles(c) BY <1>10, SettlesWhat
  <2>2. UNCHANGED <<cause, reset, wire>> BY <2>1 DEF Settles, machine, kept
  <2>3. \A q \in Prints : (record'[q] = "open" => record[q] = "open") /\ (q \in blurred => q \in blurred')
    BY <2>1, SettlesEach
  <2>4. ASSUME NEW q \in Prints \ blurred', record'[q] = "open"
        PROVE  cause'[q] = "reset" <=> reset' \/ wire' > 0
    <3>1. q \in Prints \ blurred /\ record[q] = "open" BY <2>3, <2>4
    <3>2. cause[q] = "reset" <=> reset \/ wire > 0 BY <3>1 DEF ResetsInv
    <3> QED BY <2>2, <3>2
  <2> QED BY <2>4 DEF ResetsInv
<1>11. ASSUME NEW c \in Closers, CloseEndsRecord(c) PROVE ResetsInv'
  <2>1. EndsRecord(c) BY <1>11, EndsRecordWhat
  <2> QED BY <2>1 DEF EndsRecord, ResetsInv, JobInv, WatchTypeOK, RecordTypes, CountTypes, Prints,
       NoPrint, machine, kept, bounds
<1>12. ASSUME NEW c \in Closers, FollowForgets(c) PROVE ResetsInv'
  <2>1. Forgets(c) BY <1>12, ForgetsWhat
  <2> QED BY <2>1 DEF Forgets, Erased, OpenRecords, ResetsInv, JobInv, WatchTypeOK, RecordTypes,
       CountTypes, Prints, NoPrint, machine, kept, bounds
<1>13. ASSUME NEW c \in Closers, FollowOpens(c) PROVE ResetsInv'
  BY <1>13, <1>0 DEF FollowOpens, machine, kept, bounds
<1>14. CASE RoundCatchesUp
  BY <1>14, <1>0 DEF RoundCatchesUp, machine, kept, bounds
<1>15. ASSUME NEW p \in Prints, RoundFollows(p) PROVE ResetsInv'
  BY <1>15, <1>0 DEF RoundFollows, machine, kept, bounds
<1>16. CASE RoundLooks
  BY <1>16, <1>0 DEF RoundLooks, machine, kept, bounds
<1>17. CASE RoundCompares
  BY <1>17, <1>0 DEF RoundCompares, machine, kept, bounds
<1>18. CASE RoundWrites
  BY <1>18, <1>0 DEF RoundWrites, machine, kept, bounds
<1>19. CASE RoundMarks
  BY <1>19, <1>0 DEF RoundMarks, machine, kept, bounds
<1>20. CASE ServerRestarts
  BY <1>20 DEF ServerRestarts, NoRound, OpenRecords, Unanswered, ResetsInv, JobInv, WatchTypeOK,
       RecordTypes, CountTypes, Prints, NoPrint, machine, kept, bounds
<1>21. CASE UNCHANGED watch BY <1>21, <1>0 DEF watch, machine, kept, bounds
<1> QED BY <1>1, <1>2, <1>3, <1>4, <1>5, <1>6, <1>7, <1>8, <1>9, <1>10, <1>11, <1>12, <1>13, <1>14,
     <1>15, <1>16, <1>17, <1>18, <1>19, <1>20, <1>21 DEF WatchNext

LEMMA OutcomesKept ==
  ASSUME WatchTypeOK, JobInv, CloseInv, ResetsInv, ResetsReachTheirPrint, [WatchNext]_watch PROVE ResetsReachTheirPrint'
<1>0. UNCHANGED <<blurred, outcome, cause>> => ResetsReachTheirPrint'
  BY DEF ResetsReachTheirPrint
<1>1. CASE JobStarts
  BY <1>1, <1>0 DEF JobStarts, machine, kept, bounds
<1>2. CASE IdleReset
  BY <1>2 DEF IdleReset, Reset, OpenRecords, ResetsReachTheirPrint, ResetsInv, JobInv, WatchTypeOK,
       RecordTypes, CountTypes, Prints, NoPrint, machine, kept, bounds
<1>3. ASSUME NEW how \in {"completed", "cancelled", "reset"}, JobStops(how) PROVE ResetsReachTheirPrint'
  BY <1>3 DEF JobStops, Reset, OpenRecords, ResetsReachTheirPrint, ResetsInv, JobInv, WatchTypeOK,
       RecordTypes, CountTypes, Prints, NoPrint, machine, kept, bounds
<1>4. CASE PushSetsTheFlag
  BY <1>4, <1>0 DEF PushSetsTheFlag, machine, kept, bounds
<1>5. CASE PushWrites
  BY <1>5, <1>0 DEF PushWrites, machine, kept, bounds
<1>6. CASE Adopts
  BY <1>6 DEF Adopts, PushesAtStart, Erased, OpenRecords, ResetsReachTheirPrint, ResetsInv, JobInv,
       WatchTypeOK, RecordTypes, CountTypes, Prints, NoPrint, machine, kept, bounds
<1>7. CASE OpensUnread
  BY <1>7 DEF OpensUnread, PushesAtStart, Erased, OpenRecords, ResetsReachTheirPrint, ResetsInv, JobInv,
       WatchTypeOK, RecordTypes, CountTypes, Prints, NoPrint, machine, kept, bounds
<1>8. CASE FindsRunning
  BY <1>8, <1>0 DEF FindsRunning, machine, kept, bounds
<1>9. ASSUME NEW c \in Closers, NEW p \in Prints, CloseBegins(c, p) PROVE ResetsReachTheirPrint'
  BY <1>9, <1>0 DEF CloseBegins, machine, kept, bounds
<1>10. ASSUME NEW c \in Closers, CloseSettles(c) PROVE ResetsReachTheirPrint'
  <2>1. Settles(c) BY <1>10, SettlesWhat
  <2> DEFINE p == closing[c].print
  <2>2. cause' = cause /\ p \in Prints BY <2>1 DEF Settles, machine
  <2>3. ASSUME NEW q \in Prints \ blurred', q # p
        PROVE  outcome'[q] # "none" => (outcome'[q] = "interrupted" <=> cause'[q] = "reset")
    BY <2>1, <2>2, <2>3, SettlesEach DEF ResetsReachTheirPrint
  <2>4. ASSUME p \notin blurred'
        PROVE  outcome'[p] # "none" => (outcome'[p] = "interrupted" <=> cause'[p] = "reset")
    <3>1. CASE outcome'[p] = outcome[p] /\ blurred' = blurred BY <2>2, <2>4, <3>1 DEF ResetsReachTheirPrint
    <3>2. CASE /\ record[p] = "open" /\ blurred \subseteq blurred'
               /\ outcome'[p] = IF cause[p] = "completed" THEN "completed"
                                ELSE IF reset THEN "interrupted" ELSE "cancelled"
               /\ cause[p] = "reset" /\ ~reset /\ wire > 0 => p \in blurred'
      <4>1. cause[p] = "reset" <=> reset \/ wire > 0 BY <2>2, <2>4, <3>2 DEF ResetsInv
      <4> QED BY <2>2, <2>4, <3>2, <4>1
    <3> QED BY <2>1, <3>1, <3>2, SettlesEach
  <2> QED BY <2>3, <2>4 DEF ResetsReachTheirPrint
<1>11. ASSUME NEW c \in Closers, CloseEndsRecord(c) PROVE ResetsReachTheirPrint'
  BY <1>11, <1>0 DEF CloseEndsRecord, machine, kept, bounds
<1>12. ASSUME NEW c \in Closers, FollowForgets(c) PROVE ResetsReachTheirPrint'
  <2>1. Forgets(c) BY <1>12, ForgetsWhat
  <2> QED BY <2>1 DEF Forgets, Erased, OpenRecords, ResetsReachTheirPrint, ResetsInv, JobInv,
       WatchTypeOK, RecordTypes, CountTypes, Prints, NoPrint, machine, kept, bounds
<1>13. ASSUME NEW c \in Closers, FollowOpens(c) PROVE ResetsReachTheirPrint'
  BY <1>13, <1>0 DEF FollowOpens, machine, kept, bounds
<1>14. CASE RoundCatchesUp
  BY <1>14, <1>0 DEF RoundCatchesUp, machine, kept, bounds
<1>15. ASSUME NEW p \in Prints, RoundFollows(p) PROVE ResetsReachTheirPrint'
  BY <1>15, <1>0 DEF RoundFollows, machine, kept, bounds
<1>16. CASE RoundLooks
  BY <1>16, <1>0 DEF RoundLooks, machine, kept, bounds
<1>17. CASE RoundCompares
  BY <1>17, <1>0 DEF RoundCompares, machine, kept, bounds
<1>18. CASE RoundWrites
  BY <1>18, <1>0 DEF RoundWrites, machine, kept, bounds
<1>19. CASE RoundMarks
  BY <1>19, <1>0 DEF RoundMarks, machine, kept, bounds
<1>20. CASE ServerRestarts
  BY <1>20 DEF ServerRestarts, NoRound, OpenRecords, Unanswered, ResetsReachTheirPrint, ResetsInv,
       JobInv, WatchTypeOK, RecordTypes, CountTypes, Prints, NoPrint, machine, kept, bounds
<1>21. CASE UNCHANGED watch BY <1>21, <1>0 DEF watch, machine, kept, bounds
<1> QED BY <1>1, <1>2, <1>3, <1>4, <1>5, <1>6, <1>7, <1>8, <1>9, <1>10, <1>11, <1>12, <1>13, <1>14,
     <1>15, <1>16, <1>17, <1>18, <1>19, <1>20, <1>21 DEF WatchNext

LEMMA OneCloserKept ==
  ASSUME WatchTypeOK, CloseInv, OneCloser, [WatchNext]_watch PROVE OneCloser'
<1>0. UNCHANGED <<closing, pending_ends, round, record>> => OneCloser'
  BY DEF OneCloser
<1>1. CASE JobStarts
  BY <1>1, <1>0 DEF JobStarts, machine, kept, bounds
<1>2. CASE IdleReset
  BY <1>2, <1>0 DEF IdleReset, machine, kept, bounds
<1>3. ASSUME NEW how \in {"completed", "cancelled", "reset"}, JobStops(how) PROVE OneCloser'
  BY <1>3, <1>0 DEF JobStops, machine, kept, bounds
<1>4. CASE PushSetsTheFlag
  BY <1>4, <1>0 DEF PushSetsTheFlag, machine, kept, bounds
<1>5. CASE PushWrites
  BY <1>5, <1>0 DEF PushWrites, machine, kept, bounds
<1>6. CASE Adopts
  BY <1>6 DEF Adopts, PushesAtStart, Erased, OpenRecords, OneCloser, CloseInv, NoClose, WatchTypeOK,
       RecordTypes, MemoryTypes, Stage, Round, Prints, NoPrint, machine, kept, bounds
<1>7. CASE OpensUnread
  BY <1>7 DEF OpensUnread, PushesAtStart, Erased, OpenRecords, OneCloser, CloseInv, NoClose,
       WatchTypeOK, RecordTypes, MemoryTypes, Stage, Round, Prints, NoPrint, machine, kept, bounds
<1>8. CASE FindsRunning
  BY <1>8, <1>0 DEF FindsRunning, machine, kept, bounds
<1>9. ASSUME NEW c \in Closers, NEW p \in Prints, CloseBegins(c, p) PROVE OneCloser'
  BY <1>9 DEF CloseBegins, OneCloser, CloseInv, NoClose, WatchTypeOK, RecordTypes, MemoryTypes, Stage,
       Round, Prints, NoPrint, machine, kept, bounds
<1>10. ASSUME NEW c \in Closers, CloseSettles(c) PROVE OneCloser'
  <2>0. NoPrint \notin pending_ends \union round.ends
    BY DEF WatchTypeOK, MemoryTypes, Round, Prints, NoPrint
  <2>9. \A p \in pending_ends \union round.ends : p \in Prints /\ record[p] = "ended"
    BY DEF OneCloser, WatchTypeOK, MemoryTypes, Round
  <2>1. Settles(c) BY <1>10, SettlesWhat
  <2>2. /\ closing[c].print \in Prints /\ record[closing[c].print] # "ended" /\ UNCHANGED <<round, pending_ends>>
        /\ \A d \in Closers : d # c => closing'[d] = closing[d]
    BY <2>1 DEF Settles, kept
  <2>3. closing'[c].print \in {closing[c].print, NoPrint} BY <2>1, SettlesEach DEF NoClose
  <2>4. \A p \in pending_ends \union round.ends : record'[p] = record[p] BY <2>1, <2>2, <2>9, SettlesEach
  <2> QED BY <2>0, <2>2, <2>3, <2>4, CloserStays
<1>11. ASSUME NEW c \in Closers, CloseEndsRecord(c) PROVE OneCloser'
  <2>0. NoPrint \notin pending_ends \union round.ends
    BY DEF WatchTypeOK, MemoryTypes, Round, Prints, NoPrint
  <2>9. \A p \in pending_ends \union round.ends : p \in Prints /\ record[p] = "ended"
    BY DEF OneCloser, WatchTypeOK, MemoryTypes, Round
  <2>1. EndsRecord(c) BY <1>11, EndsRecordWhat
  <2>2. /\ closing[c].print \in Prints /\ UNCHANGED <<round, pending_ends>>
        /\ \A d \in Closers : d # c => closing'[d] = closing[d]
        /\ closing'[c].print \in {closing[c].print, NoPrint}
    BY <2>1 DEF EndsRecord, kept
  <2>3. \A p \in pending_ends \union round.ends : record'[p] = record[p]
    BY <2>1, <2>9 DEF EndsRecord, WatchTypeOK, RecordTypes
  <2> QED BY <2>0, <2>2, <2>3, CloserStays
<1>12. ASSUME NEW c \in Closers, FollowForgets(c) PROVE OneCloser'
  <2>0. NoPrint \notin pending_ends \union round.ends
    BY DEF WatchTypeOK, MemoryTypes, Round, Prints, NoPrint
  <2>1. Forgets(c) BY <1>12, ForgetsWhat
  <2>2. /\ \A d \in Closers : d # c => closing'[d] = closing[d]
        /\ closing[c].print # NoPrint /\ record[closing[c].print] = "ended" /\ UNCHANGED <<record, round>>
    BY <2>1 DEF Forgets, Prints, NoPrint
  <2>3. CASE UNCHANGED pending_ends
    <3>1. closing'[c].print \in {closing[c].print, NoPrint} BY <2>1 DEF Forgets, NoClose
    <3> QED BY <2>0, <2>2, <2>3, <3>1, CloserStays
  <2>4. CASE closing'[c] = NoClose /\ pending_ends' = pending_ends \union {closing[c].print}
    <3>1. closing'[c].print = NoPrint BY <2>4 DEF NoClose
    <3> QED BY <2>0, <2>2, <2>4, <3>1, CloserOwes
  <2> QED BY <2>1, <2>3, <2>4 DEF Forgets
<1>13. ASSUME NEW c \in Closers, FollowOpens(c) PROVE OneCloser'
  <2>0. NoPrint \notin pending_ends \union round.ends
    BY DEF WatchTypeOK, MemoryTypes, Round, Prints, NoPrint
  <2>1. Opens(c) BY <1>13, OpensWhat
  <2>2. /\ \A d \in Closers : d # c => closing'[d] = closing[d]
        /\ closing[c].print # NoPrint /\ record[closing[c].print] = "ended" /\ UNCHANGED <<record, round>>
        /\ closing'[c].print = NoPrint
    BY <2>1 DEF Opens, NoClose, Prints, NoPrint
  <2>3. CASE UNCHANGED pending_ends BY <2>0, <2>2, <2>3, CloserStays
  <2>4. CASE pending_ends' = pending_ends \union {closing[c].print} BY <2>0, <2>2, <2>4, CloserOwes
  <2> QED BY <2>1, <2>3, <2>4 DEF Opens
<1>14. CASE RoundCatchesUp
  BY <1>14 DEF RoundCatchesUp, Answered, Refused, NoRound, OneCloser, CloseInv, NoClose, WatchTypeOK,
       RecordTypes, MemoryTypes, Stage, Round, Prints, NoPrint, machine, kept, bounds
<1>15. ASSUME NEW p \in Prints, RoundFollows(p) PROVE OneCloser'
  BY <1>15 DEF RoundFollows, OneCloser, CloseInv, NoClose, WatchTypeOK, RecordTypes, MemoryTypes, Stage,
       Round, Prints, NoPrint, machine, kept, bounds
<1>16. CASE RoundLooks
  BY <1>16 DEF RoundLooks, NoRound, OneCloser, CloseInv, NoClose, WatchTypeOK, RecordTypes, MemoryTypes,
       Stage, Round, Prints, NoPrint, machine, kept, bounds
<1>17. CASE RoundCompares
  <2>1. Compares BY <1>17, ComparesWhat
  <2>2. UNCHANGED <<record, closing, pending_ends>> BY <2>1 DEF Compares
  <2>3. round.ends = {} /\ round'.ends = {} BY <2>1 DEF Compares, NoRound, OneCloser
  <2> QED BY <2>2, <2>3 DEF OneCloser
<1>18. CASE RoundWrites
  BY <1>18 DEF RoundWrites, Answered, Refused, NoRound, OneCloser, CloseInv, NoClose, WatchTypeOK,
       RecordTypes, MemoryTypes, Stage, Round, Prints, NoPrint, machine, kept, bounds
<1>19. CASE RoundMarks
  BY <1>19 DEF RoundMarks, NoRound, OneCloser, CloseInv, NoClose, WatchTypeOK, RecordTypes, MemoryTypes,
       Stage, Round, Prints, NoPrint, machine, kept, bounds
<1>20. CASE ServerRestarts
  BY <1>20 DEF ServerRestarts, NoRound, OpenRecords, Unanswered, OneCloser, CloseInv, NoClose,
       WatchTypeOK, RecordTypes, MemoryTypes, Stage, Round, Prints, NoPrint, machine, kept, bounds
<1>21. CASE UNCHANGED watch BY <1>21, <1>0 DEF watch, machine, kept, bounds
<1> QED BY <1>1, <1>2, <1>3, <1>4, <1>5, <1>6, <1>7, <1>8, <1>9, <1>10, <1>11, <1>12, <1>13, <1>14,
     <1>15, <1>16, <1>17, <1>18, <1>19, <1>20, <1>21 DEF WatchNext

LEMMA UnclaimedKept ==
  ASSUME WatchTypeOK, CloseInv, Unclaimed, [WatchNext]_watch PROVE Unclaimed'
<1>0. UNCHANGED <<record, claims>> => Unclaimed'
  BY DEF Unclaimed
<1>1. CASE JobStarts
  BY <1>1, <1>0 DEF JobStarts, machine, kept, bounds
<1>2. CASE IdleReset
  BY <1>2, <1>0 DEF IdleReset, machine, kept, bounds
<1>3. ASSUME NEW how \in {"completed", "cancelled", "reset"}, JobStops(how) PROVE Unclaimed'
  BY <1>3, <1>0 DEF JobStops, machine, kept, bounds
<1>4. CASE PushSetsTheFlag
  BY <1>4, <1>0 DEF PushSetsTheFlag, machine, kept, bounds
<1>5. CASE PushWrites
  BY <1>5, <1>0 DEF PushWrites, machine, kept, bounds
<1>6. CASE Adopts
  BY <1>6 DEF Adopts, PushesAtStart, Erased, OpenRecords, Unclaimed, WatchTypeOK, RecordTypes, Prints,
       NoPrint, machine, kept, bounds
<1>7. CASE OpensUnread
  BY <1>7 DEF OpensUnread, PushesAtStart, Erased, OpenRecords, Unclaimed, WatchTypeOK, RecordTypes,
       Prints, NoPrint, machine, kept, bounds
<1>8. CASE FindsRunning
  BY <1>8, <1>0 DEF FindsRunning, machine, kept, bounds
<1>9. ASSUME NEW c \in Closers, NEW p \in Prints, CloseBegins(c, p) PROVE Unclaimed'
  BY <1>9, <1>0 DEF CloseBegins, machine, kept, bounds
<1>10. ASSUME NEW c \in Closers, CloseSettles(c) PROVE Unclaimed'
  <2>1. Settles(c) BY <1>10, SettlesWhat
  <2> QED BY <2>1 DEF Settles, Unclaimed, WatchTypeOK, RecordTypes, Prints, NoPrint, machine, kept,
       bounds
<1>11. ASSUME NEW c \in Closers, CloseEndsRecord(c) PROVE Unclaimed'
  <2>1. EndsRecord(c) BY <1>11, EndsRecordWhat
  <2> QED BY <2>1 DEF EndsRecord, Unclaimed, WatchTypeOK, RecordTypes, Prints, NoPrint, machine, kept,
       bounds
<1>12. ASSUME NEW c \in Closers, FollowForgets(c) PROVE Unclaimed'
  BY <1>12, <1>0 DEF FollowForgets, machine, kept, bounds
<1>13. ASSUME NEW c \in Closers, FollowOpens(c) PROVE Unclaimed'
  <2>1. Opens(c) BY <1>13, OpensWhat
  <2> QED BY <2>1 DEF Opens, Unclaimed, WatchTypeOK, RecordTypes, Prints, NoPrint, machine, kept, bounds
<1>14. CASE RoundCatchesUp
  BY <1>14, <1>0 DEF RoundCatchesUp, machine, kept, bounds
<1>15. ASSUME NEW p \in Prints, RoundFollows(p) PROVE Unclaimed'
  BY <1>15, <1>0 DEF RoundFollows, machine, kept, bounds
<1>16. CASE RoundLooks
  BY <1>16, <1>0 DEF RoundLooks, machine, kept, bounds
<1>17. CASE RoundCompares
  BY <1>17, <1>0 DEF RoundCompares, machine, kept, bounds
<1>18. CASE RoundWrites
  BY <1>18, <1>0 DEF RoundWrites, machine, kept, bounds
<1>19. CASE RoundMarks
  BY <1>19, <1>0 DEF RoundMarks, machine, kept, bounds
<1>20. CASE ServerRestarts
  BY <1>20, <1>0 DEF ServerRestarts, machine, kept, bounds
<1>21. CASE UNCHANGED watch BY <1>21, <1>0 DEF watch, machine, kept, bounds
<1> QED BY <1>1, <1>2, <1>3, <1>4, <1>5, <1>6, <1>7, <1>8, <1>9, <1>10, <1>11, <1>12, <1>13, <1>14,
     <1>15, <1>16, <1>17, <1>18, <1>19, <1>20, <1>21 DEF WatchNext

LEMMA PushesCountedKept ==
  ASSUME WatchTypeOK, CloseInv, PushesCounted, [WatchNext]_watch PROVE PushesCounted'
<1>0. UNCHANGED <<pushed, resets, pending_resets, wire, writing>> => PushesCounted'
  BY DEF PushesCounted
<1>1. CASE JobStarts
  BY <1>1, <1>0 DEF JobStarts, machine, kept, bounds
<1>2. CASE IdleReset
  BY <1>2 DEF IdleReset, Reset, OpenRecords, PushesCounted, WatchTypeOK, CountTypes, machine, kept,
       bounds
<1>3. ASSUME NEW how \in {"completed", "cancelled", "reset"}, JobStops(how) PROVE PushesCounted'
  BY <1>3 DEF JobStops, Reset, OpenRecords, PushesCounted, WatchTypeOK, CountTypes, machine, kept,
       bounds
<1>4. CASE PushSetsTheFlag
  BY <1>4 DEF PushSetsTheFlag, PushesCounted, WatchTypeOK, CountTypes, machine, kept, bounds
<1>5. CASE PushWrites
  BY <1>5 DEF PushWrites, Answered, Refused, PushesCounted, WatchTypeOK, CountTypes, machine, kept,
       bounds
<1>6. CASE Adopts
  BY <1>6, <1>0 DEF Adopts, machine, kept, bounds
<1>7. CASE OpensUnread
  BY <1>7, <1>0 DEF OpensUnread, machine, kept, bounds
<1>8. CASE FindsRunning
  BY <1>8, <1>0 DEF FindsRunning, machine, kept, bounds
<1>9. ASSUME NEW c \in Closers, NEW p \in Prints, CloseBegins(c, p) PROVE PushesCounted'
  BY <1>9, <1>0 DEF CloseBegins, machine, kept, bounds
<1>10. ASSUME NEW c \in Closers, CloseSettles(c) PROVE PushesCounted'
  BY <1>10, <1>0 DEF CloseSettles, machine, kept, bounds
<1>11. ASSUME NEW c \in Closers, CloseEndsRecord(c) PROVE PushesCounted'
  BY <1>11, <1>0 DEF CloseEndsRecord, machine, kept, bounds
<1>12. ASSUME NEW c \in Closers, FollowForgets(c) PROVE PushesCounted'
  BY <1>12, <1>0 DEF FollowForgets, machine, kept, bounds
<1>13. ASSUME NEW c \in Closers, FollowOpens(c) PROVE PushesCounted'
  BY <1>13, <1>0 DEF FollowOpens, machine, kept, bounds
<1>14. CASE RoundCatchesUp
  BY <1>14 DEF RoundCatchesUp, Answered, Refused, NoRound, PushesCounted, WatchTypeOK, CountTypes,
       machine, kept, bounds
<1>15. ASSUME NEW p \in Prints, RoundFollows(p) PROVE PushesCounted'
  BY <1>15, <1>0 DEF RoundFollows, machine, kept, bounds
<1>16. CASE RoundLooks
  BY <1>16, <1>0 DEF RoundLooks, machine, kept, bounds
<1>17. CASE RoundCompares
  BY <1>17, <1>0 DEF RoundCompares, machine, kept, bounds
<1>18. CASE RoundWrites
  BY <1>18, <1>0 DEF RoundWrites, machine, kept, bounds
<1>19. CASE RoundMarks
  BY <1>19, <1>0 DEF RoundMarks, machine, kept, bounds
<1>20. CASE ServerRestarts
  BY <1>20 DEF ServerRestarts, NoRound, OpenRecords, Unanswered, PushesCounted, WatchTypeOK, CountTypes,
       machine, kept, bounds
<1>21. CASE UNCHANGED watch BY <1>21, <1>0 DEF watch, machine, kept, bounds
<1> QED BY <1>1, <1>2, <1>3, <1>4, <1>5, <1>6, <1>7, <1>8, <1>9, <1>10, <1>11, <1>12, <1>13, <1>14,
     <1>15, <1>16, <1>17, <1>18, <1>19, <1>20, <1>21 DEF WatchNext

LEMMA EndsAnsweredKept ==
  ASSUME WatchTypeOK, CloseInv, JobInv, OneCloser, Unclaimed, EndsAnswered, [WatchNext]_watch PROVE EndsAnswered'
<1>0. UNCHANGED <<forgotten, record, outcome, claims, pending_ends, round, closing>> => EndsAnswered'
  BY DEF EndsAnswered, Following
<1>1. CASE JobStarts
  BY <1>1, <1>0 DEF JobStarts, machine, kept, bounds
<1>2. CASE IdleReset
  BY <1>2, <1>0 DEF IdleReset, machine, kept, bounds
<1>3. ASSUME NEW how \in {"completed", "cancelled", "reset"}, JobStops(how) PROVE EndsAnswered'
  BY <1>3, <1>0 DEF JobStops, machine, kept, bounds
<1>4. CASE PushSetsTheFlag
  BY <1>4, <1>0 DEF PushSetsTheFlag, machine, kept, bounds
<1>5. CASE PushWrites
  BY <1>5, <1>0 DEF PushWrites, machine, kept, bounds
<1>6. CASE Adopts
  BY <1>6 DEF Adopts, PushesAtStart, Erased, OpenRecords, EndsAnswered, Following, JobInv, CloseInv,
       OneCloser, Unclaimed, NoClose, RecordTypes, WatchTypeOK, MemoryTypes, Stage, Round, Prints,
       NoPrint, machine, kept, bounds
<1>7. CASE OpensUnread
  BY <1>7 DEF OpensUnread, PushesAtStart, Erased, OpenRecords, EndsAnswered, Following, JobInv,
       CloseInv, OneCloser, Unclaimed, NoClose, RecordTypes, WatchTypeOK, MemoryTypes, Stage, Round,
       Prints, NoPrint, machine, kept, bounds
<1>8. CASE FindsRunning
  BY <1>8, <1>0 DEF FindsRunning, machine, kept, bounds
<1>9. ASSUME NEW c \in Closers, NEW p \in Prints, CloseBegins(c, p) PROVE EndsAnswered'
  BY <1>9 DEF CloseBegins, EndsAnswered, Following, JobInv, CloseInv, OneCloser, Unclaimed, NoClose,
       RecordTypes, WatchTypeOK, MemoryTypes, Stage, Round, Prints, NoPrint, machine, kept, bounds
<1>10. ASSUME NEW c \in Closers, CloseSettles(c) PROVE EndsAnswered'
  <2> SUFFICES ASSUME NEW q \in Prints \ forgotten', record'[q] = "ended", outcome'[q] = "interrupted"
               PROVE  claims'[q] = IF Following(q)' THEN 0 ELSE 1
    BY DEF EndsAnswered
  <2>1. Settles(c) BY <1>10, SettlesWhat
  <2>2. /\ \A d \in Closers : d # c => closing'[d] = closing[d]
        /\ closing'[c].print \in {closing[c].print, NoPrint} /\ record'[closing[c].print] # "ended"
        /\ UNCHANGED <<forgotten, claims, round, pending_ends>>
    BY <2>1, SettlesEach DEF Settles, kept, NoClose
  <2>3. q \in Prints /\ q # closing[c].print BY <2>2
  <2>4. Following(q)' <=> Following(q) BY <2>2, <2>3, FollowedElsewhere
  <2>5. record[q] = "ended" /\ outcome[q] = "interrupted" BY <2>1, <2>3, SettlesEach
  <2>6. claims[q] = IF Following(q) THEN 0 ELSE 1 BY <2>2, <2>5 DEF EndsAnswered
  <2> QED BY <2>2, <2>4, <2>6
<1>11. ASSUME NEW c \in Closers, CloseEndsRecord(c) PROVE EndsAnswered'
  <2> SUFFICES ASSUME NEW q \in Prints \ forgotten', record'[q] = "ended", outcome'[q] = "interrupted"
               PROVE  claims'[q] = IF Following(q)' THEN 0 ELSE 1
    BY DEF EndsAnswered
  <2>1. EndsRecord(c) BY <1>11, EndsRecordWhat
  <2>2. /\ \A d \in Closers : d # c => closing'[d] = closing[d]
        /\ closing'[c].print = closing[c].print /\ closing'[c].stage = "following"
        /\ closing[c].print \in Prints /\ record[closing[c].print] = "settled"
        /\ UNCHANGED <<forgotten, outcome, claims, round, pending_ends>>
    BY <2>1 DEF EndsRecord, kept
  <2>3. CASE q = closing[c].print
    <3>1. Following(q)' BY <2>2, <2>3 DEF Following
    <3>2. claims[q] = 0 BY <2>2, <2>3 DEF Unclaimed
    <3> QED BY <2>2, <3>1, <3>2
  <2>4. CASE q # closing[c].print
    <3>1. Following(q)' <=> Following(q) BY <2>2, <2>4, FollowedElsewhere
    <3>2. record[q] = "ended" BY <2>1, <2>4 DEF EndsRecord, WatchTypeOK, RecordTypes
    <3>3. claims[q] = IF Following(q) THEN 0 ELSE 1 BY <2>2, <3>2 DEF EndsAnswered
    <3> QED BY <2>2, <3>1, <3>3
  <2> QED BY <2>3, <2>4
<1>12. ASSUME NEW c \in Closers, FollowForgets(c) PROVE EndsAnswered'
  <2> SUFFICES ASSUME NEW q \in Prints \ forgotten', record'[q] = "ended", outcome'[q] = "interrupted"
               PROVE  claims'[q] = IF Following(q)' THEN 0 ELSE 1
    BY DEF EndsAnswered
  <2>1. Forgets(c) BY <1>12, ForgetsWhat
  <2>2. /\ \A d \in Closers : d # c => closing'[d] = closing[d]
        /\ closing[c].stage = "following" /\ closing'[c].print \in {closing[c].print, NoPrint}
        /\ UNCHANGED <<forgotten, record, outcome, claims, round>>
        /\ q # closing[c].print => (q \in pending_ends' <=> q \in pending_ends)
    BY <2>1 DEF Forgets, NoClose
  <2>3. claims[q] = IF Following(q) THEN 0 ELSE 1 BY <2>2 DEF EndsAnswered
  <2>4. CASE q = closing[c].print
    <3>1. Following(q) BY <2>2, <2>4 DEF Following
    <3>2. \/ closing'[c].print = q /\ closing'[c].stage = "opening"
          \/ q \in pending_ends'
      BY <2>1, <2>2, <2>4 DEF Forgets
    <3>3. Following(q)' BY <3>2 DEF Following
    <3> QED BY <2>2, <2>3, <3>1, <3>3
  <2>5. CASE q # closing[c].print
    <3>1. Following(q)' <=> Following(q) BY <2>2, <2>5, FollowedElsewhere
    <3> QED BY <2>2, <2>3, <3>1
  <2> QED BY <2>4, <2>5
<1>13. ASSUME NEW c \in Closers, FollowOpens(c) PROVE EndsAnswered'
  <2> SUFFICES ASSUME NEW q \in Prints \ forgotten', record'[q] = "ended", outcome'[q] = "interrupted"
               PROVE  claims'[q] = IF Following(q)' THEN 0 ELSE 1
    BY DEF EndsAnswered
  <2>1. Opens(c) BY <1>13, OpensWhat
  <2>2. /\ \A d \in Closers : d # c => closing'[d] = closing[d]
        /\ closing[c].stage = "opening" /\ closing'[c].print = NoPrint /\ closing[c].print \in Prints
        /\ UNCHANGED <<forgotten, record, outcome, round>>
        /\ q # closing[c].print => (q \in pending_ends' <=> q \in pending_ends)
        /\ \/ claims' = [claims EXCEPT ![closing[c].print] = @ + 1] /\ UNCHANGED pending_ends
           \/ pending_ends' = pending_ends \union {closing[c].print} /\ UNCHANGED claims
    BY <2>1 DEF Opens, NoClose
  <2>3. claims[q] = IF Following(q) THEN 0 ELSE 1 BY <2>2 DEF EndsAnswered
  <2>4. CASE q = closing[c].print
    <3>1. Following(q) BY <2>2, <2>4 DEF Following
    <3>2. CASE claims' = [claims EXCEPT ![q] = @ + 1] /\ UNCHANGED pending_ends
      <4>1. claims'[q] = 1 BY <2>3, <3>1, <3>2 DEF WatchTypeOK, RecordTypes
      <4>2. q # NoPrint /\ \A d \in Closers : closing'[d].print # q
        BY <2>2, <2>4 DEF OneCloser, Prints, NoPrint
      <4>3. q \notin pending_ends' \union round'.ends BY <2>2, <2>4, <3>2 DEF OneCloser
      <4> QED BY <4>1, <4>2, <4>3 DEF Following
    <3>3. CASE q \in pending_ends' /\ UNCHANGED claims
      <4>1. Following(q)' BY <3>3 DEF Following
      <4> QED BY <2>3, <3>1, <3>3, <4>1
    <3> QED BY <2>2, <2>4, <3>2, <3>3
  <2>5. CASE q # closing[c].print
    <3>1. Following(q)' <=> Following(q) BY <2>2, <2>5, FollowedElsewhere
    <3>2. claims'[q] = claims[q] BY <2>2, <2>5 DEF WatchTypeOK, RecordTypes
    <3> QED BY <2>3, <3>1, <3>2
  <2> QED BY <2>4, <2>5
<1>14. CASE RoundCatchesUp
  BY <1>14 DEF RoundCatchesUp, Answered, Refused, NoRound, EndsAnswered, Following, JobInv, CloseInv,
       OneCloser, Unclaimed, NoClose, RecordTypes, WatchTypeOK, MemoryTypes, Stage, Round, Prints,
       NoPrint, machine, kept, bounds
<1>15. ASSUME NEW p \in Prints, RoundFollows(p) PROVE EndsAnswered'
  <2> SUFFICES ASSUME NEW q \in Prints \ forgotten', record'[q] = "ended", outcome'[q] = "interrupted"
               PROVE  claims'[q] = IF Following(q)' THEN 0 ELSE 1
    BY DEF EndsAnswered
  <2>1. /\ closing["round"] = NoClose /\ p \in round.ends /\ UNCHANGED <<record, outcome, claims, forgotten>>
        /\ closing' = [closing EXCEPT !["round"] = [stage |-> "following", print |-> p]]
        /\ pending_ends' = pending_ends /\ round'.ends = round.ends \ {p}
    BY <1>15 DEF RoundFollows, kept, WatchTypeOK, MemoryTypes, Round
  <2>2. claims[q] = IF Following(q) THEN 0 ELSE 1 BY <2>1 DEF EndsAnswered
  <2>3. /\ closing'["round"].print = p /\ closing'["round"].stage = "following" /\ "round" \in Closers
        /\ \A d \in Closers : d # "round" => closing'[d] = closing[d]
    BY <2>1 DEF WatchTypeOK, MemoryTypes, Closers
  <2>4. Following(q)' <=> Following(q)
    <3>1. CASE q = p
      <4>1. Following(q) /\ Following(q)' BY <2>1, <2>3, <3>1 DEF Following
      <4> QED BY <4>1
    <3>2. CASE q # p
      <4>1. q # NoPrint BY DEF Prints, NoPrint
      <4>2. \A d \in Closers : /\ closing'[d].print = q <=> closing[d].print = q
                               /\ closing[d].print = q => closing'[d] = closing[d]
        BY <2>1, <2>3, <3>2, <4>1 DEF NoClose
      <4>3. q \in pending_ends' \union round'.ends <=> q \in pending_ends \union round.ends BY <2>1, <3>2
      <4> QED BY <4>2, <4>3 DEF Following
    <3> QED BY <3>1, <3>2
  <2> QED BY <2>1, <2>2, <2>4
<1>16. CASE RoundLooks
  BY <1>16 DEF RoundLooks, NoRound, EndsAnswered, Following, JobInv, CloseInv, OneCloser, Unclaimed,
       NoClose, RecordTypes, WatchTypeOK, MemoryTypes, Stage, Round, Prints, NoPrint, machine, kept,
       bounds
<1>17. CASE RoundCompares
  <2>1. Compares BY <1>17, ComparesWhat
  <2> QED BY <2>1 DEF Compares, NoRound, EndsAnswered, Following, JobInv, CloseInv, OneCloser,
       Unclaimed, NoClose, RecordTypes, WatchTypeOK, MemoryTypes, Stage, Round, Prints, NoPrint,
       machine, kept, bounds
<1>18. CASE RoundWrites
  BY <1>18 DEF RoundWrites, Answered, Refused, NoRound, EndsAnswered, Following, JobInv, CloseInv,
       OneCloser, Unclaimed, NoClose, RecordTypes, WatchTypeOK, MemoryTypes, Stage, Round, Prints,
       NoPrint, machine, kept, bounds
<1>19. CASE RoundMarks
  BY <1>19 DEF RoundMarks, NoRound, EndsAnswered, Following, JobInv, CloseInv, OneCloser, Unclaimed,
       NoClose, RecordTypes, WatchTypeOK, MemoryTypes, Stage, Round, Prints, NoPrint, machine, kept,
       bounds
<1>20. CASE ServerRestarts
  BY <1>20 DEF ServerRestarts, NoRound, OpenRecords, Unanswered, EndsAnswered, Following, JobInv,
       CloseInv, OneCloser, Unclaimed, NoClose, RecordTypes, WatchTypeOK, MemoryTypes, Stage, Round,
       Prints, NoPrint, machine, kept, bounds
<1>21. CASE UNCHANGED watch BY <1>21, <1>0 DEF watch, machine, kept, bounds
<1> QED BY <1>1, <1>2, <1>3, <1>4, <1>5, <1>6, <1>7, <1>8, <1>9, <1>10, <1>11, <1>12, <1>13, <1>14,
     <1>15, <1>16, <1>17, <1>18, <1>19, <1>20, <1>21 DEF WatchNext

LEMMA RoundKept ==
  ASSUME WatchTypeOK, CloseInv, RoundInv, [WatchNext]_watch PROVE RoundInv'
<1>0. UNCHANGED <<round, written, replaced, window>> => RoundInv'
  BY DEF RoundInv
<1>1. CASE JobStarts
  BY <1>1, <1>0 DEF JobStarts, machine, kept, bounds
<1>2. CASE IdleReset
  BY <1>2, <1>0 DEF IdleReset, machine, kept, bounds
<1>3. ASSUME NEW how \in {"completed", "cancelled", "reset"}, JobStops(how) PROVE RoundInv'
  BY <1>3, <1>0 DEF JobStops, machine, kept, bounds
<1>4. CASE PushSetsTheFlag
  BY <1>4, <1>0 DEF PushSetsTheFlag, machine, kept, bounds
<1>5. CASE PushWrites
  BY <1>5, <1>0 DEF PushWrites, machine, kept, bounds
<1>6. CASE Adopts
  BY <1>6 DEF Adopts, PushesAtStart, Erased, OpenRecords, RoundInv, NoWindow, WatchTypeOK, MemoryTypes,
       Round, Window, machine, kept, bounds
<1>7. CASE OpensUnread
  BY <1>7, <1>0 DEF OpensUnread, machine, kept, bounds
<1>8. CASE FindsRunning
  BY <1>8 DEF FindsRunning, RoundInv, NoWindow, WatchTypeOK, MemoryTypes, Round, Window, machine, kept,
       bounds
<1>9. ASSUME NEW c \in Closers, NEW p \in Prints, CloseBegins(c, p) PROVE RoundInv'
  BY <1>9, <1>0 DEF CloseBegins, machine, kept, bounds
<1>10. ASSUME NEW c \in Closers, CloseSettles(c) PROVE RoundInv'
  BY <1>10, <1>0 DEF CloseSettles, machine, kept, bounds
<1>11. ASSUME NEW c \in Closers, CloseEndsRecord(c) PROVE RoundInv'
  BY <1>11, <1>0 DEF CloseEndsRecord, machine, kept, bounds
<1>12. ASSUME NEW c \in Closers, FollowForgets(c) PROVE RoundInv'
  <2>1. Forgets(c) BY <1>12, ForgetsWhat
  <2> QED BY <2>1 DEF Forgets, Erased, OpenRecords, RoundInv, NoWindow, WatchTypeOK, MemoryTypes, Round,
       Window, machine, kept, bounds
<1>13. ASSUME NEW c \in Closers, FollowOpens(c) PROVE RoundInv'
  <2>1. Opens(c) BY <1>13, OpensWhat
  <2> QED BY <2>1 DEF Opens, RoundInv, NoWindow, WatchTypeOK, MemoryTypes, Round, Window, machine, kept,
       bounds
<1>14. CASE RoundCatchesUp
  BY <1>14 DEF RoundCatchesUp, Answered, Refused, NoRound, RoundInv, NoWindow, WatchTypeOK, MemoryTypes,
       Round, Window, machine, kept, bounds
<1>15. ASSUME NEW p \in Prints, RoundFollows(p) PROVE RoundInv'
  BY <1>15 DEF RoundFollows, RoundInv, NoWindow, WatchTypeOK, MemoryTypes, Round, Window, machine, kept,
       bounds
<1>16. CASE RoundLooks
  BY <1>16 DEF RoundLooks, NoRound, RoundInv, NoWindow, WatchTypeOK, MemoryTypes, Round, Window,
       machine, kept, bounds
<1>17. CASE RoundCompares
  <2>1. Compares BY <1>17, ComparesWhat
  <2> QED BY <2>1 DEF Compares, NoRound, RoundInv, NoWindow, WatchTypeOK, MemoryTypes, Round, Window,
       machine, kept, bounds
<1>18. CASE RoundWrites
  BY <1>18 DEF RoundWrites, Answered, Refused, NoRound, RoundInv, NoWindow, WatchTypeOK, MemoryTypes,
       Round, Window, machine, kept, bounds
<1>19. CASE RoundMarks
  BY <1>19 DEF RoundMarks, NoRound, RoundInv, NoWindow, WatchTypeOK, MemoryTypes, Round, Window,
       machine, kept, bounds
<1>20. CASE ServerRestarts
  BY <1>20 DEF ServerRestarts, NoRound, OpenRecords, Unanswered, RoundInv, NoWindow, WatchTypeOK,
       MemoryTypes, Round, Window, machine, kept, bounds
<1>21. CASE UNCHANGED watch BY <1>21, <1>0 DEF watch, machine, kept, bounds
<1> QED BY <1>1, <1>2, <1>3, <1>4, <1>5, <1>6, <1>7, <1>8, <1>9, <1>10, <1>11, <1>12, <1>13, <1>14,
     <1>15, <1>16, <1>17, <1>18, <1>19, <1>20, <1>21 DEF WatchNext

LEMMA RememberedKept ==
  ASSUME WatchTypeOK, CloseInv, RoundInv, RememberedIsWritten, [WatchNext]_watch PROVE RememberedIsWritten'
<1>0. UNCHANGED <<replaced, window, written>> => RememberedIsWritten'
  BY DEF RememberedIsWritten
<1>1. CASE JobStarts
  BY <1>1, <1>0 DEF JobStarts, machine, kept, bounds
<1>2. CASE IdleReset
  BY <1>2, <1>0 DEF IdleReset, machine, kept, bounds
<1>3. ASSUME NEW how \in {"completed", "cancelled", "reset"}, JobStops(how) PROVE RememberedIsWritten'
  BY <1>3, <1>0 DEF JobStops, machine, kept, bounds
<1>4. CASE PushSetsTheFlag
  BY <1>4, <1>0 DEF PushSetsTheFlag, machine, kept, bounds
<1>5. CASE PushWrites
  BY <1>5, <1>0 DEF PushWrites, machine, kept, bounds
<1>6. CASE Adopts
  BY <1>6 DEF Adopts, PushesAtStart, Erased, OpenRecords, RememberedIsWritten, RoundInv, NoWindow,
       WatchTypeOK, MemoryTypes, Round, Window, machine, kept, bounds
<1>7. CASE OpensUnread
  BY <1>7, <1>0 DEF OpensUnread, machine, kept, bounds
<1>8. CASE FindsRunning
  BY <1>8 DEF FindsRunning, RememberedIsWritten, RoundInv, NoWindow, WatchTypeOK, MemoryTypes, Round,
       Window, machine, kept, bounds
<1>9. ASSUME NEW c \in Closers, NEW p \in Prints, CloseBegins(c, p) PROVE RememberedIsWritten'
  BY <1>9, <1>0 DEF CloseBegins, machine, kept, bounds
<1>10. ASSUME NEW c \in Closers, CloseSettles(c) PROVE RememberedIsWritten'
  BY <1>10, <1>0 DEF CloseSettles, machine, kept, bounds
<1>11. ASSUME NEW c \in Closers, CloseEndsRecord(c) PROVE RememberedIsWritten'
  BY <1>11, <1>0 DEF CloseEndsRecord, machine, kept, bounds
<1>12. ASSUME NEW c \in Closers, FollowForgets(c) PROVE RememberedIsWritten'
  <2>1. Forgets(c) BY <1>12, ForgetsWhat
  <2> QED BY <2>1 DEF Forgets, Erased, OpenRecords, RememberedIsWritten, RoundInv, NoWindow,
       WatchTypeOK, MemoryTypes, Round, Window, machine, kept, bounds
<1>13. ASSUME NEW c \in Closers, FollowOpens(c) PROVE RememberedIsWritten'
  <2>1. Opens(c) BY <1>13, OpensWhat
  <2> QED BY <2>1 DEF Opens, RememberedIsWritten, RoundInv, NoWindow, WatchTypeOK, MemoryTypes, Round,
       Window, machine, kept, bounds
<1>14. CASE RoundCatchesUp
  BY <1>14, <1>0 DEF RoundCatchesUp, machine, kept, bounds
<1>15. ASSUME NEW p \in Prints, RoundFollows(p) PROVE RememberedIsWritten'
  BY <1>15, <1>0 DEF RoundFollows, machine, kept, bounds
<1>16. CASE RoundLooks
  BY <1>16, <1>0 DEF RoundLooks, machine, kept, bounds
<1>17. CASE RoundCompares
  <2>1. Compares BY <1>17, ComparesWhat
  <2> QED BY <2>1 DEF Compares, NoRound, RememberedIsWritten, RoundInv, NoWindow, WatchTypeOK,
       MemoryTypes, Round, Window, machine, kept, bounds
<1>18. CASE RoundWrites
  BY <1>18 DEF RoundWrites, Answered, Refused, NoRound, RememberedIsWritten, RoundInv, NoWindow,
       WatchTypeOK, MemoryTypes, Round, Window, machine, kept, bounds
<1>19. CASE RoundMarks
  BY <1>19 DEF RoundMarks, NoRound, RememberedIsWritten, RoundInv, NoWindow, WatchTypeOK, MemoryTypes,
       Round, Window, machine, kept, bounds
<1>20. CASE ServerRestarts
  BY <1>20 DEF ServerRestarts, NoRound, OpenRecords, Unanswered, RememberedIsWritten, RoundInv,
       NoWindow, WatchTypeOK, MemoryTypes, Round, Window, machine, kept, bounds
<1>21. CASE UNCHANGED watch BY <1>21, <1>0 DEF watch, machine, kept, bounds
<1> QED BY <1>1, <1>2, <1>3, <1>4, <1>5, <1>6, <1>7, <1>8, <1>9, <1>10, <1>11, <1>12, <1>13, <1>14,
     <1>15, <1>16, <1>17, <1>18, <1>19, <1>20, <1>21 DEF WatchNext

LEMMA WatchStep == WatchIInv /\ [WatchNext]_watch => WatchIInv'
<1> SUFFICES ASSUME WatchIInv, [WatchNext]_watch PROVE WatchIInv' OBVIOUS
<1> USE DEF WatchIInv
<1>1. RecordTypes' BY RecordTypesKept
<1>2. CountTypes' BY CountTypesKept
<1>3. MemoryTypes' BY MemoryTypesKept
<1>4. JobInv' BY JobKept
<1>5. CloseInv' BY ClosesKept
<1>6. ResetsInv' BY ResetsKept
<1>7. ResetsReachTheirPrint' BY OutcomesKept
<1>8. OneCloser' BY OneCloserKept
<1>9. Unclaimed' BY UnclaimedKept
<1>10. PushesCounted' BY PushesCountedKept
<1>11. EndsAnswered' BY EndsAnsweredKept
<1>12. RoundInv' BY RoundKept
<1>13. RememberedIsWritten' BY RememberedKept
<1>14. WatchTypeOK' BY <1>1, <1>2, <1>3 DEF WatchTypeOK
<1> QED BY <1>4, <1>5, <1>6, <1>7, <1>8, <1>9, <1>10, <1>11, <1>12, <1>13, <1>14

\* What the watch holds in memory stays in step with the records it reads and
\* with every task that closes a print out beside it.
THEOREM WatchInvariance == WatchSpec => []WatchIInv
<1>1. WatchInit => WatchIInv BY WatchInitial
<1>2. WatchIInv /\ [WatchNext]_watch => WatchIInv' BY WatchStep
<1> QED BY <1>1, <1>2, PTL DEF WatchSpec

\* A print is settled as interrupted exactly when a reset stopped it, for every
\* number of jobs, resets, refusals and restarts (watch.rs: "what a print's run
\* pushed is kept for its whole run").
THEOREM ResetsAreAttributed == WatchSpec => []ResetsReachTheirPrint
<1>1. WatchIInv => ResetsReachTheirPrint BY DEF WatchIInv
<1> QED BY <1>1, WatchInvariance, PTL

\* Every reset pushed is written down once, every unfinished ending gives its
\* print one turn, and an activity is remembered only once it is written,
\* however often the store refuses (watch.rs: "Each still refused is kept for
\* the round after").
THEOREM RefusedWritesAreKept == WatchSpec => []KeptUntilWritten
<1>1. WatchIInv => KeptUntilWritten
  BY DEF WatchIInv, KeptUntilWritten, KeptUntilAnswered, PushesCounted, EndsAnswered
<1> QED BY <1>1, WatchInvariance, PTL
=============================================================================
