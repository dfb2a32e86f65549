-------------------------- MODULE Filament_proofs --------------------------
(***************************************************************************)
(* That a print is charged what it fed, for any number of spools, of       *)
(* filament changes, of commands and of crashes: no unit of it twice, and  *)
(* in the end to no spool left unmarked but the one that fed it            *)
(* (Filament); and that the prints nobody watched are each accounted once, *)
(* for any number of prints, of files replaced and of starts               *)
(* (UnobservedPrints).                                                     *)
(*                                                                         *)
(* A length charged is a sum over the print's segments, so the proofs      *)
(* begin with what a sum is, go on to what one write does to a ledger, and *)
(* end with one lemma for each action.                                     *)
(***************************************************************************)
EXTENDS Filament, UnobservedPrints, FiniteSetTheorems, SequenceTheorems, WellFoundedInduction,
        NaturalsInduction, TLAPS

-----------------------------------------------------------------------------
(* Sums, and the lengths of a print's segments *)

\* The running sums of a sequence, up to its n-th.
IsSum(g, x, n) == g = [m \in 0 .. n |-> IF m = 0 THEN 0 ELSE g[m - 1] + x[m]]

\* A set of naturals that is not empty has a least member.
LEMMA LeastOf ==
  ASSUME NEW S \in SUBSET Nat, S # {}
  PROVE  \E m \in S : \A i \in S : m <= i
<1>1. IsWellFoundedOn(OpToRel(<, Nat), Nat)
  BY NatLessThanWellFounded
<1>2. PICK m \in S : \A i \in S : <<i, m>> \notin OpToRel(<, Nat)
  BY <1>1, WFMin, Zenon
<1>3. \A i \in S : ~(i < m)
  BY <1>2 DEF OpToRel
<1> QED
  BY <1>3

LEMMA SumsExist ==
  ASSUME NEW x, NEW n \in Nat
  PROVE  \E g : IsSum(g, x, n)
<1> DEFINE Bad == {i \in Nat : ~ \E g : IsSum(g, x, i)}
<1>1. SUFFICES ASSUME Bad # {} PROVE FALSE OBVIOUS
<1>2. PICK i \in Bad : \A j \in Bad : i <= j
  <2>1. Bad \subseteq Nat OBVIOUS
  <2> HIDE DEF Bad
  <2> QED BY <1>1, <2>1, LeastOf
<1>3. i # 0
  <2>1. IsSum([m \in 0 .. 0 |-> 0], x, 0) BY DEF IsSum
  <2> QED BY <2>1, <1>2
<1>4. PICK g : IsSum(g, x, i - 1)
  <2>1. i \in Nat /\ i - 1 \in Nat /\ ~(i <= i - 1) BY <1>2, <1>3
  <2>2. i - 1 \notin Bad BY <2>1, <1>2
  <2> QED BY <2>1, <2>2
<1> DEFINE h == [m \in 0 .. i |-> IF m = i THEN g[i - 1] + x[i] ELSE g[m]]
<1>5. IsSum(h, x, i)
  <2>0. i \in Nat \ {0} BY <1>2, <1>3
  <2>1. \A m \in 0 .. i : h[m] = IF m = 0 THEN 0 ELSE h[m - 1] + x[m]
    <3> SUFFICES ASSUME NEW m \in 0 .. i PROVE h[m] = IF m = 0 THEN 0 ELSE h[m - 1] + x[m] OBVIOUS
    <3>1. CASE m = i
      <4>1. i - 1 \in 0 .. i /\ i - 1 # i BY <2>0
      <4> QED BY <3>1, <4>1, <2>0
    <3>2. CASE m # i
      <4>1. m \in 0 .. i - 1 /\ (m # 0 => m - 1 \in 0 .. i /\ m - 1 # i) BY <3>2, <2>0
      <4>2. g[m] = IF m = 0 THEN 0 ELSE g[m - 1] + x[m] BY <4>1, <1>4 DEF IsSum
      <4> QED BY <3>2, <4>1, <4>2
    <3> QED BY <3>1, <3>2
  <2> QED BY <2>1 DEF IsSum
<1> QED BY <1>5, <1>2

\* Two sums over the same first lengths agree on them.
LEMMA SumsAgree ==
  ASSUME NEW x, NEW y, NEW g, NEW h, NEW n \in Nat, NEW k \in Nat, n <= k,
         IsSum(g, x, n), IsSum(h, y, k), \A m \in 1 .. n : x[m] = y[m]
  PROVE  \A m \in 0 .. n : g[m] = h[m]
<1> DEFINE Bad == {i \in 0 .. n : g[i] # h[i]}
<1>1. SUFFICES ASSUME Bad # {} PROVE FALSE OBVIOUS
<1>2. PICK i \in Bad : \A j \in Bad : i <= j
  <2>1. Bad \subseteq Nat OBVIOUS
  <2> HIDE DEF Bad
  <2> QED BY <1>1, <2>1, LeastOf
<1>3. i \in 0 .. n /\ i \in 0 .. k BY <1>2
<1>4. g[i] = (IF i = 0 THEN 0 ELSE g[i - 1] + x[i]) /\ h[i] = IF i = 0 THEN 0 ELSE h[i - 1] + y[i]
  BY <1>3 DEF IsSum
<1>5. CASE i = 0 BY <1>5, <1>4, <1>2
<1>6. CASE i # 0
  <2>1. i - 1 \in 0 .. n /\ ~(i <= i - 1) /\ i \in 1 .. n BY <1>3, <1>6
  <2>2. i - 1 \notin Bad BY <2>1, <1>2
  <2>3. g[i - 1] = h[i - 1] BY <2>1, <2>2
  <2> QED BY <2>1, <2>3, <1>4, <1>6, <1>2
<1> QED BY <1>5, <1>6

LEMMA SummedIs ==
  ASSUME NEW x \in Seq(Nat), NEW g, IsSum(g, x, Len(x))
  PROVE  Summed(x) = g[Len(x)]
<1> DEFINE upTo == CHOOSE h : h = [m \in 0 .. Len(x) |-> IF m = 0 THEN 0 ELSE h[m - 1] + x[m]]
<1>1. IsSum(upTo, x, Len(x)) BY DEF IsSum
<1>2. Summed(x) = upTo[Len(x)] BY DEF Summed
<1>3. Len(x) \in Nat BY LenProperties
<1> HIDE DEF upTo
<1>4. \A m \in 0 .. Len(x) : upTo[m] = g[m] BY <1>1, <1>3, SumsAgree
<1> QED BY <1>2, <1>3, <1>4

LEMMA SummedNat ==
  ASSUME NEW x \in Seq(Nat)
  PROVE  Summed(x) \in Nat /\ ((\A m \in DOMAIN x : x[m] = 0) => Summed(x) = 0)
<1>0. Len(x) \in Nat /\ DOMAIN x = 1 .. Len(x) /\ \A m \in 1 .. Len(x) : x[m] \in Nat BY LenProperties, ElementOfSeq
<1>1. PICK g : IsSum(g, x, Len(x)) BY <1>0, SumsExist
<1> DEFINE Bad == {i \in 0 .. Len(x) : ~(g[i] \in Nat /\ ((\A m \in DOMAIN x : x[m] = 0) => g[i] = 0))}
<1>2. CASE Bad # {}
  <2>2. PICK i \in Bad : \A j \in Bad : i <= j
    <3>1. Bad \subseteq Nat BY <1>0
    <3> HIDE DEF Bad
    <3> QED BY <1>2, <3>1, LeastOf
  <2>3. i \in 0 .. Len(x) BY <2>2
  <2>4. g[i] = IF i = 0 THEN 0 ELSE g[i - 1] + x[i] BY <2>3, <1>1 DEF IsSum
  <2>5. CASE i = 0 BY <2>5, <2>4, <2>2
  <2>6. CASE i # 0
    <3>1. i - 1 \in 0 .. Len(x) /\ ~(i <= i - 1) /\ i \in 1 .. Len(x) BY <2>3, <2>6, <1>0
    <3>2. i - 1 \notin Bad BY <3>1, <2>2
    <3>3. g[i - 1] \in Nat /\ ((\A m \in DOMAIN x : x[m] = 0) => g[i - 1] = 0) BY <3>1, <3>2
    <3> QED BY <3>1, <3>3, <2>4, <2>6, <2>2, <1>0
  <2> QED BY <2>5, <2>6
<1>3. CASE Bad = {}
  <2>1. Len(x) \notin Bad BY <1>3
  <2>2. g[Len(x)] \in Nat /\ ((\A m \in DOMAIN x : x[m] = 0) => g[Len(x)] = 0) BY <2>1, <1>0
  <2> QED BY <2>2, <1>1, SummedIs
<1> QED BY <1>2, <1>3

LEMMA SummedAppended ==
  ASSUME NEW x \in Seq(Nat), NEW e \in Nat
  PROVE  Summed(Append(x, e)) = Summed(x) + e
<1> DEFINE y == Append(x, e)
<1>0. /\ Len(x) \in Nat /\ y \in Seq(Nat) /\ Len(y) = Len(x) + 1 /\ y[Len(x) + 1] = e
      /\ \A m \in 1 .. Len(x) : x[m] = y[m]
  BY AppendProperties, LenProperties
<1> HIDE DEF y
<1>1. PICK g : IsSum(g, x, Len(x)) BY <1>0, SumsExist
<1>2. PICK h : IsSum(h, y, Len(x) + 1)
  <2>1. Len(x) + 1 \in Nat BY <1>0
  <2> QED BY <2>1, SumsExist
<1>3. \A m \in 0 .. Len(x) : g[m] = h[m] BY <1>0, <1>1, <1>2, SumsAgree
<1>4. h[Len(x) + 1] = h[Len(x)] + e
  <2>1. Len(x) + 1 \in 0 .. Len(x) + 1 /\ Len(x) + 1 # 0 /\ (Len(x) + 1) - 1 = Len(x) BY <1>0
  <2> QED BY <2>1, <1>0, <1>2 DEF IsSum
<1>5. Summed(x) = g[Len(x)] BY <1>1, SummedIs
<1>6. Summed(y) = h[Len(x) + 1] BY <1>0, <1>2, SummedIs
<1> QED BY <1>0, <1>3, <1>4, <1>5, <1>6 DEF y

-----------------------------------------------------------------------------
(* Segments *)

Segment == [to : Spools \union {None, Held}, length : Nat]
Lengths(segs) == [n \in DOMAIN segs |-> segs[n].length]
HeldLengths(segs) == [n \in DOMAIN segs |-> IF IsHeld(segs[n]) THEN segs[n].length ELSE 0]
Taken(segs, s) == [n \in DOMAIN segs |-> IF IsHeld(segs[n]) THEN [segs[n] EXCEPT !.to = s] ELSE segs[n]]

LEMMA LengthsOf ==
  ASSUME NEW segs \in Seq(Segment)
  PROVE  /\ Lengths(segs) \in Seq(Nat) /\ HeldLengths(segs) \in Seq(Nat)
         /\ Len(segs) \in Nat /\ DOMAIN segs = 1 .. Len(segs)
         /\ \A n \in DOMAIN segs : segs[n] \in Segment
<1>1. Len(segs) \in Nat /\ DOMAIN segs = 1 .. Len(segs) /\ \A n \in DOMAIN segs : segs[n] \in Segment
  BY LenProperties, ElementOfSeq
<1>2. \A n \in 1 .. Len(segs) : segs[n].length \in Nat BY <1>1 DEF Segment
<1>3. Lengths(segs) \in Seq(Nat) BY <1>1, <1>2 DEF Lengths
<1>4. HeldLengths(segs) \in Seq(Nat) BY <1>1, <1>2 DEF HeldLengths
<1> QED BY <1>1, <1>3, <1>4

LEMMA LengthsAppended ==
  ASSUME NEW segs \in Seq(Segment), NEW e \in Segment
  PROVE  /\ Append(segs, e) \in Seq(Segment)
         /\ Lengths(Append(segs, e)) = Append(Lengths(segs), e.length)
         /\ HeldLengths(Append(segs, e)) = Append(HeldLengths(segs), IF IsHeld(e) THEN e.length ELSE 0)
<1> DEFINE more == Append(segs, e)
<1>1. Len(segs) \in Nat /\ DOMAIN segs = 1 .. Len(segs) BY LengthsOf
<1>2. /\ more \in Seq(Segment) /\ Len(more) = Len(segs) + 1 /\ more[Len(segs) + 1] = e
      /\ \A n \in 1 .. Len(segs) : more[n] = segs[n]
  BY AppendProperties
<1>3. DOMAIN more = 1 .. Len(segs) + 1 BY <1>2, LenProperties
<1> HIDE DEF more
<1>4. Lengths(more) = Append(Lengths(segs), e.length)
  <2>1. Lengths(segs) \in Seq(Nat) /\ Len(Lengths(segs)) = Len(segs)
    <3>1. Lengths(segs) \in Seq(Nat) /\ DOMAIN Lengths(segs) = 1 .. Len(segs) BY <1>1, LengthsOf DEF Lengths
    <3> QED BY <3>1, <1>1, LenProperties
  <2>2. Lengths(more) \in Seq(Nat) BY <1>2, LengthsOf
  <2>3. e.length \in Nat BY DEF Segment
  <2> DEFINE added == Append(Lengths(segs), e.length)
  <2>4. /\ added \in Seq(Nat) /\ Len(added) = Len(segs) + 1 /\ added[Len(segs) + 1] = e.length
        /\ \A n \in 1 .. Len(segs) : added[n] = Lengths(segs)[n]
    BY <2>1, <2>3, AppendProperties
  <2> HIDE DEF added
  <2>5. Len(Lengths(more)) = Len(segs) + 1
    <3>1. DOMAIN Lengths(more) = 1 .. Len(segs) + 1 BY <1>3 DEF Lengths
    <3> QED BY <3>1, <2>2, <1>1, LenProperties
  <2>6. \A n \in 1 .. Len(segs) + 1 : Lengths(more)[n] = added[n] BY <2>4, <1>1, <1>2, <1>3 DEF Lengths
  <2>7. Lengths(more) = added BY <2>2, <2>4, <2>5, <2>6, SeqEqual
  <2> QED BY <2>7 DEF added
<1>5. HeldLengths(more) = Append(HeldLengths(segs), IF IsHeld(e) THEN e.length ELSE 0)
  <2> DEFINE k == IF IsHeld(e) THEN e.length ELSE 0
  <2>1. HeldLengths(segs) \in Seq(Nat) /\ Len(HeldLengths(segs)) = Len(segs)
    <3>1. HeldLengths(segs) \in Seq(Nat) /\ DOMAIN HeldLengths(segs) = 1 .. Len(segs) BY <1>1, LengthsOf DEF HeldLengths
    <3> QED BY <3>1, <1>1, LenProperties
  <2>2. HeldLengths(more) \in Seq(Nat) BY <1>2, LengthsOf
  <2>3. k \in Nat BY DEF Segment
  <2>8. IF IsHeld(e) THEN k = e.length ELSE k = 0 OBVIOUS
  <2> HIDE DEF k
  <2> DEFINE added == Append(HeldLengths(segs), k)
  <2>4. /\ added \in Seq(Nat) /\ Len(added) = Len(segs) + 1 /\ added[Len(segs) + 1] = k
        /\ \A n \in 1 .. Len(segs) : added[n] = HeldLengths(segs)[n]
    BY <2>1, <2>3, AppendProperties
  <2> HIDE DEF added
  <2>5. Len(HeldLengths(more)) = Len(segs) + 1
    <3>1. DOMAIN HeldLengths(more) = 1 .. Len(segs) + 1 BY <1>3 DEF HeldLengths
    <3> QED BY <3>1, <2>2, <1>1, LenProperties
  <2>6. \A n \in 1 .. Len(segs) + 1 : HeldLengths(more)[n] = added[n]
    BY <2>4, <2>8, <1>1, <1>2, <1>3 DEF HeldLengths
  <2>7. HeldLengths(more) = added BY <2>2, <2>4, <2>5, <2>6, SeqEqual
  <2> QED BY <2>7 DEF added, k
<1> QED BY <1>2, <1>4, <1>5 DEF more

LEMMA LengthsTaken ==
  ASSUME NEW segs \in Seq(Segment), NEW s \in Spools
  PROVE  /\ Taken(segs, s) \in Seq(Segment) /\ Lengths(Taken(segs, s)) = Lengths(segs)
         /\ Summed(HeldLengths(Taken(segs, s))) = 0
<1>1. Len(segs) \in Nat /\ DOMAIN segs = 1 .. Len(segs) /\ \A n \in DOMAIN segs : segs[n] \in Segment BY LengthsOf
<1>2. \A n \in DOMAIN segs : LET e == Taken(segs, s)[n] IN e \in Segment /\ e.length = segs[n].length /\ ~IsHeld(e)
  <2> SUFFICES ASSUME NEW n \in DOMAIN segs
               PROVE  LET e == Taken(segs, s)[n] IN e \in Segment /\ e.length = segs[n].length /\ ~IsHeld(e)
    OBVIOUS
  <2>1. Taken(segs, s)[n] = IF IsHeld(segs[n]) THEN [segs[n] EXCEPT !.to = s] ELSE segs[n] BY DEF Taken
  <2>2. segs[n] \in Segment BY <1>1
  <2>3. [segs[n] EXCEPT !.to = s] \in Segment /\ [segs[n] EXCEPT !.to = s].length = segs[n].length
        /\ [segs[n] EXCEPT !.to = s].to = s
    BY <2>2 DEF Segment
  <2>4. s # Held BY SpoolConstants
  <2> QED BY <2>1, <2>2, <2>3, <2>4 DEF IsHeld
<1>3. DOMAIN Taken(segs, s) = DOMAIN segs BY DEF Taken
<1>4. Taken(segs, s) \in Seq(Segment)
  <2>1. Taken(segs, s) = [n \in 1 .. Len(segs) |-> Taken(segs, s)[n]] BY <1>1 DEF Taken
  <2> QED BY <2>1, <1>1, <1>2
<1>5. Lengths(Taken(segs, s)) = Lengths(segs) BY <1>2, <1>3 DEF Lengths
<1>6. Summed(HeldLengths(Taken(segs, s))) = 0
  <2>1. HeldLengths(Taken(segs, s)) \in Seq(Nat) BY <1>4, LengthsOf
  <2>2. \A n \in DOMAIN HeldLengths(Taken(segs, s)) : HeldLengths(Taken(segs, s))[n] = 0 BY <1>2, <1>3 DEF HeldLengths
  <2> QED BY <2>1, <2>2, SummedNat
<1> QED BY <1>4, <1>5, <1>6

-----------------------------------------------------------------------------
(* What one write does to a ledger *)

Ledgers ==
  [segments : Seq(Segment), spent : [Spools -> Nat], loaded : Spools \union {None},
   marks : [Spools -> SUBSET Marks], retired : SUBSET Spools, settled : BOOLEAN]

\* Whom a charge may be to, or a mark on.
Chargeable == Spools \union {None}

\* All of a ledger that a write to its segments leaves alone.
SameBesides(l, m) ==
  l.loaded = m.loaded /\ l.marks = m.marks /\ l.retired = m.retired /\ l.settled = m.settled

\* What a spool has spent grows by a length, and the others' does not.
SpentMore(l, m, t, k) == \A s \in Spools : m.spent[s] = IF s = t THEN l.spent[s] + k ELSE l.spent[s]
\* A spool is marked, or cleared of marks, and the others are not.
MarkAdded(l, m, s, mark) == \A t \in Spools : m.marks[t] = IF t = s THEN l.marks[t] \union {mark} ELSE l.marks[t]
MarksRemoved(l, m, s, marks) == \A t \in Spools : m.marks[t] = IF t = s THEN l.marks[t] \ marks ELSE l.marks[t]
\* One segment more, and those before as they were.
SegmentAdded(l, m, to, k) == m.segments = Append(l.segments, [to |-> to, length |-> k])

LEMMA FedOf ==
  ASSUME NEW l \in Ledgers
  PROVE  /\ AlreadyFed(l) \in Nat /\ HeldFed(l) \in Nat
         /\ AlreadyFed(l) = Summed(Lengths(l.segments)) /\ HeldFed(l) = Summed(HeldLengths(l.segments))
         /\ (\A n \in DOMAIN l.segments : ~IsHeld(l.segments[n])) => HeldFed(l) = 0
<1>1. l.segments \in Seq(Segment) BY DEF Ledgers
<1>2. Lengths(l.segments) \in Seq(Nat) /\ HeldLengths(l.segments) \in Seq(Nat) BY <1>1, LengthsOf
<1>3. AlreadyFed(l) = Summed(Lengths(l.segments)) /\ HeldFed(l) = Summed(HeldLengths(l.segments))
  BY DEF AlreadyFed, HeldFed, Lengths, HeldLengths
<1>4. (\A n \in DOMAIN l.segments : ~IsHeld(l.segments[n])) => HeldFed(l) = 0
  <2>1. (\A n \in DOMAIN l.segments : ~IsHeld(l.segments[n]))
          => \A n \in DOMAIN HeldLengths(l.segments) : HeldLengths(l.segments)[n] = 0
    BY DEF HeldLengths
  <2> QED BY <2>1, <1>2, <1>3, SummedNat
<1> QED BY <1>2, <1>3, <1>4, SummedNat

\* A charge of the open segment adds its length to what is charged, and to what
\* its spool has spent.
LEMMA OpenCharged ==
  ASSUME NEW l \in Ledgers, NEW t \in Chargeable, NEW k \in Nat,
         NEW m, m = Charged(l, OpenSegment(l), t, k)
  PROVE  /\ m \in Ledgers /\ SameBesides(l, m)
         /\ AlreadyFed(m) = AlreadyFed(l) + k /\ HeldFed(m) = HeldFed(l)
         /\ SpentMore(l, m, t, k)
         /\ SegmentAdded(l, m, t, k)
<1> DEFINE e == [to |-> t, length |-> k]
<1> USE DEF Chargeable
<1>1. l.segments \in Seq(Segment) /\ l.spent \in [Spools -> Nat] BY DEF Ledgers
<1>2. OpenSegment(l) \notin DOMAIN l.segments BY <1>1, LengthsOf DEF OpenSegment
<1>3. e \in Segment /\ e.length = k /\ ~IsHeld(e) BY SpoolConstants DEF Segment, IsHeld
<1>4. m = [l EXCEPT !.segments = Append(@, e), !.spent = [s \in DOMAIN @ |-> IF s = t THEN @[s] + k ELSE @[s]]]
  BY <1>2 DEF Charged
<1> HIDE DEF SpentMore, SegmentAdded, e
<1> DEFINE segs == Append(l.segments, e)
           spent == [s \in Spools |-> IF s = t THEN l.spent[s] + k ELSE l.spent[s]]
<1>5. segs \in Seq(Segment) BY <1>1, <1>3, LengthsAppended
<1>12. m = [l EXCEPT !.segments = segs, !.spent = spent] BY <1>1, <1>4 DEF Ledgers
<1>13. spent \in [Spools -> Nat] /\ \A s \in Spools : spent[s] = IF s = t THEN l.spent[s] + k ELSE l.spent[s]
  BY <1>1, SpoolConstants
<1>14. segs = Append(l.segments, e) OBVIOUS
<1> HIDE DEF segs, spent
<1>6. m.segments = Append(l.segments, e) /\ SameBesides(l, m) BY <1>12, <1>14 DEF Ledgers, SameBesides
<1>7. m.spent = spent BY <1>12 DEF Ledgers
<1>8. m.spent \in [Spools -> Nat] /\ \A s \in Spools : m.spent[s] = IF s = t THEN l.spent[s] + k ELSE l.spent[s]
  BY <1>7, <1>13
<1>9. m \in Ledgers
  BY <1>5, <1>12, <1>13 DEF Ledgers
<1>10. AlreadyFed(m) = AlreadyFed(l) + k
  <2>1. Lengths(m.segments) = Append(Lengths(l.segments), k) BY <1>1, <1>3, <1>6, LengthsAppended
  <2>2. Summed(Append(Lengths(l.segments), k)) = Summed(Lengths(l.segments)) + k
    BY <1>1, LengthsOf, SummedAppended
  <2> QED BY <2>1, <2>2, <1>9, FedOf
<1>11. HeldFed(m) = HeldFed(l)
  <2>1. HeldLengths(m.segments) = Append(HeldLengths(l.segments), 0) BY <1>1, <1>3, <1>6, LengthsAppended
  <2>2. Summed(Append(HeldLengths(l.segments), 0)) = Summed(HeldLengths(l.segments)) + 0
    BY <1>1, LengthsOf, SummedAppended
  <2>3. HeldFed(l) \in Nat /\ HeldFed(l) = Summed(HeldLengths(l.segments)) BY FedOf
  <2>4. HeldFed(m) = Summed(HeldLengths(m.segments)) BY <1>9, FedOf
  <2> QED BY <2>1, <2>2, <2>3, <2>4
<1> QED BY <1>6, <1>8, <1>9, <1>10, <1>11 DEF SpentMore, SegmentAdded, e

\* Held, its length is what nobody has spent yet.
LEMMA OpenPended ==
  ASSUME NEW l \in Ledgers, NEW k \in Nat,
         NEW m, m = Pended(l, OpenSegment(l), k)
  PROVE  /\ m \in Ledgers /\ SameBesides(l, m) /\ m.spent = l.spent
         /\ AlreadyFed(m) = AlreadyFed(l) + k /\ HeldFed(m) = HeldFed(l) + k
         /\ SegmentAdded(l, m, Held, k)
<1> DEFINE e == [to |-> Held, length |-> k]
<1>1. l.segments \in Seq(Segment) BY DEF Ledgers
<1>2. OpenSegment(l) \notin DOMAIN l.segments BY <1>1, LengthsOf DEF OpenSegment
<1>3. e \in Segment /\ e.length = k /\ IsHeld(e) BY DEF Segment, IsHeld
<1>4. m = [l EXCEPT !.segments = Append(@, e)] BY <1>2 DEF Pended
<1> HIDE DEF e
<1>5. Append(l.segments, e) \in Seq(Segment) BY <1>1, <1>3, LengthsAppended
<1>6. m.segments = Append(l.segments, e) /\ SameBesides(l, m) /\ m.spent = l.spent
  BY <1>4 DEF Ledgers, SameBesides
<1>9. m \in Ledgers BY <1>4, <1>5 DEF Ledgers
<1>10. AlreadyFed(m) = AlreadyFed(l) + k
  <2>1. Lengths(m.segments) = Append(Lengths(l.segments), k) BY <1>1, <1>3, <1>6, LengthsAppended
  <2>2. Summed(Append(Lengths(l.segments), k)) = Summed(Lengths(l.segments)) + k
    BY <1>1, LengthsOf, SummedAppended
  <2> QED BY <2>1, <2>2, <1>9, FedOf
<1>11. HeldFed(m) = HeldFed(l) + k
  <2>1. HeldLengths(m.segments) = Append(HeldLengths(l.segments), k) BY <1>1, <1>3, <1>6, LengthsAppended
  <2>2. Summed(Append(HeldLengths(l.segments), k)) = Summed(HeldLengths(l.segments)) + k
    BY <1>1, LengthsOf, SummedAppended
  <2> QED BY <2>1, <2>2, <1>9, FedOf
<1> QED BY <1>6, <1>9, <1>10, <1>11 DEF SegmentAdded, e

\* A spool that takes what is held has spent it, and nothing is held any more.
LEMMA HeldTaken ==
  ASSUME NEW l \in Ledgers, NEW s \in Spools,
         NEW m, m = PendingTaken(l, s)
  PROVE  /\ m \in Ledgers /\ SameBesides(l, m)
         /\ AlreadyFed(m) = AlreadyFed(l) /\ HeldFed(m) = 0
         /\ SpentMore(l, m, s, HeldFed(l))
         /\ m.segments = Taken(l.segments, s)
<1>1. l.segments \in Seq(Segment) /\ l.spent \in [Spools -> Nat] BY DEF Ledgers
<1>2. m = [l EXCEPT !.segments = Taken(l.segments, s), !.spent[s] = @ + HeldFed(l)]
  BY DEF PendingTaken, Taken, Ledgers
<1>3. m.segments = Taken(l.segments, s) /\ SameBesides(l, m) BY <1>2 DEF Ledgers, SameBesides
<1>4. m.spent = [l.spent EXCEPT ![s] = @ + HeldFed(l)] BY <1>2 DEF Ledgers
<1>5. m.spent \in [Spools -> Nat]
      /\ \A t \in Spools : m.spent[t] = IF t = s THEN l.spent[t] + HeldFed(l) ELSE l.spent[t]
  BY <1>1, <1>4, FedOf
<1>6. Taken(l.segments, s) \in Seq(Segment) BY <1>1, LengthsTaken
<1>7. m \in Ledgers BY <1>2, <1>4, <1>5, <1>6 DEF Ledgers
<1>8. AlreadyFed(m) = AlreadyFed(l) /\ HeldFed(m) = 0 BY <1>1, <1>3, <1>7, FedOf, LengthsTaken
<1> QED BY <1>3, <1>5, <1>7, <1>8 DEF SpentMore

\* What was fed, and what is held of it, is in the segments.
LEMMA SameSegments ==
  ASSUME NEW l, NEW m, l.segments = m.segments
  PROVE  AlreadyFed(l) = AlreadyFed(m) /\ HeldFed(l) = HeldFed(m) /\ LastSpool(l) = LastSpool(m)
BY DEF AlreadyFed, HeldFed, LastSpool

\* A mark set or cleared is all that changes.
LEMMA MarkSet ==
  ASSUME NEW l \in Ledgers, NEW s \in Chargeable, NEW mark \in Marks,
         NEW m, m = Marked(l, s, mark)
  PROVE  /\ m \in Ledgers /\ m.segments = l.segments /\ m.spent = l.spent
         /\ m.loaded = l.loaded /\ m.retired = l.retired /\ m.settled = l.settled
         /\ MarkAdded(l, m, s, mark)
<1> USE DEF Chargeable
<1>1. l.marks \in [Spools -> SUBSET Marks] BY DEF Ledgers
<1>2. CASE s = None BY <1>2, SpoolConstants DEF Marked, MarkAdded
<1>3. CASE s # None
  <2> DEFINE marks == [l.marks EXCEPT ![s] = @ \union {mark}]
  <2>1. m = [l EXCEPT !.marks = marks] BY <1>3 DEF Marked, Ledgers
  <2>2. s \in Spools /\ marks \in [Spools -> SUBSET Marks] BY <1>1, <1>3
  <2>3. \A t \in Spools : marks[t] = IF t = s THEN l.marks[t] \union {mark} ELSE l.marks[t] BY <1>1
  <2> HIDE DEF marks
  <2> QED BY <2>1, <2>2, <2>3 DEF Ledgers, MarkAdded
<1> QED BY <1>2, <1>3

LEMMA MarksCleared ==
  ASSUME NEW l \in Ledgers, NEW s \in Spools, NEW marks \in SUBSET Marks,
         NEW m, m = Cleared(l, s, marks)
  PROVE  /\ m \in Ledgers /\ m.segments = l.segments /\ m.spent = l.spent
         /\ m.loaded = l.loaded /\ m.retired = l.retired /\ m.settled = l.settled
         /\ MarksRemoved(l, m, s, marks)
<1>1. l.marks \in [Spools -> SUBSET Marks] BY DEF Ledgers
<1> DEFINE left == [l.marks EXCEPT ![s] = @ \ marks]
<1>2. m = [l EXCEPT !.marks = left] BY DEF Cleared, Ledgers
<1>3. left \in [Spools -> SUBSET Marks] BY <1>1
<1>4. \A t \in Spools : left[t] = IF t = s THEN l.marks[t] \ marks ELSE l.marks[t] BY <1>1
<1> HIDE DEF left
<1> QED BY <1>2, <1>3, <1>4 DEF Ledgers, MarksRemoved

-----------------------------------------------------------------------------
(* Which spool fed how much *)

FedOver(f, s, units) == Cardinality({u \in 1 .. units : f[u] = s})

LEMMA FedIsCounted ==
  ASSUME NEW f, NEW s, NEW a \in Nat
  PROVE  /\ IsFiniteSet({u \in 1 .. a : f[u] = s}) /\ FedOver(f, s, a) \in Nat
         /\ a = 0 => FedOver(f, s, a) = 0
<1>1. IsFiniteSet(1 .. a) BY FS_Interval
<1>2. IsFiniteSet({u \in 1 .. a : f[u] = s}) BY <1>1, FS_Subset
<1>3. FedOver(f, s, a) \in Nat BY <1>2, FS_CardinalityType DEF FedOver
<1>4. a = 0 => {u \in 1 .. a : f[u] = s} = {} OBVIOUS
<1> QED BY <1>2, <1>3, <1>4, FS_EmptySet DEF FedOver

LEMMA FedGrows ==
  ASSUME NEW f, NEW s, NEW a \in Nat, NEW b \in Nat, a <= b
  PROVE  FedOver(f, s, a) <= FedOver(f, s, b)
<1>1. {u \in 1 .. a : f[u] = s} \subseteq {u \in 1 .. b : f[u] = s} OBVIOUS
<1>2. IsFiniteSet({u \in 1 .. b : f[u] = s}) BY FedIsCounted
<1> QED BY <1>1, <1>2, FS_Subset DEF FedOver

\* What one spool fed from a to b is its own, and no other's.
FedOnlyBy(f, x, a, b) == \A s : FedOver(f, s, b) = FedOver(f, s, a) + IF s = x THEN b - a ELSE 0

LEMMA FedByOne ==
  ASSUME NEW f, NEW x, NEW a \in Nat, NEW b \in Nat, a <= b, \A u \in a + 1 .. b : f[u] = x
  PROVE  FedOnlyBy(f, x, a, b)
<1> SUFFICES ASSUME NEW s PROVE FedOver(f, s, b) = FedOver(f, s, a) + IF s = x THEN b - a ELSE 0
  BY DEF FedOnlyBy
<1> DEFINE before == {u \in 1 .. a : f[u] = s}
           whole == {u \in 1 .. b : f[u] = s}
<1>1. IsFiniteSet(before) /\ Cardinality(before) \in Nat BY FedIsCounted, FS_CardinalityType
<1>2. CASE s = x
  <2>1. whole = before \union (a + 1 .. b) /\ before \intersect (a + 1 .. b) = {} BY <1>2
  <2>2. IsFiniteSet(a + 1 .. b) /\ Cardinality(a + 1 .. b) = b - a
    <3>1. a + 1 \in Int /\ b \in Int /\ (a + 1 > b => b - a = 0) /\ b - (a + 1) + 1 = b - a OBVIOUS
    <3> QED BY <3>1, FS_Interval, Zenon
  <2> HIDE DEF before, whole
  <2> DEFINE own == a + 1 .. b
  <2>4. IsFiniteSet(own) /\ Cardinality(own) = b - a /\ whole = before \union own /\ before \intersect own = {}
    BY <2>1, <2>2
  <2> HIDE DEF own
  <2>5. Cardinality({}) = 0 BY FS_EmptySet
  <2>3. Cardinality(whole) = Cardinality(before) + (b - a) BY <2>4, <2>5, <1>1, FS_Union
  <2> QED BY <2>3, <1>2 DEF FedOver, before, whole
<1>3. CASE s # x
  <2>1. whole = before BY <1>3
  <2> QED BY <2>1, <1>1, <1>3 DEF FedOver
<1> QED BY <1>2, <1>3

\* What was fed is fed: a unit more changes nothing of it.
LEMMA FedIsPast ==
  ASSUME NEW f \in Seq(Spools), NEW x \in Spools, NEW a \in 0 .. Len(f)
  PROVE  \A s : FedOver(Append(f, x), s, a) = FedOver(f, s, a)
<1>1. \A u \in 1 .. a : Append(f, x)[u] = f[u] BY LenProperties, AppendProperties
<1>2. \A s : {u \in 1 .. a : Append(f, x)[u] = s} = {u \in 1 .. a : f[u] = s} BY <1>1
<1> QED BY <1>2 DEF FedOver

-----------------------------------------------------------------------------
(* The inductive invariant, and the print itself *)

FilamentSpec == FilamentInit /\ [][FilamentNext]_filament

\* How far the print's last charge may still reach.
Reach == IF machine = "stopped" THEN IF position = None THEN 0 ELSE position ELSE Fed
OpenBy(x) == \A u \in AlreadyFed(ledger) + 1 .. Reach : feeder[u] = x
Fresh == ledger.loaded # None /\ ~HoldsChangeMark(ledger, ledger.loaded)
Doubted == HoldsChangeMark(ledger, Judged(ledger))
Share(s) == ledger.spent[s] + IF s = on THEN HeldFed(ledger) ELSE 0

Positions == {None} \union 0 .. Fed
FilamentTypes ==
  /\ feeder \in Seq(Spools) /\ Fed <= Units
  /\ on \in Spools \union {None}
  /\ machine \in {"printing", "changing", "done", "stopped"}
  /\ changes \in 0 .. MaxChanges /\ spoken \in 0 .. changes
  /\ ledger \in Ledgers
  /\ position \in Positions
  /\ told \in BOOLEAN /\ excused \in BOOLEAN /\ ended \in BOOLEAN
SignalTypes ==
  signal \in [Changes -> [at : {"none", "sent", "read", "over"}, position : Positions, fresh : BOOLEAN]]

\* What the printer waits for, and what comes after it.
JobOrder ==
  /\ machine = "changing" => changes \in Changes
  /\ machine = "done" => Fed = Units
  /\ ledger.settled => ~Runs
  /\ ended => ledger.settled
  /\ told => ledger.loaded = on
  /\ AlreadyFed(ledger) <= Fed
SignalOrder ==
  \A c \in Changes :
    /\ c < changes => signal[c].at = "over"
    /\ c > changes => signal[c].at = "none"
    /\ c <= changes => signal[c].at # "none" /\ (machine = "printing" => signal[c].at = "over")
ClosingRead ==
  closing # None =>
    /\ ~Runs
    /\ closing.total # None => closing.total \in 0 .. Reach /\ (position # None => position <= closing.total)
    /\ closing.total = None /\ ~excused => told \/ position = None

SignalsTrue ==
  \A c \in Changes : signal[c].at = "read" =>
    c = changes /\ signal[c].fresh /\ signal[c].position = position /\ position = Fed

\* A spool on the tool that no change has left in doubt fed all that is open.
Trusted ==
  Fresh =>
    /\ HeldFed(ledger) = 0 /\ OpenBy(ledger.loaded)
    /\ on = ledger.loaded \/ spoken < changes
    /\ machine \in {"printing", "done"} => on = ledger.loaded
    /\ machine = "changing" => on = ledger.loaded \/ signal[changes].at = "read"
    /\ machine = "changing" /\ signal[changes].at = "over" => spoken = changes
\* One that a change has left in doubt leaves it to the spool truly on the tool.
InDoubt ==
  Doubted =>
    /\ OpenBy(on) /\ spoken < changes
    /\ machine = "changing" /\ spoken = changes - 1 => HeldFed(ledger) = 0 /\ AlreadyFed(ledger) = Fed
\* With nobody to charge, nothing is open.
Unjudged == ledger.loaded = None /\ ~Doubted => AlreadyFed(ledger) >= Reach /\ HeldFed(ledger) = 0
ChargedAsFed == \A s \in Spools : Share(s) = FedOver(feeder, s, AlreadyFed(ledger))

Settlement ==
  \A s \in Spools :
    /\ Share(s) <= FedOver(feeder, s, Fed)
    /\ Uncharged \notin ledger.marks[s] /\ position # None => FedOver(feeder, s, position) <= Share(s)

Truth ==
  ~excused => /\ SignalsTrue
              /\ ~ledger.settled => Trusted /\ InDoubt /\ Unjudged /\ ChargedAsFed
              /\ ledger.settled => Settlement

FilamentIInv == FilamentTypes /\ SignalTypes /\ JobOrder /\ SignalOrder /\ ClosingRead /\ Truth

LEMMA FilamentInitially == FilamentInit => FilamentIInv
<1> SUFFICES ASSUME FilamentInit PROVE FilamentIInv OBVIOUS
<1> USE FilamentConstants, SpoolConstants
<1>1. /\ feeder = <<>> /\ Fed = 0 /\ position = None /\ closing = None /\ machine = "printing" /\ on = First
      /\ changes = 0 /\ spoken = 0 /\ told = TRUE /\ excused = FALSE /\ ended = FALSE
      /\ signal = [c \in Changes |-> Unsignalled]
  BY DEF FilamentInit, Fed
<1>2. ledger = [segments |-> <<>>, spent |-> [s \in Spools |-> 0], loaded |-> First,
                marks |-> [s \in Spools |-> {}], retired |-> {}, settled |-> FALSE]
  BY DEF FilamentInit, NewLedger
<1>3. ledger \in Ledgers
  <2>1. <<>> \in Seq(Segment) OBVIOUS
  <2> QED BY <1>2, <2>1 DEF Ledgers
<1>4. AlreadyFed(ledger) = 0 /\ HeldFed(ledger) = 0
  <2>1. Lengths(ledger.segments) \in Seq(Nat) /\ HeldLengths(ledger.segments) \in Seq(Nat)
    BY <1>3, LengthsOf DEF Ledgers
  <2>2. DOMAIN Lengths(ledger.segments) = {} /\ DOMAIN HeldLengths(ledger.segments) = {}
    BY <1>2 DEF Lengths, HeldLengths
  <2> QED BY <2>1, <2>2, <1>3, FedOf, SummedNat
<1>5. \A s \in Spools : FedOver(feeder, s, 0) = 0 BY FedIsCounted
<1>17. Units \in Nat /\ MaxChanges \in Nat /\ First \in Spools /\ <<>> \in Seq(Spools) OBVIOUS
<1>6. FilamentTypes
  <2>1. feeder \in Seq(Spools) /\ Fed <= Units BY <1>1, <1>17
  <2>2. changes \in 0 .. MaxChanges /\ spoken \in 0 .. changes BY <1>1, <1>17
  <2> QED BY <1>1, <1>3, <1>17, <2>1, <2>2 DEF FilamentTypes, Positions
<1>7. SignalTypes BY <1>1 DEF SignalTypes, Unsignalled, Positions
<1>8. JobOrder BY <1>1, <1>2, <1>4 DEF JobOrder, Runs
<1>9. SignalOrder BY <1>1 DEF SignalOrder, Unsignalled, Changes
<1>10. ClosingRead BY <1>1 DEF ClosingRead
<1>11. ~HoldsChangeMark(ledger, First) /\ Judged(ledger) = First BY <1>2 DEF HoldsChangeMark, Judged
<1>12. SignalsTrue BY <1>1 DEF SignalsTrue, Unsignalled
<1>18. Reach = 0 BY <1>1 DEF Reach
<1>19. \A x : OpenBy(x) BY <1>4, <1>18 DEF OpenBy
<1>13. Trusted BY <1>1, <1>2, <1>4, <1>19 DEF Trusted
<1>14. InDoubt BY <1>11 DEF InDoubt, Doubted
<1>15. Unjudged BY <1>1, <1>2, <1>4 DEF Unjudged, Reach
<1>16. ChargedAsFed BY <1>1, <1>2, <1>4, <1>5 DEF ChargedAsFed, Share
<1> QED BY <1>2, <1>6, <1>7, <1>8, <1>9, <1>10, <1>12, <1>13, <1>14, <1>15, <1>16 DEF FilamentIInv, Truth

-----------------------------------------------------------------------------
(* The printer and the person at it *)

LEMMA FeedsKeep == FilamentIInv /\ FeedUnit => FilamentIInv'
<1> SUFFICES ASSUME FilamentIInv, FeedUnit PROVE FilamentIInv' OBVIOUS
<1> USE FilamentConstants, SpoolConstants DEF FilamentIInv
<1>1. /\ machine = "printing" /\ Fed < Units /\ on # None /\ feeder' = Append(feeder, on)
      /\ excused' = (excused \/ (ledger.loaded = None /\ ~HoldsChangeMark(ledger, LastSpool(ledger))))
      /\ UNCHANGED <<machine, on, changes, ledger, position, seen, signal, closing, ended, told, spoken>>
  BY DEF FeedUnit, server
<1>2. /\ feeder \in Seq(Spools) /\ on \in Spools /\ Fed \in Nat /\ feeder' \in Seq(Spools)
      /\ Fed' = Fed + 1 /\ feeder'[Fed + 1] = on
      /\ \A u \in 1 .. Fed : feeder'[u] = feeder[u]
  BY <1>1, LenProperties, AppendProperties DEF FilamentTypes, Fed
<1>3. AlreadyFed(ledger) \in Nat /\ AlreadyFed(ledger) <= Fed BY FedOf DEF FilamentTypes, JobOrder
<1>4. Runs /\ closing = None BY <1>1 DEF Runs, ClosingRead
<1>5. FilamentTypes' BY <1>1, <1>2 DEF FilamentTypes, Positions
<1>6. SignalTypes' BY <1>1, <1>2 DEF SignalTypes, Positions
<1>7. JobOrder' BY <1>1, <1>2, <1>3 DEF JobOrder, Runs
<1>8. SignalOrder' BY <1>1 DEF SignalOrder
<1>9. ClosingRead' BY <1>1, <1>4 DEF ClosingRead
<1>10. ASSUME ~excused' PROVE SignalsTrue' /\ Trusted' /\ InDoubt' /\ Unjudged' /\ ChargedAsFed'
  <2>1. ~excused /\ ~ledger.settled BY <1>1, <1>4, <1>10 DEF JobOrder
  <2>2. SignalsTrue /\ Trusted /\ InDoubt /\ ChargedAsFed BY <2>1 DEF Truth
  <2>3. SignalsTrue'
    <3>1. \A c \in Changes : signal[c].at # "read" BY <1>1, <2>2 DEF SignalsTrue, SignalOrder, FilamentTypes, Changes
    <3> QED BY <3>1, <1>1 DEF SignalsTrue
  <2>4. OpenBy(on) => OpenBy(on)'
    <3>1. Reach = Fed /\ Reach' = Fed + 1 BY <1>1, <1>2 DEF Reach
    <3>2. \A u \in AlreadyFed(ledger) + 1 .. Fed + 1 : u \in 1 .. Fed \/ u = Fed + 1 BY <1>2, <1>3
    <3>3. ASSUME OpenBy(on), NEW u \in AlreadyFed(ledger) + 1 .. Fed + 1 PROVE feeder'[u] = on
      <4>1. u = Fed + 1 \/ (u \in 1 .. Fed /\ u \in AlreadyFed(ledger) + 1 .. Fed) BY <3>2, <1>2, <1>3
      <4>2. CASE u = Fed + 1 BY <4>2, <1>2
      <4>3. CASE u \in 1 .. Fed /\ u \in AlreadyFed(ledger) + 1 .. Fed BY <4>3, <1>2, <3>1, <3>3 DEF OpenBy
      <4> QED BY <4>1, <4>2, <4>3
    <3>4. ledger' = ledger /\ on' = on BY <1>1
    <3> QED BY <3>1, <3>3, <3>4 DEF OpenBy
  <2>5. Fresh' = Fresh /\ Doubted' = Doubted BY <1>1 DEF Fresh, Doubted
  <2>6. Trusted' BY <1>1, <2>2, <2>4, <2>5 DEF Trusted
  <2>7. InDoubt' BY <1>1, <2>2, <2>4, <2>5 DEF InDoubt
  <2>8. Unjudged' BY <1>1, <1>10 DEF Unjudged, Doubted, Judged
  <2>9. ChargedAsFed'
    <3>1. \A s : FedOver(feeder', s, AlreadyFed(ledger)) = FedOver(feeder, s, AlreadyFed(ledger))
      BY <1>1, <1>2, <1>3, FedIsPast DEF Fed
    <3> QED BY <1>1, <2>2, <3>1 DEF ChargedAsFed, Share
  <2> QED BY <2>3, <2>6, <2>7, <2>8, <2>9
<1>11. Truth' BY <1>1, <1>4, <1>10 DEF Truth, JobOrder
<1> QED BY <1>5, <1>6, <1>7, <1>8, <1>9, <1>11

LEMMA ReachingAChangeKeeps == FilamentIInv /\ ReachChange => FilamentIInv'
<1> SUFFICES ASSUME FilamentIInv, ReachChange PROVE FilamentIInv' OBVIOUS
<1> USE FilamentConstants, SpoolConstants DEF FilamentIInv
<1>1. /\ machine = "printing" /\ changes < MaxChanges /\ machine' = "changing" /\ changes' = changes + 1
      /\ signal' = [signal EXCEPT ![changes + 1].at = "sent"]
      /\ UNCHANGED <<feeder, on, ledger, position, seen, closing, ended, told, spoken, excused>>
  BY DEF ReachChange, truth
<1>2. changes \in Nat /\ changes + 1 \in Changes /\ Fed' = Fed /\ spoken \in 0 .. changes
  BY <1>1 DEF FilamentTypes, Changes, Fed
<1>3. /\ \A c \in Changes : c # changes + 1 => signal'[c] = signal[c]
      /\ signal'[changes + 1].at = "sent" /\ SignalTypes'
  BY <1>1, <1>2 DEF SignalTypes, Positions
<1>4. Runs /\ closing = None BY <1>1 DEF Runs, ClosingRead
<1>5. FilamentTypes' BY <1>1, <1>2 DEF FilamentTypes, Positions
<1>7. JobOrder' BY <1>1, <1>2 DEF JobOrder, Runs
<1>8. SignalOrder' BY <1>1, <1>2, <1>3 DEF SignalOrder, Changes
<1>9. ClosingRead' BY <1>1, <1>4 DEF ClosingRead
<1>10. ASSUME ~excused' PROVE SignalsTrue' /\ Trusted' /\ InDoubt' /\ Unjudged' /\ ChargedAsFed'
  <2>1. ~excused /\ ~ledger.settled BY <1>1, <1>4, <1>10 DEF JobOrder
  <2>2. SignalsTrue /\ Trusted /\ InDoubt /\ Unjudged /\ ChargedAsFed BY <2>1 DEF Truth
  <2>3. SignalsTrue'
    <3>1. \A c \in Changes : signal'[c].at # "read" BY <1>1, <1>2, <1>3, <2>2 DEF SignalsTrue, SignalOrder, Changes
    <3> QED BY <3>1 DEF SignalsTrue
  <2>4. Reach' = Reach /\ \A x : OpenBy(x)' = OpenBy(x) BY <1>1, <1>2 DEF OpenBy, Reach
  <2>5. Fresh' = Fresh /\ Doubted' = Doubted BY <1>1 DEF Fresh, Doubted
  <2>6. Trusted' BY <1>1, <1>2, <1>3, <2>2, <2>4, <2>5 DEF Trusted
  <2>7. InDoubt' BY <1>1, <1>2, <2>2, <2>4, <2>5 DEF InDoubt
  <2>8. Unjudged' BY <1>1, <2>2, <2>4, <2>5 DEF Unjudged
  <2>9. ChargedAsFed' BY <1>1, <2>2 DEF ChargedAsFed, Share
  <2> QED BY <2>3, <2>6, <2>7, <2>8, <2>9
<1>11. Truth' BY <1>1, <1>4, <1>10 DEF Truth, JobOrder
<1> QED BY <1>3, <1>5, <1>7, <1>8, <1>9, <1>11

LEMMA SwapsKeep == FilamentIInv /\ SwapSpool => FilamentIInv'
<1> SUFFICES ASSUME FilamentIInv, SwapSpool PROVE FilamentIInv' OBVIOUS
<1> USE FilamentConstants, SpoolConstants DEF FilamentIInv
<1>1. /\ machine = "changing" /\ signal[changes].at # "sent" /\ on' \in (Spools \union {None}) \ {on}
      /\ excused' = (excused \/ ~told \/ spoken # changes - 1) /\ told' = FALSE
      /\ UNCHANGED <<machine, feeder, changes, ledger, position, seen, signal, closing, ended, spoken>>
  BY DEF SwapSpool, server
<1>2. changes \in Changes /\ Fed' = Fed /\ Reach' = Reach /\ Fed \in Nat BY <1>1, LenProperties DEF JobOrder, Fed, Reach, FilamentTypes
<1>4. Runs /\ closing = None BY <1>1 DEF Runs, ClosingRead
<1>5. FilamentTypes' BY <1>1, <1>2 DEF FilamentTypes, Positions
<1>6. SignalTypes' BY <1>1, <1>2 DEF SignalTypes, Positions
<1>7. JobOrder' BY <1>1, <1>2 DEF JobOrder, Runs
<1>8. SignalOrder' BY <1>1 DEF SignalOrder
<1>9. ClosingRead' BY <1>1, <1>4 DEF ClosingRead
<1>10. ASSUME ~excused' PROVE SignalsTrue' /\ Trusted' /\ InDoubt' /\ Unjudged' /\ ChargedAsFed'
  <2>1. ~excused /\ ~ledger.settled /\ told /\ spoken = changes - 1 /\ ledger.loaded = on
    BY <1>1, <1>4, <1>10 DEF JobOrder
  <2>2. SignalsTrue /\ Trusted /\ InDoubt /\ Unjudged /\ ChargedAsFed BY <2>1 DEF Truth
  <2>3. SignalsTrue' BY <1>1, <1>2, <2>2 DEF SignalsTrue
  <2>4. AlreadyFed(ledger) \in Nat /\ AlreadyFed(ledger) <= Fed /\ changes \in Nat /\ Reach = Fed
    BY <1>1, <1>2, FedOf DEF FilamentTypes, JobOrder, Reach
  <2>5. Fresh' = Fresh /\ Doubted' = Doubted BY <1>1 DEF Fresh, Doubted
  <2>6. signal[changes].at = "read" \/ signal[changes].at = "over"
    BY <1>1, <1>2, <2>4 DEF SignalOrder, SignalTypes
  <2>7. Trusted'
    <3>1. OpenBy(ledger.loaded)' = OpenBy(ledger.loaded) BY <1>1, <1>2 DEF OpenBy
    <3>2. Fresh => signal[changes].at = "read" BY <1>1, <2>1, <2>2, <2>4, <2>6 DEF Trusted
    <3> QED BY <1>1, <2>1, <2>2, <2>4, <2>5, <3>1, <3>2 DEF Trusted
  <2>8. InDoubt'
    <3>1. AlreadyFed(ledger) = Fed => OpenBy(on)' BY <1>1, <1>2, <2>4 DEF OpenBy
    <3> QED BY <1>1, <1>2, <2>1, <2>2, <2>5, <3>1 DEF InDoubt
  <2>9. Unjudged' BY <1>1, <1>2, <2>2, <2>5 DEF Unjudged
  <2>10. ChargedAsFed'
    <3>1. HeldFed(ledger) = 0
      BY <1>1, <2>1, <2>2 DEF Trusted, InDoubt, Unjudged, Fresh, Doubted, Judged
    <3>2. \A s \in Spools : Share(s)' = Share(s)
      BY <1>1, <3>1 DEF Share
    <3> QED BY <1>1, <2>2, <3>2 DEF ChargedAsFed
  <2> QED BY <2>3, <2>7, <2>8, <2>9, <2>10
<1>11. Truth' BY <1>1, <1>4, <1>10 DEF Truth, JobOrder
<1> QED BY <1>5, <1>6, <1>7, <1>8, <1>9, <1>11

\* The steps that move the job on, and change nothing of the ledger.
LEMMA PrintingOnKeeps == FilamentIInv /\ PrintOn => FilamentIInv'
<1> SUFFICES ASSUME FilamentIInv, PrintOn PROVE FilamentIInv' OBVIOUS
<1> USE FilamentConstants, SpoolConstants DEF FilamentIInv
<1>1. /\ machine = "changing" /\ signal[changes].at = "over" /\ machine' = "printing"
      /\ UNCHANGED <<feeder, on, changes, ledger, position, seen, signal, closing, ended, told, spoken, excused>>
  BY DEF PrintOn, server, truth
<1>2. changes \in Changes /\ Fed' = Fed /\ Reach' = Reach BY <1>1 DEF JobOrder, Fed, Reach
<1>4. Runs /\ closing = None BY <1>1 DEF Runs, ClosingRead
<1>5. FilamentTypes' BY <1>1, <1>2 DEF FilamentTypes, Positions
<1>6. SignalTypes' BY <1>1, <1>2 DEF SignalTypes, Positions
<1>7. JobOrder' BY <1>1, <1>2 DEF JobOrder, Runs
<1>8. SignalOrder' BY <1>1, <1>2 DEF SignalOrder, FilamentTypes, Changes
<1>9. ClosingRead' BY <1>1, <1>4 DEF ClosingRead
<1>10. ASSUME ~excused' PROVE SignalsTrue' /\ Trusted' /\ InDoubt' /\ Unjudged' /\ ChargedAsFed'
  <2>1. ~excused /\ ~ledger.settled BY <1>1, <1>4, <1>10 DEF JobOrder
  <2>2. SignalsTrue /\ Trusted /\ InDoubt /\ Unjudged /\ ChargedAsFed BY <2>1 DEF Truth
  <2>3. SignalsTrue' BY <1>1, <1>2, <2>2 DEF SignalsTrue
  <2>4. \A x : OpenBy(x)' = OpenBy(x) BY <1>1, <1>2 DEF OpenBy
  <2>5. Fresh' = Fresh /\ Doubted' = Doubted BY <1>1 DEF Fresh, Doubted
  <2>6. Trusted' BY <1>1, <2>2, <2>4, <2>5 DEF Trusted
  <2>7. InDoubt' BY <1>1, <2>2, <2>4, <2>5 DEF InDoubt
  <2>8. Unjudged' BY <1>1, <1>2, <2>2, <2>5 DEF Unjudged
  <2>9. ChargedAsFed' BY <1>1, <2>2 DEF ChargedAsFed, Share
  <2> QED BY <2>3, <2>6, <2>7, <2>8, <2>9
<1>11. Truth' BY <1>1, <1>4, <1>10 DEF Truth, JobOrder
<1> QED BY <1>5, <1>6, <1>7, <1>8, <1>9, <1>11

LEMMA StopsKeep == FilamentIInv /\ JobStops => FilamentIInv'
<1> SUFFICES ASSUME FilamentIInv, JobStops PROVE FilamentIInv' OBVIOUS
<1> USE FilamentConstants, SpoolConstants DEF FilamentIInv
<1>1. /\ machine \in {"printing", "changing"} /\ machine' \in {"done", "stopped"}
      /\ machine' = "done" => machine = "printing" /\ Fed = Units
      /\ UNCHANGED <<feeder, on, changes, ledger, position, seen, signal, closing, ended, told, spoken, excused>>
  BY DEF JobStops, server, truth
<1>2. Fed' = Fed /\ Fed \in Nat BY <1>1, LenProperties DEF Fed, FilamentTypes
<1>3. Reach \in Nat /\ Reach' \in Nat /\ Reach' <= Reach
  <2>1. Reach = Fed BY <1>1 DEF Reach
  <2>2. position = None \/ position \in 0 .. Fed BY DEF FilamentTypes, Positions
  <2>3. Reach' = Fed \/ Reach' = 0 \/ (position \in 0 .. Fed /\ Reach' = position)
    BY <1>1, <1>2, <2>2 DEF Reach
  <2> QED BY <1>2, <2>1, <2>3
<1>4. Runs /\ closing = None BY <1>1 DEF Runs, ClosingRead
<1>5. FilamentTypes' BY <1>1, <1>2 DEF FilamentTypes, Positions
<1>6. SignalTypes' BY <1>1, <1>2 DEF SignalTypes, Positions
<1>7. JobOrder' BY <1>1, <1>2, <1>4 DEF JobOrder, Runs
<1>8. SignalOrder' BY <1>1, <1>2 DEF SignalOrder, FilamentTypes, Changes
<1>9. ClosingRead' BY <1>1, <1>4 DEF ClosingRead
<1>10. ASSUME ~excused' PROVE SignalsTrue' /\ Trusted' /\ InDoubt' /\ Unjudged' /\ ChargedAsFed'
  <2>1. ~excused /\ ~ledger.settled BY <1>1, <1>4, <1>10 DEF JobOrder
  <2>2. SignalsTrue /\ Trusted /\ InDoubt /\ Unjudged /\ ChargedAsFed BY <2>1 DEF Truth
  <2>3. SignalsTrue' BY <1>1, <1>2, <2>2 DEF SignalsTrue
  <2>0. AlreadyFed(ledger) \in Nat BY FedOf DEF FilamentTypes
  <2>4. \A x : OpenBy(x) => OpenBy(x)' BY <1>1, <1>3, <2>0 DEF OpenBy
  <2>5. Fresh' = Fresh /\ Doubted' = Doubted BY <1>1 DEF Fresh, Doubted
  <2>6. Trusted' BY <1>1, <2>2, <2>4, <2>5 DEF Trusted
  <2>7. InDoubt' BY <1>1, <2>2, <2>4, <2>5 DEF InDoubt
  <2>8. Unjudged' BY <1>1, <1>3, <2>0, <2>2, <2>5 DEF Unjudged
  <2>9. ChargedAsFed' BY <1>1, <2>2 DEF ChargedAsFed, Share
  <2> QED BY <2>3, <2>6, <2>7, <2>8, <2>9
<1>11. Truth' BY <1>1, <1>4, <1>10 DEF Truth, JobOrder
<1> QED BY <1>5, <1>6, <1>7, <1>8, <1>9, <1>11

-----------------------------------------------------------------------------
(* Reading the printer *)

\* A read of a running job records where it is, and changes nothing else that the
\* ledger is judged by.
LEMMA ReadsKeep ==
  ASSUME FilamentIInv, Runs, position' = Fed,
         UNCHANGED <<machine, feeder, on, changes, ledger, ended, closing, told, spoken, excused>>
  PROVE  /\ FilamentTypes' /\ JobOrder' /\ ClosingRead' /\ ~ledger'.settled /\ Fed' = Fed /\ Reach' = Reach
         /\ ~excused' => Unjudged' /\ ChargedAsFed' /\ InDoubt'
                         /\ \A x : OpenBy(x)' = OpenBy(x)
<1> USE FilamentConstants, SpoolConstants DEF FilamentIInv
<1>1. Fed' = Fed /\ Fed \in Nat /\ position' \in Positions'
  BY LenProperties DEF Fed, FilamentTypes, Positions
<1>2. closing = None /\ ~ledger.settled /\ machine # "stopped"
  BY DEF Runs, ClosingRead, JobOrder
<1>3. Reach' = Reach BY <1>1, <1>2 DEF Reach
<1>4. FilamentTypes' BY <1>1 DEF FilamentTypes
<1>5. JobOrder' BY <1>1 DEF JobOrder, Runs
<1>6. ClosingRead' BY <1>2 DEF ClosingRead
<1>7. ASSUME ~excused' PROVE Unjudged' /\ ChargedAsFed' /\ InDoubt' /\ \A x : OpenBy(x)' = OpenBy(x)
  <2>1. Unjudged /\ ChargedAsFed /\ InDoubt BY <1>2, <1>7 DEF Truth
  <2>2. \A x : OpenBy(x)' = OpenBy(x) BY <1>3 DEF OpenBy
  <2>3. Doubted' = Doubted BY DEF Doubted
  <2>4. Unjudged' BY <1>3, <2>1, <2>3 DEF Unjudged
  <2>5. ChargedAsFed' BY <2>1 DEF ChargedAsFed, Share
  <2>6. InDoubt' BY <1>1, <2>1, <2>2, <2>3 DEF InDoubt
  <2> QED BY <2>2, <2>4, <2>5, <2>6
<1> QED BY <1>1, <1>2, <1>3, <1>4, <1>5, <1>6, <1>7

LEMMA ObservingKeeps == FilamentIInv /\ ObservePosition => FilamentIInv'
<1> SUFFICES ASSUME FilamentIInv, ObservePosition PROVE FilamentIInv' OBVIOUS
<1> USE DEF FilamentIInv
<1>1. /\ Runs /\ position' = Fed
      /\ UNCHANGED <<machine, feeder, on, changes, ledger, signal, closing, ended, told, spoken, excused>>
  BY DEF ObservePosition, ReadNow, job, truth
<1>2. /\ FilamentTypes' /\ JobOrder' /\ ClosingRead' /\ ~ledger'.settled /\ Fed' = Fed
      /\ ~excused' => Unjudged' /\ ChargedAsFed' /\ InDoubt' /\ \A x : OpenBy(x)' = OpenBy(x)
  BY <1>1, ReadsKeep
<1>3. SignalTypes' BY <1>1, <1>2 DEF SignalTypes, Positions
<1>4. SignalOrder' BY <1>1 DEF SignalOrder
<1>5. ASSUME ~excused' PROVE SignalsTrue' /\ Trusted'
  <2>1. SignalsTrue /\ Trusted BY <1>1, <1>2, <1>5 DEF Truth
  <2>2. SignalsTrue' BY <1>1, <1>2, <2>1 DEF SignalsTrue
  <2>3. Trusted' BY <1>1, <1>2, <1>5, <2>1 DEF Trusted, Fresh
  <2> QED BY <2>2, <2>3
<1>6. Truth' BY <1>2, <1>5 DEF Truth
<1> QED BY <1>2, <1>3, <1>4, <1>6

-----------------------------------------------------------------------------
(* The filament changes signalled *)

LEMMA ReadingASignalKeeps ==
  ASSUME FilamentIInv, NEW c \in Changes, ReadSignal(c)
  PROVE  FilamentIInv'
<1> USE DEF FilamentIInv
<1>1. /\ signal[c].at = "sent"
      /\ UNCHANGED <<machine, feeder, on, changes, ledger, closing, ended, told, spoken>>
  BY DEF ReadSignal, job
<1>2. c = changes /\ machine # "printing" /\ changes \in Nat /\ Fed' = Fed /\ Fed \in Nat
  BY <1>1, LenProperties, FilamentConstants DEF SignalOrder, Changes, FilamentTypes, Fed
<1>3. signal \in [Changes -> [at : {"none", "sent", "read", "over"}, position : Positions, fresh : BOOLEAN]]
  BY DEF SignalTypes
<1>4. CASE ended \/ ledger.settled
  <2>1. /\ signal' = [signal EXCEPT ![c].at = "over"] /\ position' = position /\ excused' = excused /\ ledger.settled
    BY <1>4 DEF ReadSignal, NotRead, JobOrder
  <2>2. SignalTypes' /\ signal'[c].at = "over" /\ \A d \in Changes : d # c => signal'[d] = signal[d]
    BY <1>1, <1>2, <1>3, <2>1 DEF SignalTypes, Positions
  <2>3. SignalOrder' BY <1>1, <2>2 DEF SignalOrder
  <2>4. FilamentTypes' /\ JobOrder' BY <1>1, <1>2, <2>1 DEF FilamentTypes, Positions, JobOrder, Runs
  <2>5. ClosingRead' BY <1>1, <1>2, <2>1 DEF ClosingRead, Runs, Reach
  <2>6. ~excused' => SignalsTrue' BY <1>1, <1>2, <2>1, <2>2 DEF Truth, SignalsTrue
  <2>7. ~excused' => Settlement'
    <3>1. \A s \in Spools : Share(s)' = Share(s) BY <1>1 DEF Share
    <3> QED BY <1>1, <1>2, <2>1, <3>1 DEF Truth, Settlement
  <2> QED BY <1>1, <2>1, <2>2, <2>3, <2>4, <2>5, <2>6, <2>7 DEF Truth
<1>5. CASE ~(ended \/ ledger.settled)
  <2>1. CASE ReadNow /\ excused' = excused /\ signal' = [signal EXCEPT ![c] = [at |-> "read", position |-> Fed, fresh |-> TRUE]]
    <3>1. Runs /\ position' = Fed BY <2>1 DEF ReadNow
    <3>2. /\ FilamentTypes' /\ JobOrder' /\ ClosingRead' /\ ~ledger'.settled
          /\ ~excused' => Unjudged' /\ ChargedAsFed' /\ InDoubt' /\ \A x : OpenBy(x)' = OpenBy(x)
      BY <1>1, <2>1, <3>1, ReadsKeep
    <3>3. /\ SignalTypes' /\ signal'[c] = [at |-> "read", position |-> Fed, fresh |-> TRUE]
          /\ \A d \in Changes : d # c => signal'[d] = signal[d]
      BY <1>2, <1>3, <2>1 DEF SignalTypes, Positions
    <3>4. SignalOrder'
      <4>1. signal'[c].at = "read" BY <3>3
      <4> QED BY <1>1, <1>2, <3>3, <4>1 DEF SignalOrder
    <3>5. ASSUME ~excused' PROVE SignalsTrue' /\ Trusted'
      <4>1. SignalsTrue /\ Trusted BY <1>5, <2>1, <3>5 DEF Truth
      <4>2. SignalsTrue'
        <5>1. \A d \in Changes : d # c => signal[d].at # "read" BY <1>2, <4>1 DEF SignalsTrue
        <5> QED BY <1>1, <1>2, <3>1, <3>3, <5>1 DEF SignalsTrue
      <4>3. Trusted' BY <1>1, <1>2, <3>2, <3>3, <3>5, <4>1 DEF Trusted, Fresh
      <4> QED BY <4>2, <4>3
    <3> QED BY <3>2, <3>3, <3>4, <3>5 DEF Truth
  <2>2. CASE NotRead /\ excused' = TRUE /\ signal' = [signal EXCEPT ![c] = [at |-> "read", position |-> position, fresh |-> FALSE]]
    <3>1. position' = position BY <2>2 DEF NotRead
    <3>2. FilamentTypes' /\ JobOrder' BY <1>1, <1>2, <2>2, <3>1 DEF FilamentTypes, Positions, JobOrder, Runs
    <3>3. /\ SignalTypes' /\ signal'[c] = [at |-> "read", position |-> position, fresh |-> FALSE]
          /\ \A d \in Changes : d # c => signal'[d] = signal[d]
      <4>1. position \in Positions BY DEF FilamentTypes
      <4> QED BY <1>2, <1>3, <2>2, <4>1 DEF SignalTypes, Positions
    <3>4. SignalOrder' BY <1>1, <1>2, <3>3 DEF SignalOrder
    <3>5. ClosingRead' BY <1>1, <1>2, <2>2, <3>1 DEF ClosingRead, Runs, Reach
    <3> QED BY <2>2, <3>2, <3>3, <3>4, <3>5 DEF Truth
  <2> QED BY <1>5, <2>1, <2>2 DEF ReadSignal
<1> QED BY <1>4, <1>5

\* What the write of a signal does to the ledger: nothing, a charge to a spool in no
\* doubt or a hold for one in doubt, and the mark.
LEMMA SignalledWrites ==
  ASSUME NEW l \in Ledgers, NEW c \in Changes, l.loaded # None,
         signal[c].fresh, signal[c].position \in Nat, signal[c].position # None
  PROVE  LET m == Signalled(l, c)
             k == IF signal[c].position - AlreadyFed(l) > 0 THEN signal[c].position - AlreadyFed(l) ELSE 0
             marked == HoldsChangeMark(l, l.loaded) IN
         /\ m \in Ledgers /\ k \in Nat
         /\ AlreadyFed(m) = AlreadyFed(l) + k
         /\ HeldFed(m) = IF marked THEN HeldFed(l) + k ELSE HeldFed(l)
         /\ \A s \in Spools : m.spent[s] = IF s = l.loaded /\ ~marked THEN l.spent[s] + k ELSE l.spent[s]
         /\ m.loaded = l.loaded /\ m.settled = l.settled /\ HoldsChangeMark(m, m.loaded)
<1> DEFINE k == IF signal[c].position - AlreadyFed(l) > 0 THEN signal[c].position - AlreadyFed(l) ELSE 0
           marked == HoldsChangeMark(l, l.loaded)
           w == IF signal[c].position - AlreadyFed(l) <= 0 THEN l
                ELSE IF marked THEN Pended(l, OpenSegment(l), signal[c].position - AlreadyFed(l))
                ELSE Charged(l, OpenSegment(l), l.loaded, signal[c].position - AlreadyFed(l))
<1>1. AlreadyFed(l) \in Nat /\ HeldFed(l) \in Nat /\ l.loaded \in Spools /\ l.spent \in [Spools -> Nat]
  BY FedOf DEF Ledgers
<1>2. Signalled(l, c) = Marked(w, l.loaded, Change) BY DEF Signalled, Feed
<1>3. /\ w \in Ledgers /\ k \in Nat /\ SameBesides(l, w) /\ AlreadyFed(w) = AlreadyFed(l) + k
      /\ HeldFed(w) = IF marked THEN HeldFed(l) + k ELSE HeldFed(l)
      /\ \A s \in Spools : w.spent[s] = IF s = l.loaded /\ ~marked THEN l.spent[s] + k ELSE l.spent[s]
  <2>1. CASE signal[c].position - AlreadyFed(l) <= 0
    <3>1. w = l /\ k = 0 BY <2>1, <1>1
    <3> QED BY <1>1, <3>1 DEF SameBesides
  <2>2. CASE ~(signal[c].position - AlreadyFed(l) <= 0) /\ marked
    <3>1. k = signal[c].position - AlreadyFed(l) /\ k \in Nat BY <2>2, <1>1
    <3>2. w = Pended(l, OpenSegment(l), k) BY <2>2, <3>1
    <3> HIDE DEF w, k, marked
    <3> QED BY <2>2, <3>1, <3>2, OpenPended
  <2>3. CASE ~(signal[c].position - AlreadyFed(l) <= 0) /\ ~marked
    <3>1. k = signal[c].position - AlreadyFed(l) /\ k \in Nat BY <2>3, <1>1
    <3>2. w = Charged(l, OpenSegment(l), l.loaded, k) BY <2>3, <3>1
    <3> HIDE DEF w, k, marked
    <3>3. /\ w \in Ledgers /\ SameBesides(l, w)
          /\ AlreadyFed(w) = AlreadyFed(l) + k /\ HeldFed(w) = HeldFed(l)
          /\ \A s \in Spools : w.spent[s] = IF s = l.loaded THEN l.spent[s] + k ELSE l.spent[s]
      <4> DEFINE t == l.loaded
      <4>1. t \in Chargeable BY <1>1 DEF Chargeable
      <4>4. k \in Nat BY <3>1
      <4>2. w = Charged(l, OpenSegment(l), t, k) BY <3>2
      <4> HIDE DEF t
      <4>3. /\ w \in Ledgers /\ SameBesides(l, w)
            /\ AlreadyFed(w) = AlreadyFed(l) + k /\ HeldFed(w) = HeldFed(l)
        BY <4>1, <4>2, <4>4, OpenCharged
      <4>5. SpentMore(l, w, t, k) BY <4>1, <4>2, <4>4, OpenCharged
      <4> QED BY <4>3, <4>5 DEF t, SpentMore
    <3> QED BY <2>3, <3>1, <3>3
  <2> QED BY <2>1, <2>2, <2>3
<1> HIDE DEF w, k, marked
<1> DEFINE m == Marked(w, l.loaded, Change)
<1>4. /\ m \in Ledgers /\ m.segments = w.segments /\ m.spent = w.spent
      /\ m.loaded = w.loaded /\ m.settled = w.settled /\ m.marks[l.loaded] = w.marks[l.loaded] \union {Change}
  <2>1. Change \in Marks BY DEF Marks
  <2> DEFINE t == l.loaded
  <2>2. m = Marked(w, t, Change) OBVIOUS
  <2>4. t \in Chargeable BY <1>1 DEF Chargeable
  <2>5. t \in Spools BY <1>1
  <2>6. w \in Ledgers BY <1>3
  <2> HIDE DEF m, t
  <2>3. /\ m \in Ledgers /\ m.segments = w.segments /\ m.spent = w.spent
        /\ m.loaded = w.loaded /\ m.settled = w.settled /\ MarkAdded(w, m, t, Change)
    BY <2>1, <2>2, <2>4, <2>5, <2>6, MarkSet
  <2> QED BY <2>3, <2>5 DEF t, MarkAdded
<1> HIDE DEF m
<1>5. AlreadyFed(m) = AlreadyFed(w) /\ HeldFed(m) = HeldFed(w) BY <1>4, SameSegments
<1>6. HoldsChangeMark(m, m.loaded) BY <1>1, <1>3, <1>4 DEF HoldsChangeMark, SameBesides
<1>7. m = Signalled(l, c) BY <1>2 DEF m
<1> QED BY <1>3, <1>4, <1>5, <1>6, <1>7 DEF SameBesides, k, marked

\* Whatever a signal was read as, its write leaves a ledger, and charges no further
\* than the position it was read at.
LEMMA SignalledBounds ==
  ASSUME NEW l \in Ledgers, NEW c \in Changes, NEW n \in Nat, AlreadyFed(l) <= n,
         signal[c].position \in {None} \union 0 .. n
  PROVE  LET m == Signalled(l, c) IN
         m \in Ledgers /\ AlreadyFed(m) <= n /\ m.loaded = l.loaded /\ m.settled = l.settled
<1> DEFINE length == Feed(l, signal[c].position)
           w == IF length <= 0 THEN l
                ELSE IF HoldsChangeMark(l, l.loaded) THEN Pended(l, OpenSegment(l), length)
                ELSE Charged(l, OpenSegment(l), l.loaded, length)
           mark == IF signal[c].fresh THEN Change ELSE ChangePosition
<1>1. AlreadyFed(l) \in Nat /\ l.loaded \in Spools \union {None} BY FedOf DEF Ledgers
<1>2. length \in Int /\ AlreadyFed(l) + length <= n
  <2>1. CASE signal[c].position = None BY <2>1, <1>1 DEF Feed
  <2>2. CASE signal[c].position # None BY <2>2, <1>1 DEF Feed
  <2> QED BY <2>1, <2>2
<1> HIDE DEF length
<1>3. w \in Ledgers /\ SameBesides(l, w) /\ AlreadyFed(w) <= n
  <2>1. CASE length <= 0 BY <2>1 DEF SameBesides
  <2>2. CASE ~(length <= 0) /\ HoldsChangeMark(l, l.loaded)
    <3>1. length \in Nat /\ w = Pended(l, OpenSegment(l), length) BY <2>2, <1>2
    <3> HIDE DEF w
    <3> QED BY <1>2, <3>1, OpenPended
  <2>3. CASE ~(length <= 0) /\ ~HoldsChangeMark(l, l.loaded)
    <3>1. length \in Nat /\ w = Charged(l, OpenSegment(l), l.loaded, length) BY <2>3, <1>2
    <3> HIDE DEF w
    <3>3. l.loaded \in Chargeable BY <1>1 DEF Chargeable
    <3>4. length \in Nat BY <3>1
    <3>5. w = Charged(l, OpenSegment(l), l.loaded, length) BY <3>1
    <3>2. w \in Ledgers /\ SameBesides(l, w) /\ AlreadyFed(w) = AlreadyFed(l) + length
      BY <3>3, <3>4, <3>5, OpenCharged
    <3> QED BY <1>2, <3>2
  <2> QED BY <2>1, <2>2, <2>3
<1>4. Signalled(l, c) = IF l.loaded = None THEN l ELSE Marked(w, l.loaded, mark) BY DEF Signalled, length
<1>5. mark \in Marks BY DEF Marks
<1> HIDE DEF w, mark
<1> DEFINE m == Marked(w, l.loaded, mark)
<1>6. /\ m \in Ledgers /\ AlreadyFed(m) = AlreadyFed(w) /\ m.loaded = w.loaded /\ m.settled = w.settled
  <2>1. l.loaded \in Chargeable BY <1>1 DEF Chargeable
  <2>2. w \in Ledgers BY <1>3
  <2> DEFINE t == l.loaded
  <2>3. m = Marked(w, t, mark) OBVIOUS
  <2>5. t \in Chargeable BY <2>1
  <2> HIDE DEF m, t
  <2>4. m \in Ledgers /\ m.segments = w.segments /\ m.loaded = w.loaded /\ m.settled = w.settled
    BY <1>5, <2>2, <2>3, <2>5, MarkSet
  <2> QED BY <2>4, SameSegments
<1> QED BY <1>3, <1>4, <1>6 DEF SameBesides

\* A charge of all that is open, to the spool that fed it.
LEMMA OpenIsCounted ==
  ASSUME FilamentIInv, NEW n \in Nat, AlreadyFed(ledger) <= n, n <= Reach, NEW x, OpenBy(x)
  PROVE  \A s : FedOver(feeder, s, n)
                  = FedOver(feeder, s, AlreadyFed(ledger)) + IF s = x THEN n - AlreadyFed(ledger) ELSE 0
<1>1. AlreadyFed(ledger) \in Nat BY FedOf DEF FilamentIInv, FilamentTypes
<1>2. Reach \in Int
  <2>1. Fed \in Nat BY LenProperties DEF Fed, FilamentIInv, FilamentTypes
  <2>2. position = None \/ position \in 0 .. Fed BY DEF FilamentIInv, FilamentTypes, Positions
  <2> QED BY <2>1, <2>2 DEF Reach
<1>3. \A u \in AlreadyFed(ledger) + 1 .. n : feeder[u] = x BY <1>1, <1>2 DEF OpenBy
<1>4. FedOnlyBy(feeder, x, AlreadyFed(ledger), n) BY <1>1, <1>3, FedByOne
<1> QED BY <1>4 DEF FedOnlyBy

LEMMA WritingASignalKeeps ==
  ASSUME FilamentIInv, NEW c \in Changes, WriteSignal(c)
  PROVE  FilamentIInv'
<1> USE DEF FilamentIInv
<1>1. /\ signal[c].at = "read" /\ ledger' = Signalled(ledger, c)
      /\ signal' = [signal EXCEPT ![c] = [Unsignalled EXCEPT !.at = "over"]]
      /\ excused' = (excused \/ ledger.settled \/ spoken = c)
      /\ UNCHANGED <<machine, feeder, on, changes, position, closing, ended, told, spoken>>
  BY DEF WriteSignal, job
<1>2. Fed' = Fed /\ Fed \in Nat /\ Reach' = Reach
  BY <1>1, LenProperties DEF FilamentTypes, Fed, Reach
<1>3. signal[c].position \in Positions /\ AlreadyFed(ledger) \in Nat /\ AlreadyFed(ledger) <= Fed /\ ledger \in Ledgers
  BY FedOf DEF SignalTypes, JobOrder, FilamentTypes
<1>4. ledger' \in Ledgers /\ AlreadyFed(ledger') <= Fed /\ ledger'.loaded = ledger.loaded /\ ledger'.settled = ledger.settled
  <2>1. ledger \in Ledgers /\ signal[c].position \in {None} \union 0 .. Fed BY <1>3 DEF Positions
  <2> QED BY <1>1, <1>2, <1>3, <2>1, SignalledBounds
<1>5. /\ SignalTypes' /\ signal'[c].at = "over" /\ \A d \in Changes : d # c => signal'[d] = signal[d]
  BY <1>1, <1>2 DEF SignalTypes, Positions, Unsignalled
<1>6. SignalOrder'
  <2>1. (c <= changes /\ machine # "printing") \/ signal[c].at = "over" BY <1>1, FilamentConstants DEF SignalOrder, Changes, FilamentTypes
  <2> QED BY <1>1, <1>5, <2>1 DEF SignalOrder, Changes, FilamentTypes
<1>7. FilamentTypes' BY <1>1, <1>2, <1>4 DEF FilamentTypes, Positions
<1>8. JobOrder' BY <1>1, <1>2, <1>4 DEF JobOrder, Runs
<1>9. ClosingRead' BY <1>1, <1>2 DEF ClosingRead, Runs
<1>10. ASSUME ~excused' PROVE ~ledger'.settled /\ SignalsTrue' /\ Trusted' /\ InDoubt' /\ Unjudged' /\ ChargedAsFed'
  <2>1. ~excused /\ ~ledger.settled /\ spoken # c BY <1>1, <1>10
  <2>2. SignalsTrue /\ Trusted /\ InDoubt /\ Unjudged /\ ChargedAsFed BY <2>1 DEF Truth
  <2>3. c = changes /\ signal[c].fresh /\ signal[c].position = position /\ position = Fed
    BY <1>1, <2>2 DEF SignalsTrue
  <2>4. changes \in Nat /\ spoken \in Nat /\ spoken < changes BY <2>1, <2>3, FilamentConstants DEF FilamentTypes, Changes
  <2>5. SignalsTrue' BY <1>1, <1>5, <2>2, <2>3 DEF SignalsTrue
  <2>6. position # None /\ Reach = Fed BY <1>2, <2>3, SpoolConstants DEF Reach
  <2>7. CASE ledger.loaded = None
    <3>1. ledger' = ledger BY <1>1, <2>7 DEF Signalled
    <3>2. \A x : OpenBy(x)' = OpenBy(x) BY <1>1, <1>2, <3>1 DEF OpenBy
    <3>3. Doubted' = Doubted /\ ~Fresh' BY <2>7, <3>1 DEF Doubted, Fresh
    <3>4. InDoubt' BY <1>1, <1>2, <2>2, <3>1, <3>2, <3>3 DEF InDoubt
    <3>5. Unjudged' BY <1>1, <1>2, <2>2, <3>1, <3>3 DEF Unjudged
    <3>6. ChargedAsFed' BY <1>1, <2>2, <3>1 DEF ChargedAsFed, Share
    <3> QED BY <2>1, <2>5, <3>1, <3>3, <3>4, <3>5, <3>6 DEF Trusted
  <2>8. CASE ledger.loaded # None
    <3> DEFINE k == Fed - AlreadyFed(ledger)
               marked == HoldsChangeMark(ledger, ledger.loaded)
    <3>1. k \in Nat /\ k = IF signal[c].position - AlreadyFed(ledger) > 0 THEN signal[c].position - AlreadyFed(ledger) ELSE 0
      BY <1>2, <1>3, <2>3
    <3>2. /\ AlreadyFed(ledger') = AlreadyFed(ledger) + k
          /\ HeldFed(ledger') = IF marked THEN HeldFed(ledger) + k ELSE HeldFed(ledger)
          /\ \A s \in Spools : ledger'.spent[s] = IF s = ledger.loaded /\ ~marked THEN ledger.spent[s] + k ELSE ledger.spent[s]
          /\ HoldsChangeMark(ledger', ledger'.loaded)
      <4>1. signal[c].position \in Nat /\ signal[c].position # None BY <1>2, <2>3, <2>6
      <4> QED BY <1>1, <1>3, <2>3, <2>8, <3>1, <4>1, SignalledWrites
    <3>3. Doubted' /\ ~Fresh' BY <1>4, <2>8, <3>2 DEF Doubted, Fresh, Judged
    <3>4. AlreadyFed(ledger') = Fed /\ HeldFed(ledger) \in Nat BY <1>2, <1>3, <3>2, FedOf
    <3>5. CASE marked
      <4>1. Doubted BY <2>8, <3>5 DEF Doubted, Judged
      <4>2. InDoubt'
        <5>1. OpenBy(on)' BY <1>1, <1>2, <2>6, <3>4 DEF OpenBy
        <5>2. machine = "changing" /\ spoken = changes - 1 => HeldFed(ledger') = 0
          BY <1>2, <2>2, <3>2, <3>5, <4>1 DEF InDoubt
        <5> QED BY <1>1, <1>2, <2>4, <3>4, <5>1, <5>2 DEF InDoubt
      <4>3. ChargedAsFed'
        <5>1. \A s : FedOver(feeder, s, Fed) = FedOver(feeder, s, AlreadyFed(ledger)) + IF s = on THEN k ELSE 0
          BY <1>2, <1>3, <2>2, <2>6, <4>1, OpenIsCounted DEF InDoubt
        <5>2. \A s \in Spools : ledger.spent[s] \in Nat BY <1>3 DEF Ledgers
        <5>3. \A s \in Spools : Share(s)' = Share(s) + IF s = on THEN k ELSE 0
          BY <1>1, <3>1, <3>2, <3>4, <3>5, <5>2 DEF Share
        <5> QED BY <1>1, <2>2, <3>4, <5>1, <5>3 DEF ChargedAsFed
      <4> QED BY <1>4, <2>1, <2>5, <2>8, <3>3, <4>2, <4>3 DEF Trusted, Unjudged
    <3>6. CASE ~marked
      <4>1. Fresh BY <2>8, <3>6 DEF Fresh
      <4>2. HeldFed(ledger) = 0 /\ OpenBy(ledger.loaded) BY <2>2, <4>1 DEF Trusted
      <4>3. InDoubt'
        <5>1. OpenBy(on)' BY <1>1, <1>2, <2>6, <3>4 DEF OpenBy
        <5> QED BY <1>1, <1>2, <2>4, <3>2, <3>4, <3>6, <4>2, <5>1 DEF InDoubt
      <4>4. ChargedAsFed'
        <5>1. \A s : FedOver(feeder, s, Fed) = FedOver(feeder, s, AlreadyFed(ledger)) + IF s = ledger.loaded THEN k ELSE 0
          BY <1>2, <1>3, <2>6, <4>2, OpenIsCounted
        <5>2. \A s \in Spools : ledger.spent[s] \in Nat BY <1>3 DEF Ledgers
        <5>3. \A s \in Spools : Share(s)' = Share(s) + IF s = ledger.loaded THEN k ELSE 0
          BY <1>1, <3>1, <3>2, <3>4, <3>6, <4>2, <5>2 DEF Share
        <5> QED BY <1>1, <2>2, <3>4, <5>1, <5>3 DEF ChargedAsFed
      <4> QED BY <1>4, <2>1, <2>5, <2>8, <3>3, <4>3, <4>4 DEF Trusted, Unjudged
    <3> QED BY <3>5, <3>6
  <2> QED BY <2>7, <2>8
<1>11. Truth' BY <1>10 DEF Truth
<1> QED BY <1>5, <1>6, <1>7, <1>8, <1>9, <1>11

-----------------------------------------------------------------------------
(* Dying, and the ends of a print *)

LEMMA CrashesKeep == FilamentIInv /\ Crash => FilamentIInv'
<1> SUFFICES ASSUME FilamentIInv, Crash PROVE FilamentIInv' OBVIOUS
<1> USE DEF FilamentIInv
<1>1. /\ closing' = None
      /\ signal' = [c \in Changes |-> IF signal[c].at = "read" THEN [Unsignalled EXCEPT !.at = "over"] ELSE signal[c]]
      /\ excused' = (excused \/ \E c \in Changes : signal[c].at = "read")
      /\ UNCHANGED <<machine, feeder, on, changes, ledger, position, ended, told, spoken>>
  BY DEF Crash, job
<1>2. Fed' = Fed /\ Reach' = Reach /\ \A x : OpenBy(x)' = OpenBy(x) BY <1>1 DEF Fed, Reach, OpenBy
<1>3. Fresh' = Fresh /\ Doubted' = Doubted BY <1>1 DEF Fresh, Doubted
<1>4. FilamentTypes' BY <1>1, <1>2 DEF FilamentTypes, Positions
<1>5. SignalTypes' BY <1>1, <1>2 DEF SignalTypes, Positions, Unsignalled
<1>6. JobOrder' BY <1>1, <1>2 DEF JobOrder, Runs
<1>7. SignalOrder'
  <2>1. \A c \in Changes : signal'[c].at = IF signal[c].at = "read" THEN "over" ELSE signal[c].at
    BY <1>1 DEF Unsignalled
  <2> QED BY <1>1, <2>1 DEF SignalOrder
<1>8. ClosingRead' BY <1>1 DEF ClosingRead
<1>9. ASSUME ~excused' PROVE Truth'
  <2>1. ~excused /\ \A c \in Changes : signal[c].at # "read" BY <1>1, <1>9
  <2>2. \A c \in Changes : signal'[c] = signal[c] BY <1>1, <2>1
  <2>3. SignalsTrue' BY <2>1, <2>2 DEF SignalsTrue
  <2>4. ASSUME ~ledger.settled PROVE Trusted' /\ InDoubt' /\ Unjudged' /\ ChargedAsFed'
    <3>1. Trusted /\ InDoubt /\ Unjudged /\ ChargedAsFed BY <2>1, <2>4 DEF Truth
    <3>2. Trusted' BY <1>1, <1>2, <1>3, <2>2, <3>1 DEF Trusted, JobOrder
    <3>3. InDoubt' BY <1>1, <1>2, <1>3, <3>1 DEF InDoubt
    <3>4. Unjudged' BY <1>1, <1>2, <1>3, <3>1 DEF Unjudged
    <3>5. ChargedAsFed' BY <1>1, <3>1 DEF ChargedAsFed, Share
    <3> QED BY <3>2, <3>3, <3>4, <3>5
  <2>5. ASSUME ledger.settled PROVE Settlement'
    <3>1. Settlement BY <2>1, <2>5 DEF Truth
    <3> QED BY <1>1, <1>2, <3>1 DEF Settlement, Share
  <2> QED BY <1>1, <2>3, <2>4, <2>5 DEF Truth
<1>10. Truth' BY <1>9 DEF Truth
<1> QED BY <1>4, <1>5, <1>6, <1>7, <1>8, <1>10

LEMMA EndsKeep == FilamentIInv /\ EndPrint => FilamentIInv'
<1> SUFFICES ASSUME FilamentIInv, EndPrint PROVE FilamentIInv' OBVIOUS
<1> USE DEF FilamentIInv
<1>1. /\ ledger.settled /\ ended' = TRUE
      /\ UNCHANGED <<machine, feeder, on, changes, ledger, position, signal, closing, told, spoken, excused>>
  BY DEF EndPrint, job, truth
<1>2. Fed' = Fed /\ Reach' = Reach BY <1>1 DEF Fed, Reach
<1>4. FilamentTypes' BY <1>1, <1>2 DEF FilamentTypes, Positions
<1>5. SignalTypes' BY <1>1, <1>2 DEF SignalTypes, Positions
<1>6. JobOrder' BY <1>1, <1>2 DEF JobOrder, Runs
<1>7. SignalOrder' BY <1>1 DEF SignalOrder
<1>8. ClosingRead' BY <1>1, <1>2 DEF ClosingRead, Runs
<1>9. ASSUME ~excused PROVE SignalsTrue' /\ Settlement'
  <2>1. SignalsTrue /\ Settlement BY <1>1, <1>9 DEF Truth
  <2> QED BY <1>1, <1>2, <2>1 DEF SignalsTrue, Settlement, Share
<1>10. Truth' BY <1>1, <1>9 DEF Truth
<1> QED BY <1>4, <1>5, <1>6, <1>7, <1>8, <1>10

LEMMA OperatorsCloseKeeps == FilamentIInv /\ OperatorCloses => FilamentIInv'
<1> SUFFICES ASSUME FilamentIInv, OperatorCloses PROVE FilamentIInv' OBVIOUS
<1> USE DEF FilamentIInv
<1>1. /\ ~Runs /\ excused' = TRUE /\ ledger' = [ledger EXCEPT !.settled = TRUE]
      /\ UNCHANGED <<machine, feeder, on, changes, position, signal, closing, ended, told, spoken>>
  BY DEF OperatorCloses, job, server
<1>2. Fed' = Fed /\ Reach' = Reach BY <1>1 DEF Fed, Reach
<1>3. ledger' \in Ledgers /\ ledger'.segments = ledger.segments /\ ledger'.loaded = ledger.loaded /\ ledger'.settled
  BY <1>1 DEF FilamentTypes, Ledgers
<1>4. FilamentTypes' BY <1>1, <1>2, <1>3 DEF FilamentTypes, Positions
<1>5. SignalTypes' BY <1>1, <1>2 DEF SignalTypes, Positions
<1>6. JobOrder' BY <1>1, <1>2, <1>3, SameSegments DEF JobOrder, Runs
<1>7. SignalOrder' BY <1>1 DEF SignalOrder
<1>8. ClosingRead' BY <1>1, <1>2 DEF ClosingRead, Runs
<1> QED BY <1>1, <1>4, <1>5, <1>6, <1>7, <1>8 DEF Truth

-----------------------------------------------------------------------------
(* Closing the print out *)

\* Only a job that ran to its end is charged the slicer's estimate.
LEMMA OnlyADoneJobIsEstimated ==
  ASSUME NEW e \in Evidence, ChargeRule(Outcome(e)) = "slicer_estimate"
  PROVE  machine = "done"
<1>1. Outcome(e) = "completed" BY DEF ChargeRule
<1>2. ReadFinished(e) \/ e.completed_since BY <1>1 DEF Outcome
<1>3. e.completed_since \in {FALSE, machine = "done" /\ ~seen} BY DEF Evidence
<1>4. e.job \in {None} \union [file : {"file"}, complete : {machine = "done"}, size : {Units},
                              position : {Fed}, printer_error : BOOLEAN]
  BY DEF Evidence
<1>5. ReadFinished(e) => e.job # None /\ e.job.complete BY DEF ReadFinished
<1>6. e.job # None => e.job.complete \in {machine = "done"} BY <1>4
<1> QED BY <1>2, <1>3, <1>5, <1>6

LEMMA ReachIsBetween ==
  ASSUME FilamentIInv
  PROVE  /\ Fed \in Nat /\ Reach \in Nat /\ Reach <= Fed
         /\ ~Runs /\ position # None => position \in Nat /\ position <= Reach
<1>1. Fed \in Nat BY LenProperties DEF Fed, FilamentIInv, FilamentTypes
<1>2. position = None \/ position \in 0 .. Fed BY DEF FilamentIInv, FilamentTypes, Positions
<1> QED BY <1>1, <1>2 DEF Reach, Runs

LEMMA ReadingTheClosingKeeps == FilamentIInv /\ ReadClosing => FilamentIInv'
<1> SUFFICES ASSUME FilamentIInv, ReadClosing PROVE FilamentIInv' OBVIOUS
<1> USE DEF FilamentIInv
<1>1. /\ ~Runs /\ ~ledger.settled
      /\ UNCHANGED <<machine, feeder, on, changes, ledger, position, signal, ended, told, spoken>>
  BY DEF ReadClosing, job
<1>2. PICK rule \in {ChargeRule(Outcome(e)) : e \in Evidence}, readable \in BOOLEAN :
        /\ closing' = [total |-> IF ~readable THEN None ELSE IF rule = "slicer_estimate" THEN Units ELSE position,
                       watched |-> seen \/ rule = "slicer_estimate"]
        /\ excused' = (excused \/ (~readable /\ ~told))
  BY DEF ReadClosing
<1>3. rule = "slicer_estimate" => machine = "done" BY OnlyADoneJobIsEstimated
<1>4. Fed' = Fed /\ Reach' = Reach /\ \A x : OpenBy(x)' = OpenBy(x) BY <1>1 DEF Fed, Reach, OpenBy
<1>5. Fresh' = Fresh /\ Doubted' = Doubted BY <1>1 DEF Fresh, Doubted
<1>6. FilamentTypes' BY <1>1, <1>2, <1>4 DEF FilamentTypes, Positions
<1>7. SignalTypes' BY <1>1, <1>4 DEF SignalTypes, Positions
<1>8. JobOrder' BY <1>1, <1>4 DEF JobOrder, Runs
<1>9. SignalOrder' BY <1>1 DEF SignalOrder
<1>10. ClosingRead'
  <2>1. Units \in Nat /\ Units # None BY FilamentConstants, SpoolConstants
  <2>2. machine = "done" => Reach = Units BY DEF Reach, JobOrder
  <2>3. closing'.total = IF ~readable THEN None ELSE IF rule = "slicer_estimate" THEN Units ELSE position BY <1>2
  <2>4. closing'.total # None => closing'.total \in 0 .. Reach /\ (position # None => position <= closing'.total)
    BY <1>1, <1>3, <2>1, <2>2, <2>3, ReachIsBetween
  <2>5. closing'.total = None /\ ~excused' => told \/ position = None BY <1>2, <2>1, <2>3
  <2> QED BY <1>1, <1>4, <2>4, <2>5 DEF ClosingRead, Runs
<1>11. ASSUME ~excused' PROVE SignalsTrue' /\ Trusted' /\ InDoubt' /\ Unjudged' /\ ChargedAsFed'
  <2>1. SignalsTrue /\ Trusted /\ InDoubt /\ Unjudged /\ ChargedAsFed BY <1>1, <1>2, <1>11 DEF Truth
  <2>2. SignalsTrue' BY <1>1, <1>4, <2>1 DEF SignalsTrue
  <2>3. Trusted' BY <1>1, <1>4, <1>5, <2>1 DEF Trusted
  <2>4. InDoubt' BY <1>1, <1>4, <1>5, <2>1 DEF InDoubt
  <2>5. Unjudged' BY <1>1, <1>4, <1>5, <2>1 DEF Unjudged
  <2>6. ChargedAsFed' BY <1>1, <2>1 DEF ChargedAsFed, Share
  <2> QED BY <2>2, <2>3, <2>4, <2>5, <2>6
<1>12. Truth' BY <1>1, <1>11 DEF Truth
<1> QED BY <1>6, <1>7, <1>8, <1>9, <1>10, <1>12

\* What a settlement does to the ledger: the rest is charged to the spool on the
\* tool, or held if a change has left that in doubt; a spool whose rest could not
\* be worked out is marked.
MarksKept(l, m) == \A t \in Spools : l.marks[t] \subseteq m.marks[t]
LEMMA SettledWrites ==
  ASSUME NEW l \in Ledgers, NEW c, NEW k \in Nat, NEW m, m = Settled(l, c),
         c.total # None => c.total \in Nat,
         k = IF c.total = None THEN 0 ELSE IF c.total <= AlreadyFed(l) THEN 0 ELSE c.total - AlreadyFed(l)
  PROVE  LET doubt == HoldsChangeMark(l, Judged(l)) IN
         /\ m \in Ledgers /\ m.settled /\ m.loaded = l.loaded
         /\ AlreadyFed(m) = AlreadyFed(l) + k
         /\ HeldFed(m) = IF doubt THEN HeldFed(l) + k ELSE HeldFed(l)
         /\ IF doubt THEN \A s \in Spools : m.spent[s] = l.spent[s] ELSE SpentMore(l, m, l.loaded, k)
         /\ MarksKept(l, m)
         /\ c.total = None /\ l.loaded # None => Uncharged \in m.marks[l.loaded]
<1> DEFINE marking == c.total = None \/ ~c.watched
           d == IF marking THEN Marked(l, l.loaded, Uncharged) ELSE l
           doubt == HoldsChangeMark(l, Judged(l))
           remainder == c.total - AlreadyFed(l)
           w == CASE c.total = None -> d
                  [] c.total # None /\ remainder <= 0 -> d
                  [] OTHER -> IF doubt THEN Pended(d, OpenSegment(l), remainder)
                              ELSE Charged(d, OpenSegment(l), l.loaded, remainder)
<1>1. m = [w EXCEPT !.settled = TRUE] BY DEF Settled
<1>2. l.loaded \in Chargeable BY DEF Ledgers, Chargeable
<1>3. /\ d \in Ledgers /\ d.segments = l.segments /\ d.spent = l.spent /\ d.loaded = l.loaded
      /\ MarksKept(l, d) /\ (c.total = None /\ l.loaded # None => Uncharged \in d.marks[l.loaded])
  <2>1. CASE marking
    <3>1. d = Marked(l, l.loaded, Uncharged) BY <2>1
    <3>2. Uncharged \in Marks BY DEF Marks
    <3> HIDE DEF d
    <3>3. /\ d \in Ledgers /\ d.segments = l.segments /\ d.spent = l.spent /\ d.loaded = l.loaded
          /\ MarkAdded(l, d, l.loaded, Uncharged)
      BY <1>2, <3>1, <3>2, MarkSet
    <3> QED BY <1>2, <3>3 DEF MarkAdded, MarksKept, Chargeable
  <2>2. CASE ~marking
    <3>1. d = l /\ c.total # None BY <2>2
    <3> QED BY <3>1 DEF MarksKept
  <2> QED BY <2>1, <2>2
<1> HIDE DEF d
<1>4. AlreadyFed(d) = AlreadyFed(l) /\ HeldFed(d) = HeldFed(l) /\ OpenSegment(d) = OpenSegment(l)
      /\ AlreadyFed(l) \in Nat /\ HeldFed(l) \in Nat /\ l.spent \in [Spools -> Nat]
  BY <1>3, SameSegments, FedOf DEF OpenSegment, Ledgers
<1>5. /\ w \in Ledgers /\ SameBesides(d, w) /\ AlreadyFed(w) = AlreadyFed(d) + k
      /\ HeldFed(w) = IF doubt THEN HeldFed(d) + k ELSE HeldFed(d)
      /\ IF doubt THEN \A s \in Spools : w.spent[s] = d.spent[s] ELSE SpentMore(d, w, l.loaded, k)
  <2>1. CASE c.total = None \/ c.total <= AlreadyFed(l)
    <3>1. w = d BY <2>1, <1>4
    <3>2. k = 0 BY <2>1
    <3> HIDE DEF w
    <3> QED BY <1>3, <1>4, <3>1, <3>2 DEF SameBesides, SpentMore
  <2>2. CASE c.total # None /\ ~(c.total <= AlreadyFed(l))
    <3>1. k = remainder /\ ~(remainder <= 0) BY <2>2, <1>4
    <3>2. w = IF doubt THEN Pended(d, OpenSegment(d), k) ELSE Charged(d, OpenSegment(d), l.loaded, k)
      BY <2>2, <1>4, <3>1
    <3> HIDE DEF w, doubt, remainder
    <3>3. CASE doubt
      <4>1. w = Pended(d, OpenSegment(d), k) BY <3>2, <3>3
      <4>2. d \in Ledgers BY <1>3
      <4>3. /\ w \in Ledgers /\ SameBesides(d, w) /\ w.spent = d.spent
            /\ AlreadyFed(w) = AlreadyFed(d) + k /\ HeldFed(w) = HeldFed(d) + k
        BY <4>1, <4>2, OpenPended
      <4> QED BY <3>3, <4>3
    <3>4. CASE ~doubt
      <4>1. w = Charged(d, OpenSegment(d), l.loaded, k) BY <3>2, <3>4
      <4>2. d \in Ledgers BY <1>3
      <4>3. /\ w \in Ledgers /\ SameBesides(d, w) /\ SpentMore(d, w, l.loaded, k)
            /\ AlreadyFed(w) = AlreadyFed(d) + k /\ HeldFed(w) = HeldFed(d)
        BY <1>2, <4>1, <4>2, OpenCharged
      <4> QED BY <3>4, <4>3
    <3> QED BY <3>3, <3>4
  <2> QED BY <2>1, <2>2
<1> HIDE DEF w, doubt
<1>6. /\ m \in Ledgers /\ m.settled /\ m.segments = w.segments /\ m.spent = w.spent
      /\ m.loaded = w.loaded /\ m.marks = w.marks
  BY <1>1, <1>5 DEF Ledgers
<1>7. AlreadyFed(m) = AlreadyFed(w) /\ HeldFed(m) = HeldFed(w) BY <1>6, SameSegments
<1>8. IF doubt THEN \A s \in Spools : m.spent[s] = l.spent[s] ELSE SpentMore(l, m, l.loaded, k)
  BY <1>3, <1>5, <1>6 DEF SpentMore
<1>9. MarksKept(l, m) /\ (c.total = None /\ l.loaded # None => Uncharged \in m.marks[l.loaded])
  BY <1>3, <1>5, <1>6 DEF MarksKept, SameBesides
<1> QED BY <1>3, <1>4, <1>5, <1>6, <1>7, <1>8, <1>9 DEF SameBesides, doubt

LEMMA WritingTheClosingKeeps == FilamentIInv /\ WriteClosing => FilamentIInv'
<1> SUFFICES ASSUME FilamentIInv, WriteClosing PROVE FilamentIInv' OBVIOUS
<1> USE DEF FilamentIInv
<1>1. /\ closing # None /\ ledger' = SettledOnce(ledger, closing) /\ closing' = None
      /\ UNCHANGED <<machine, feeder, on, changes, position, signal, ended, told, spoken, excused>>
  BY DEF WriteClosing, job, truth
<1>2. Fed' = Fed /\ Reach' = Reach BY <1>1 DEF Fed, Reach
<1>3. SignalTypes' /\ SignalOrder' /\ ClosingRead' BY <1>1, <1>2 DEF SignalTypes, Positions, SignalOrder, ClosingRead
<1>4. SignalsTrue => SignalsTrue' BY <1>1, <1>2 DEF SignalsTrue
<1>5. CASE ledger.settled
  <2>1. ledger' = ledger BY <1>1, <1>5 DEF SettledOnce
  <2>2. FilamentTypes' BY <1>1, <1>2, <2>1 DEF FilamentTypes, Positions
  <2>3. JobOrder' BY <1>1, <1>2, <2>1 DEF JobOrder, Runs
  <2>4. Settlement => Settlement' BY <1>1, <1>2, <2>1 DEF Settlement, Share
  <2> QED BY <1>1, <1>3, <1>4, <1>5, <2>1, <2>2, <2>3, <2>4 DEF Truth
<1>6. CASE ~ledger.settled
  <2> DEFINE k == IF closing.total = None THEN 0
                  ELSE IF closing.total <= AlreadyFed(ledger) THEN 0 ELSE closing.total - AlreadyFed(ledger)
             doubt == HoldsChangeMark(ledger, Judged(ledger))
  <2>1. ledger' = Settled(ledger, closing) BY <1>1, <1>6 DEF SettledOnce
  <2>2. /\ Fed \in Nat /\ Reach \in Nat /\ Reach <= Fed /\ ledger \in Ledgers
        /\ AlreadyFed(ledger) \in Nat /\ AlreadyFed(ledger) <= Fed /\ HeldFed(ledger) \in Nat
    BY ReachIsBetween, FedOf DEF FilamentTypes, JobOrder
  <2>3. /\ closing.total # None => closing.total \in 0 .. Reach /\ (position # None => position <= closing.total)
        /\ closing.total = None /\ ~excused => told \/ position = None
    BY <1>1 DEF ClosingRead
  <2>4. k \in Nat /\ (closing.total # None => closing.total \in Nat) BY <2>2, <2>3
  <2>11. ~Runs BY <1>1 DEF ClosingRead
  <2>5. /\ ledger' \in Ledgers /\ ledger'.settled /\ ledger'.loaded = ledger.loaded
        /\ AlreadyFed(ledger') = AlreadyFed(ledger) + k
        /\ HeldFed(ledger') = IF doubt THEN HeldFed(ledger) + k ELSE HeldFed(ledger)
        /\ IF doubt THEN \A s \in Spools : ledger'.spent[s] = ledger.spent[s]
                    ELSE SpentMore(ledger, ledger', ledger.loaded, k)
        /\ MarksKept(ledger, ledger')
        /\ closing.total = None /\ ledger.loaded # None => Uncharged \in ledger'.marks[ledger.loaded]
    <3>1. ledger \in Ledgers BY <2>2
    <3>2. k \in Nat BY <2>4
    <3>3. closing.total # None => closing.total \in Nat BY <2>4
    <3>4. k = IF closing.total = None THEN 0
              ELSE IF closing.total <= AlreadyFed(ledger) THEN 0 ELSE closing.total - AlreadyFed(ledger)
      OBVIOUS
    <3> HIDE DEF k
    <3> QED BY <2>1, <3>1, <3>2, <3>3, <3>4, SettledWrites
  <2>6. AlreadyFed(ledger') <= Fed /\ (k # 0 => AlreadyFed(ledger') <= Reach)
        /\ (closing.total # None => closing.total <= AlreadyFed(ledger'))
    BY <2>2, <2>3, <2>5, <1>1 DEF ClosingRead
  <2>7. FilamentTypes' BY <1>1, <1>2, <2>5 DEF FilamentTypes, Positions
  <2>8. JobOrder' BY <1>1, <1>2, <2>5, <2>6, <2>11 DEF JobOrder, Runs
  <2>9. ASSUME ~excused PROVE SignalsTrue' /\ Settlement'
    <3>1. SignalsTrue /\ Trusted /\ InDoubt /\ Unjudged /\ ChargedAsFed BY <1>6, <2>9 DEF Truth
    <3>2. \A s \in Spools : ledger.spent[s] \in Nat BY <2>2 DEF Ledgers
    <3> HIDE DEF k
    <3>3. \A s \in Spools : Share(s)' = FedOver(feeder, s, AlreadyFed(ledger'))
      <4>1. CASE doubt
        <5>1. OpenBy(on) BY <3>1, <4>1 DEF InDoubt, Doubted
        <5>2. k # 0 => \A s : FedOver(feeder, s, AlreadyFed(ledger'))
                       = FedOver(feeder, s, AlreadyFed(ledger)) + IF s = on THEN k ELSE 0
          <6>1. SUFFICES ASSUME k # 0 PROVE \A s : FedOver(feeder, s, AlreadyFed(ledger'))
                       = FedOver(feeder, s, AlreadyFed(ledger)) + IF s = on THEN k ELSE 0
            OBVIOUS
          <6>2. AlreadyFed(ledger) + k \in Nat /\ AlreadyFed(ledger) <= AlreadyFed(ledger) + k
                /\ AlreadyFed(ledger) + k <= Reach /\ (AlreadyFed(ledger) + k) - AlreadyFed(ledger) = k
            BY <2>2, <2>4, <2>5, <2>6, <6>1
          <6> QED BY <2>5, <5>1, <6>2, OpenIsCounted
        <5>3. \A s \in Spools : Share(s)' = Share(s) + IF s = on THEN k ELSE 0
          BY <1>1, <2>2, <2>4, <2>5, <3>2, <4>1 DEF Share
        <5>4. \A s \in Spools : FedOver(feeder, s, AlreadyFed(ledger)) \in Nat BY <2>2, FedIsCounted
        <5>5. k = 0 => AlreadyFed(ledger') = AlreadyFed(ledger) BY <2>2, <2>5
        <5> QED BY <3>1, <5>2, <5>3, <5>4, <5>5 DEF ChargedAsFed
      <4>2. CASE ~doubt
        <5>1. ledger.loaded # None => HeldFed(ledger) = 0 /\ OpenBy(ledger.loaded)
          BY <3>1, <4>2 DEF Trusted, Fresh, Judged
        <5>2. k # 0 => ledger.loaded # None
          <6>1. ledger.loaded = None => AlreadyFed(ledger) >= Reach BY <3>1, <4>2 DEF Unjudged, Doubted
          <6> QED BY <2>2, <2>4, <2>5, <2>6, <6>1
        <5>3. k # 0 => \A s : FedOver(feeder, s, AlreadyFed(ledger'))
                       = FedOver(feeder, s, AlreadyFed(ledger)) + IF s = ledger.loaded THEN k ELSE 0
          <6>1. SUFFICES ASSUME k # 0 PROVE \A s : FedOver(feeder, s, AlreadyFed(ledger'))
                       = FedOver(feeder, s, AlreadyFed(ledger)) + IF s = ledger.loaded THEN k ELSE 0
            OBVIOUS
          <6>2. AlreadyFed(ledger) + k \in Nat /\ AlreadyFed(ledger) <= AlreadyFed(ledger) + k
                /\ AlreadyFed(ledger) + k <= Reach /\ (AlreadyFed(ledger) + k) - AlreadyFed(ledger) = k
            BY <2>2, <2>4, <2>5, <2>6, <6>1
          <6> QED BY <2>5, <5>1, <5>2, <6>1, <6>2, OpenIsCounted
        <5>4. \A s \in Spools : Share(s)' = Share(s) + IF s = ledger.loaded THEN k ELSE 0
          BY <1>1, <2>2, <2>4, <2>5, <3>2, <4>2 DEF Share, SpentMore
        <5>5. \A s \in Spools : FedOver(feeder, s, AlreadyFed(ledger)) \in Nat BY <2>2, FedIsCounted
        <5>6. k = 0 => AlreadyFed(ledger') = AlreadyFed(ledger) BY <2>2, <2>5
        <5> QED BY <3>1, <5>3, <5>4, <5>5, <5>6 DEF ChargedAsFed
      <4> QED BY <4>1, <4>2
    <3>4. AlreadyFed(ledger') \in Nat BY <2>5, FedOf
    <3>5. \A s \in Spools : Share(s)' <= FedOver(feeder, s, Fed) BY <2>2, <2>6, <3>3, <3>4, FedGrows
    <3>6. ASSUME NEW s \in Spools, Uncharged \notin ledger'.marks[s], position # None
          PROVE  FedOver(feeder, s, position) <= Share(s)'
      <4>1. position \in Nat /\ position <= Reach BY <2>11, <3>6, ReachIsBetween
      <4>2. CASE position <= AlreadyFed(ledger') BY <3>3, <3>4, <4>1, <4>2, FedGrows
      <4>3. CASE ~(position <= AlreadyFed(ledger'))
        <5>1. closing.total = None /\ k = 0
          <6>1. closing.total = None BY <2>3, <2>6, <3>4, <3>6, <4>1, <4>3, <2>2
          <6> QED BY <6>1 DEF k
        <5>2. ledger.loaded = on BY <1>1, <2>9, <3>6, <5>1 DEF ClosingRead, JobOrder
        <5>3. s # ledger.loaded BY <2>5, <3>6, <5>1, SpoolConstants
        <5>4. AlreadyFed(ledger') = AlreadyFed(ledger) BY <2>2, <2>5, <5>1
        <5>5. OpenBy(ledger.loaded)
          <6>1. CASE doubt BY <3>1, <5>2, <6>1 DEF InDoubt, Doubted
          <6>2. CASE ~doubt /\ ledger.loaded # None BY <3>1, <6>2 DEF Trusted, Fresh, Judged
          <6>3. CASE ~doubt /\ ledger.loaded = None BY <2>2, <3>1, <4>1, <4>3, <5>4, <6>3 DEF Unjudged, Doubted
          <6> QED BY <6>1, <6>2, <6>3
        <5>6. FedOver(feeder, s, position) = FedOver(feeder, s, AlreadyFed(ledger)) + 0
          BY <2>2, <4>1, <4>3, <5>3, <5>4, <5>5, OpenIsCounted
        <5>7. FedOver(feeder, s, AlreadyFed(ledger)) \in Nat BY <2>2, FedIsCounted
        <5> QED BY <3>3, <5>4, <5>6, <5>7
      <4> QED BY <4>2, <4>3
    <3>7. Settlement' BY <1>1, <1>2, <3>5, <3>6 DEF Settlement
    <3> QED BY <1>4, <3>1, <3>7
  <2>10. Truth' BY <1>1, <2>5, <2>9 DEF Truth
  <2> QED BY <1>3, <2>7, <2>8, <2>10
<1> QED BY <1>5, <1>6

-----------------------------------------------------------------------------
(* The operator's commands *)

LEMMA AdjustingKeeps ==
  ASSUME FilamentIInv, NEW s \in Spools, AdjustSpool(s)
  PROVE  FilamentIInv'
<1> USE DEF FilamentIInv
<1> DEFINE taken == IF ledger.loaded = s THEN PendingTaken(ledger, s) ELSE ledger
           clear == Cleared(taken, s, ClearedByAdjusting)
<1>1. /\ ledger' = [clear EXCEPT !.spent[s] = FedBy(s, Fed)]
      /\ excused' = (excused \/ ~ledger.settled \/ ~told)
      /\ UNCHANGED <<machine, feeder, on, changes, position, signal, closing, ended, told, spoken>>
  BY DEF AdjustSpool, job
<1>2. Fed' = Fed /\ Reach' = Reach /\ Fed \in Nat /\ ledger \in Ledgers /\ HeldFed(ledger) \in Nat
  BY <1>1, ReachIsBetween, FedOf DEF Fed, Reach, FilamentTypes
<1>3. FedBy(s, Fed) = FedOver(feeder, s, Fed) /\ FedOver(feeder, s, Fed) \in Nat
  BY <1>2, FedIsCounted DEF FedBy, FedOver
<1>4. /\ taken \in Ledgers /\ SameBesides(ledger, taken) /\ AlreadyFed(taken) = AlreadyFed(ledger)
      /\ HeldFed(taken) = IF ledger.loaded = s THEN 0 ELSE HeldFed(ledger)
      /\ \A t \in Spools : t # s => taken.spent[t] = ledger.spent[t]
  <2>1. CASE ledger.loaded = s
    <3>1. taken = PendingTaken(ledger, s) /\ ledger \in Ledgers BY <1>2, <2>1
    <3> HIDE DEF taken
    <3>2. /\ taken \in Ledgers /\ SameBesides(ledger, taken) /\ AlreadyFed(taken) = AlreadyFed(ledger)
          /\ HeldFed(taken) = 0 /\ SpentMore(ledger, taken, s, HeldFed(ledger))
      BY <3>1, HeldTaken
    <3> QED BY <2>1, <3>2 DEF SpentMore
  <2>2. CASE ledger.loaded # s BY <1>2, <2>2 DEF SameBesides
  <2> QED BY <2>1, <2>2
<1> HIDE DEF taken
<1>5. /\ clear \in Ledgers /\ clear.segments = taken.segments /\ clear.spent = taken.spent
      /\ clear.loaded = taken.loaded /\ clear.settled = taken.settled
      /\ MarksRemoved(taken, clear, s, ClearedByAdjusting)
  <2>1. taken \in Ledgers BY <1>4
  <2>2. ClearedByAdjusting \in SUBSET Marks BY DEF ClearedByAdjusting
  <2>3. clear = Cleared(taken, s, ClearedByAdjusting) OBVIOUS
  <2> HIDE DEF clear
  <2> QED BY <2>1, <2>2, <2>3, MarksCleared
<1> HIDE DEF clear
<1>6. /\ ledger' \in Ledgers /\ ledger'.segments = clear.segments /\ ledger'.loaded = ledger.loaded
      /\ ledger'.settled = ledger.settled /\ ledger'.marks = clear.marks
      /\ ledger'.spent = [clear.spent EXCEPT ![s] = FedOver(feeder, s, Fed)]
  BY <1>1, <1>3, <1>4, <1>5 DEF Ledgers, SameBesides
<1>7. AlreadyFed(ledger') = AlreadyFed(ledger) /\ HeldFed(ledger') = HeldFed(taken)
  BY <1>4, <1>5, <1>6, SameSegments
<1>8. FilamentTypes' BY <1>1, <1>2, <1>6 DEF FilamentTypes, Positions
<1>9. SignalTypes' BY <1>1, <1>2 DEF SignalTypes, Positions
<1>10. JobOrder' BY <1>1, <1>2, <1>6, <1>7 DEF JobOrder, Runs
<1>11. SignalOrder' BY <1>1 DEF SignalOrder
<1>12. ClosingRead' BY <1>1, <1>2 DEF ClosingRead, Runs
<1>13. ASSUME ~excused' PROVE ledger'.settled /\ SignalsTrue' /\ Settlement'
  <2>1. ~excused /\ ledger.settled /\ told /\ ledger.loaded = on BY <1>1, <1>13 DEF JobOrder
  <2>2. SignalsTrue /\ Settlement BY <2>1 DEF Truth
  <2>3. SignalsTrue' BY <1>1, <1>2, <2>2 DEF SignalsTrue
  <2>4. clear.spent \in [Spools -> Nat] /\ ledger.spent \in [Spools -> Nat] BY <1>2, <1>5 DEF Ledgers
  <2>5. Share(s)' = FedOver(feeder, s, Fed)
    BY <1>1, <1>3, <1>4, <1>6, <1>7, <2>1, <2>4 DEF Share
  <2>6. \A t \in Spools : t # s => Share(t)' = Share(t)
    <3>1. \A t \in Spools : t # s => ledger'.spent[t] = ledger.spent[t] BY <1>4, <1>5, <1>6, <2>4
    <3>2. \A t \in Spools : t # s /\ t = on => HeldFed(ledger') = HeldFed(ledger) BY <1>4, <1>7, <2>1
    <3> QED BY <1>1, <3>1, <3>2 DEF Share
  <2>7. \A t \in Spools : t # s => ledger'.marks[t] = ledger.marks[t]
    BY <1>4, <1>5, <1>6 DEF MarksRemoved, SameBesides
  <2>8. position # None => FedOver(feeder, s, position) <= FedOver(feeder, s, Fed)
    <3>1. position # None => position \in Nat /\ position <= Fed BY <1>2 DEF FilamentTypes, Positions
    <3> QED BY <1>2, <3>1, FedGrows
  <2>9. Settlement' BY <1>1, <1>2, <1>3, <2>2, <2>5, <2>6, <2>7, <2>8 DEF Settlement
  <2> QED BY <1>6, <2>1, <2>3, <2>9
<1>14. Truth' BY <1>13 DEF Truth
<1> QED BY <1>8, <1>9, <1>10, <1>11, <1>12, <1>14

-----------------------------------------------------------------------------
(* The operator's commands *)

\* What a command of the print charges up to, and what it reads on the way.
ChargesTo(to, excuse) ==
  \/ ledger.settled /\ to = None /\ position' = position /\ excused' = excused
  \/ ~ledger.settled /\ Runs /\ to = Fed /\ position' = Fed /\ excused' = (excused \/ excuse)
  \/ ~ledger.settled /\ to = position /\ position' = position /\ excused' = (excused \/ excuse \/ Runs)
  \/ ~ledger.settled /\ to = None /\ position' = position /\ excused' = TRUE

\* What is open up to there.
OpenUpTo(l, to) == IF to = None THEN 0 ELSE IF to <= AlreadyFed(l) THEN 0 ELSE to - AlreadyFed(l)

LEMMA ChargesWithin ==
  ASSUME FilamentIInv, NEW to, NEW excuse, ChargesTo(to, excuse), Fed' = Fed, machine' = machine
  PROVE  /\ OpenUpTo(ledger, to) \in Nat /\ AlreadyFed(ledger) + OpenUpTo(ledger, to) <= Fed
         /\ AlreadyFed(ledger) \in Nat /\ (to # None => to \in Nat)
         /\ position' \in {None} \union 0 .. Fed /\ Reach' = Reach
         /\ ~excused' /\ ~ledger.settled =>
              /\ ~excused /\ ~excuse
              /\ Runs => to = Fed /\ position' = Fed
              /\ ~Runs => to = position /\ position' = position
              /\ OpenUpTo(ledger, to) # 0 => AlreadyFed(ledger) + OpenUpTo(ledger, to) <= Reach
              /\ machine # "done" => AlreadyFed(ledger) + OpenUpTo(ledger, to) >= Reach
<1> USE DEF FilamentIInv
<1>1. /\ Fed \in Nat /\ Reach \in Nat /\ Reach <= Fed
      /\ AlreadyFed(ledger) \in Nat /\ AlreadyFed(ledger) <= Fed
  BY ReachIsBetween, FedOf DEF FilamentTypes, JobOrder
<1>2. position = None \/ position \in 0 .. Fed BY DEF FilamentTypes, Positions
<1>3. None \notin Int BY SpoolConstants
<1>4. to = None \/ to \in 0 .. Fed BY <1>1, <1>2 DEF ChargesTo
<1>5. OpenUpTo(ledger, to) \in Nat /\ AlreadyFed(ledger) + OpenUpTo(ledger, to) <= Fed /\ (to # None => to \in Nat)
  BY <1>1, <1>3, <1>4 DEF OpenUpTo
<1>6. position' = position \/ (Runs /\ position' = Fed) BY DEF ChargesTo
<1>7. position' \in {None} \union 0 .. Fed BY <1>1, <1>2, <1>6
<1>8. Reach' = Reach BY <1>6 DEF Reach, Runs
<1>9. ASSUME ~excused', ~ledger.settled
      PROVE  /\ ~excused /\ ~excuse
             /\ Runs => to = Fed /\ position' = Fed
             /\ ~Runs => to = position /\ position' = position
  BY <1>9 DEF ChargesTo
<1>10. ASSUME ~excused', ~ledger.settled
       PROVE  /\ OpenUpTo(ledger, to) # 0 => AlreadyFed(ledger) + OpenUpTo(ledger, to) <= Reach
              /\ machine # "done" => AlreadyFed(ledger) + OpenUpTo(ledger, to) >= Reach
  <2>1. CASE Runs
    <3>1. to = Fed /\ Reach = Fed /\ to # None BY <1>1, <1>3, <1>9, <1>10, <2>1 DEF Reach, Runs
    <3> QED BY <1>1, <3>1 DEF OpenUpTo
  <2>2. CASE ~Runs
    <3>1. to = position BY <1>9, <1>10, <2>2
    <3>2. CASE position = None
      <4>1. OpenUpTo(ledger, to) = 0 /\ (machine # "done" => Reach = 0)
        BY <2>2, <3>1, <3>2 DEF OpenUpTo, Reach, Runs, FilamentTypes
      <4> QED BY <1>1, <4>1
    <3>3. CASE position # None
      <4>1. position \in Nat /\ position <= Reach BY <2>2, <3>3, ReachIsBetween
      <4>2. machine # "done" => Reach = position BY <2>2, <3>3 DEF Reach, Runs, FilamentTypes
      <4>3. OpenUpTo(ledger, to) = IF position <= AlreadyFed(ledger) THEN 0 ELSE position - AlreadyFed(ledger)
        BY <3>1, <3>3 DEF OpenUpTo
      <4> QED BY <1>1, <4>1, <4>2, <4>3
    <3> QED BY <3>2, <3>3
  <2> QED BY <2>1, <2>2
<1> QED BY <1>1, <1>5, <1>7, <1>8, <1>9, <1>10

\* Who is charged as a segment is closed, and what for.
LEMMA ClosedWrites ==
  ASSUME NEW l \in Ledgers, NEW judged, NEW outgoing \in Chargeable, NEW incoming \in Chargeable,
         NEW to, to # None => to \in Nat, NEW k \in Nat, k = OpenUpTo(l, to),
         NEW m, m = SegmentClosed(l, judged, outgoing, incoming, to)
  PROVE  /\ m \in Ledgers /\ SameBesides(l, m) /\ HeldFed(m) = HeldFed(l)
         /\ ~HoldsChangeMark(l, judged) => AlreadyFed(m) = AlreadyFed(l) + k /\ SpentMore(l, m, outgoing, k)
         /\ HoldsChangeMark(l, judged) /\ incoming = None => m = l
         /\ HoldsChangeMark(l, judged) /\ incoming # None
              => AlreadyFed(m) = AlreadyFed(l) + k /\ SpentMore(l, m, incoming, k)
         /\ to = None => m = l
<1> DEFINE marked == HoldsChangeMark(l, judged)
<1>1. AlreadyFed(l) \in Nat /\ l.spent \in [Spools -> Nat] BY FedOf DEF Ledgers
<1>2. CASE to = None \/ to <= AlreadyFed(l)
  <2>1. m = l /\ k = 0 BY <1>1, <1>2 DEF SegmentClosed, Feed, OpenUpTo
  <2>2. SameBesides(l, m) /\ AlreadyFed(m) = AlreadyFed(l) + k
    BY <1>1, <2>1 DEF SameBesides
  <2>3. \A t \in Chargeable : SpentMore(l, m, t, k) BY <1>1, <2>1 DEF SpentMore
  <2> QED BY <2>1, <2>2, <2>3
<1>3. CASE to # None /\ ~(to <= AlreadyFed(l))
  <2>1. Feed(l, to) = k /\ ~(k <= 0) BY <1>1, <1>3 DEF Feed, OpenUpTo
  <2>2. m = IF ~marked THEN Charged(l, OpenSegment(l), outgoing, k)
            ELSE IF incoming = None THEN l ELSE Charged(l, OpenSegment(l), incoming, k)
    BY <2>1 DEF SegmentClosed
  <2> HIDE DEF marked
  <2>3. CASE ~marked
    <3>1. m = Charged(l, OpenSegment(l), outgoing, k) BY <2>2, <2>3
    <3>2. /\ m \in Ledgers /\ SameBesides(l, m) /\ SpentMore(l, m, outgoing, k)
          /\ AlreadyFed(m) = AlreadyFed(l) + k /\ HeldFed(m) = HeldFed(l)
      BY <3>1, OpenCharged
    <3> QED BY <1>3, <2>3, <3>2 DEF marked
  <2>4. CASE marked /\ incoming = None
    <3>1. m = l BY <2>2, <2>4
    <3> QED BY <1>3, <2>4, <3>1 DEF marked, SameBesides
  <2>5. CASE marked /\ incoming # None
    <3>1. m = Charged(l, OpenSegment(l), incoming, k) BY <2>2, <2>5
    <3>2. /\ m \in Ledgers /\ SameBesides(l, m) /\ SpentMore(l, m, incoming, k)
          /\ AlreadyFed(m) = AlreadyFed(l) + k /\ HeldFed(m) = HeldFed(l)
      BY <3>1, OpenCharged
    <3> QED BY <1>3, <2>5, <3>2 DEF marked
  <2> QED BY <2>3, <2>4, <2>5
<1> QED BY <1>2, <1>3

\* An unload leaves what is open of a spool in doubt to whom it may belong.
LEMMA UnloadedWrites ==
  ASSUME NEW l \in Ledgers, NEW s \in Spools, NEW to, to # None => to \in Nat,
         NEW k \in Nat, k = OpenUpTo(l, to), NEW m, m = Unloaded(l, s, to)
  PROVE  /\ m \in Ledgers /\ m.loaded = None /\ m.settled = l.settled /\ m.marks = l.marks
         /\ HeldFed(m) = HeldFed(l)
         /\ ~HoldsChangeMark(l, s) => AlreadyFed(m) = AlreadyFed(l) + k /\ SpentMore(l, m, s, k)
         /\ HoldsChangeMark(l, s) => m.segments = l.segments /\ m.spent = l.spent
         /\ to = None => m.segments = l.segments /\ m.spent = l.spent
<1> DEFINE w == SegmentClosed(l, s, s, None, to)
<1>1. s \in Chargeable /\ None \in Chargeable BY DEF Chargeable
<1>2. w = SegmentClosed(l, s, s, None, to) OBVIOUS
<1>3. m = [w EXCEPT !.loaded = None] BY DEF Unloaded
<1> HIDE DEF w
<1>4. w \in Ledgers /\ SameBesides(l, w) /\ HeldFed(w) = HeldFed(l) BY <1>1, <1>2, ClosedWrites
<1>5. ~HoldsChangeMark(l, s) => AlreadyFed(w) = AlreadyFed(l) + k /\ SpentMore(l, w, s, k)
  BY <1>1, <1>2, ClosedWrites
<1>6. (HoldsChangeMark(l, s) \/ to = None) => w = l BY <1>1, <1>2, ClosedWrites
<1>7. /\ m \in Ledgers /\ m.loaded = None /\ m.settled = w.settled /\ m.marks = w.marks
      /\ m.segments = w.segments /\ m.spent = w.spent
  BY <1>3, <1>4 DEF Ledgers
<1>8. AlreadyFed(m) = AlreadyFed(w) /\ HeldFed(m) = HeldFed(w) BY <1>7, SameSegments
<1> QED BY <1>4, <1>5, <1>6, <1>7, <1>8 DEF SameBesides, SpentMore

\* A load takes what is held, and closes the open segment of the spool before.
UnchargedKept(l, m) == \A t \in Spools : Uncharged \in m.marks[t] <=> Uncharged \in l.marks[t]
LoadSpends(l, m, s, payer, k) ==
  \A t \in Spools : m.spent[t] = l.spent[t] + (IF t = s THEN HeldFed(l) ELSE 0) + (IF t = payer THEN k ELSE 0)

LEMMA LoadedWrites ==
  ASSUME NEW l \in Ledgers, NEW s \in Spools, l.loaded # s, NEW to, to # None => to \in Nat,
         NEW k \in Nat, k = OpenUpTo(l, to), NEW m, m = Loaded(l, s, to),
         NEW payer, payer = IF HoldsChangeMark(l, Judged(l)) THEN s ELSE l.loaded
  PROVE  /\ m \in Ledgers /\ m.loaded = s /\ m.settled = l.settled
         /\ HeldFed(m) = 0 /\ AlreadyFed(m) = AlreadyFed(l) + k
         /\ LoadSpends(l, m, s, payer, k)
         /\ UnchargedKept(l, m) /\ m.marks[s] = l.marks[s]
         /\ to = None => m.segments = Taken(l.segments, s)
<1> DEFINE taken == PendingTaken(l, s)
           closed == SegmentClosed(taken, Judged(l), l.loaded, s, to)
           clear == IF l.loaded = None THEN closed ELSE Cleared(closed, l.loaded, ClearedBySwap)
<1>1. m = [clear EXCEPT !.loaded = s] BY DEF Loaded
<1>2. /\ taken \in Ledgers /\ SameBesides(l, taken) /\ AlreadyFed(taken) = AlreadyFed(l) /\ HeldFed(taken) = 0
      /\ SpentMore(l, taken, s, HeldFed(l)) /\ taken.segments = Taken(l.segments, s)
  <2>1. taken = PendingTaken(l, s) OBVIOUS
  <2> HIDE DEF taken
  <2>2. /\ taken \in Ledgers /\ SameBesides(l, taken) /\ AlreadyFed(taken) = AlreadyFed(l) /\ HeldFed(taken) = 0
        /\ SpentMore(l, taken, s, HeldFed(l))
    BY <2>1, HeldTaken
  <2>3. taken.segments = Taken(l.segments, s) BY <2>1, HeldTaken
  <2> QED BY <2>2, <2>3
<1> HIDE DEF taken
<1>3. /\ closed \in Ledgers /\ SameBesides(taken, closed) /\ HeldFed(closed) = 0
      /\ AlreadyFed(closed) = AlreadyFed(l) + k /\ SpentMore(taken, closed, payer, k)
      /\ to = None => closed = taken
  <2>1. taken \in Ledgers BY <1>2
  <2>2. l.loaded \in Chargeable BY DEF Ledgers, Chargeable
  <2>3. s \in Chargeable /\ s # None BY SpoolConstants DEF Chargeable
  <2>4. k = OpenUpTo(taken, to) BY <1>2 DEF OpenUpTo
  <2>5. HoldsChangeMark(taken, Judged(l)) = HoldsChangeMark(l, Judged(l)) BY <1>2 DEF HoldsChangeMark, SameBesides
  <2>6. closed = SegmentClosed(taken, Judged(l), l.loaded, s, to) OBVIOUS
  <2> HIDE DEF closed
  <2>7. ~HoldsChangeMark(taken, Judged(l))
          => /\ closed \in Ledgers /\ SameBesides(taken, closed) /\ HeldFed(closed) = HeldFed(taken)
             /\ to = None => closed = taken
    BY <2>1, <2>2, <2>3, <2>4, <2>6, ClosedWrites
  <2>8. HoldsChangeMark(taken, Judged(l))
          => /\ closed \in Ledgers /\ SameBesides(taken, closed) /\ HeldFed(closed) = HeldFed(taken)
             /\ to = None => closed = taken
    BY <2>1, <2>2, <2>3, <2>4, <2>6, ClosedWrites
  <2>9. ~HoldsChangeMark(taken, Judged(l))
          => AlreadyFed(closed) = AlreadyFed(taken) + k /\ SpentMore(taken, closed, l.loaded, k)
    BY <2>1, <2>2, <2>3, <2>4, <2>6, ClosedWrites
  <2>10. HoldsChangeMark(taken, Judged(l))
          => AlreadyFed(closed) = AlreadyFed(taken) + k /\ SpentMore(taken, closed, s, k)
    BY <2>1, <2>2, <2>3, <2>4, <2>6, ClosedWrites
  <2> QED BY <1>2, <2>5, <2>7, <2>8, <2>9, <2>10
<1> HIDE DEF closed
<1>4. /\ clear \in Ledgers /\ clear.segments = closed.segments /\ clear.spent = closed.spent
      /\ clear.settled = closed.settled /\ UnchargedKept(closed, clear) /\ clear.marks[s] = closed.marks[s]
  <2>1. CASE l.loaded = None BY <1>3, <2>1 DEF UnchargedKept
  <2>2. CASE l.loaded # None
    <3>1. l.loaded \in Spools BY <2>2 DEF Ledgers
    <3>2. ClearedBySwap \in SUBSET Marks BY DEF ClearedBySwap, Marks
    <3>3. clear = Cleared(closed, l.loaded, ClearedBySwap) BY <2>2
    <3>4. closed \in Ledgers BY <1>3
    <3> HIDE DEF clear
    <3>5. /\ clear \in Ledgers /\ clear.segments = closed.segments /\ clear.spent = closed.spent
          /\ clear.settled = closed.settled /\ MarksRemoved(closed, clear, l.loaded, ClearedBySwap)
      BY <3>1, <3>2, <3>3, <3>4, MarksCleared
    <3>6. Uncharged \notin ClearedBySwap BY DEF ClearedBySwap, Uncharged, Change
    <3> QED BY <3>5, <3>6 DEF MarksRemoved, UnchargedKept
  <2> QED BY <2>1, <2>2
<1> HIDE DEF clear
<1>5. /\ m \in Ledgers /\ m.segments = clear.segments /\ m.spent = clear.spent /\ m.loaded = s
      /\ m.settled = clear.settled /\ m.marks = clear.marks
  BY <1>1, <1>4 DEF Ledgers
<1>6. AlreadyFed(m) = AlreadyFed(closed) /\ HeldFed(m) = HeldFed(closed) BY <1>4, <1>5, SameSegments
<1>7. LoadSpends(l, m, s, payer, k)
  <2>1. HeldFed(l) \in Nat /\ \A t \in Spools : l.spent[t] \in Nat BY FedOf DEF Ledgers
  <2>2. \A t \in Spools : taken.spent[t] = IF t = s THEN l.spent[t] + HeldFed(l) ELSE l.spent[t] BY <1>2 DEF SpentMore
  <2>3. \A t \in Spools : m.spent[t] = IF t = payer THEN taken.spent[t] + k ELSE taken.spent[t]
    BY <1>3, <1>4, <1>5 DEF SpentMore
  <2> QED BY <2>1, <2>2, <2>3 DEF LoadSpends
<1>8. UnchargedKept(l, m) /\ m.marks[s] = l.marks[s]
  BY <1>2, <1>3, <1>4, <1>5 DEF UnchargedKept, SameBesides
<1> QED BY <1>2, <1>3, <1>4, <1>5, <1>6, <1>7, <1>8 DEF SameBesides

\* A load of the spool on the tool confirms it.
LEMMA ConfirmedWrites ==
  ASSUME NEW l \in Ledgers, NEW s \in Spools, l.loaded = s, NEW m, m = Loaded(l, s, None)
  PROVE  /\ m \in Ledgers /\ m.loaded = s /\ m.settled = l.settled
         /\ HeldFed(m) = 0 /\ AlreadyFed(m) = AlreadyFed(l)
         /\ SpentMore(l, m, s, HeldFed(l))
         /\ UnchargedKept(l, m) /\ ~HoldsChangeMark(m, s)
         /\ m.segments = Taken(l.segments, s)
<1> DEFINE taken == PendingTaken(l, s)
<1>1. m = Cleared(taken, s, ClearedByConfirming) BY DEF Loaded
<1>2. /\ taken \in Ledgers /\ SameBesides(l, taken) /\ AlreadyFed(taken) = AlreadyFed(l) /\ HeldFed(taken) = 0
      /\ SpentMore(l, taken, s, HeldFed(l)) /\ taken.segments = Taken(l.segments, s)
  <2>1. taken = PendingTaken(l, s) OBVIOUS
  <2> HIDE DEF taken
  <2>2. /\ taken \in Ledgers /\ SameBesides(l, taken) /\ AlreadyFed(taken) = AlreadyFed(l) /\ HeldFed(taken) = 0
        /\ SpentMore(l, taken, s, HeldFed(l))
    BY <2>1, HeldTaken
  <2>3. taken.segments = Taken(l.segments, s) BY <2>1, HeldTaken
  <2> QED BY <2>2, <2>3
<1> HIDE DEF taken
<1>3. /\ m \in Ledgers /\ m.segments = taken.segments /\ m.spent = taken.spent /\ m.loaded = taken.loaded
      /\ m.settled = taken.settled /\ MarksRemoved(taken, m, s, ClearedByConfirming)
  <2>1. ClearedByConfirming \in SUBSET Marks BY DEF ClearedByConfirming, Marks
  <2>2. taken \in Ledgers BY <1>2
  <2> QED BY <1>1, <2>1, <2>2, MarksCleared
<1>4. AlreadyFed(m) = AlreadyFed(taken) /\ HeldFed(m) = HeldFed(taken) BY <1>3, SameSegments
<1>5. UnchargedKept(l, m)
  <2>1. Uncharged \notin ClearedByConfirming BY DEF ClearedByConfirming, Uncharged, Change, ChangePosition
  <2> QED BY <1>2, <1>3, <2>1 DEF UnchargedKept, MarksRemoved, SameBesides
<1>6. ~HoldsChangeMark(m, s) BY <1>3 DEF HoldsChangeMark, MarksRemoved, ClearedByConfirming
<1> QED BY <1>2, <1>3, <1>4, <1>5, <1>6 DEF SameBesides, SpentMore

\* What was charged is what was fed: a length of the open segment charged to the
\* spool that fed it keeps it so.
LEMMA ChargesCount ==
  ASSUME FilamentIInv, NEW k \in Nat, NEW x, k # 0 => AlreadyFed(ledger) + k <= Reach /\ OpenBy(x)
  PROVE  \A s : FedOver(feeder, s, AlreadyFed(ledger) + k)
                  = FedOver(feeder, s, AlreadyFed(ledger)) + IF s = x THEN k ELSE 0
<1>1. AlreadyFed(ledger) \in Nat BY FedOf DEF FilamentIInv, FilamentTypes
<1>2. CASE k = 0
  <2>1. \A s : FedOver(feeder, s, AlreadyFed(ledger)) \in Nat BY <1>1, FedIsCounted
  <2>2. AlreadyFed(ledger) + k = AlreadyFed(ledger) BY <1>1, <1>2
  <2> QED BY <1>2, <2>1, <2>2
<1>3. CASE k # 0
  <2>1. AlreadyFed(ledger) + k \in Nat /\ AlreadyFed(ledger) <= AlreadyFed(ledger) + k
        /\ AlreadyFed(ledger) + k <= Reach /\ (AlreadyFed(ledger) + k) - AlreadyFed(ledger) = k /\ OpenBy(x)
    BY <1>1, <1>3
  <2> QED BY <2>1, OpenIsCounted
<1> QED BY <1>2, <1>3

LEMMA ConfirmingKeeps ==
  ASSUME FilamentIInv, NEW s \in Spools, LoadSpool(s), ledger.loaded = s
  PROVE  FilamentIInv'
<1> USE DEF FilamentIInv
<1>1. /\ s = on /\ ledger' = Loaded(ledger, s, None) /\ position' = position /\ excused' = excused
      /\ told' = TRUE /\ spoken' = changes
      /\ UNCHANGED <<machine, feeder, on, changes, signal, closing, ended>>
  BY DEF LoadSpool, NotRead, job
<1>2. ledger \in Ledgers BY DEF FilamentTypes
<1>3. Fed' = Fed /\ Reach' = Reach /\ Fed \in Nat /\ changes \in Nat
  BY <1>1, ReachIsBetween, FilamentConstants DEF Fed, Reach, FilamentTypes
<1>4. /\ ledger' \in Ledgers /\ ledger'.loaded = s /\ ledger'.settled = ledger.settled
      /\ HeldFed(ledger') = 0 /\ AlreadyFed(ledger') = AlreadyFed(ledger)
      /\ SpentMore(ledger, ledger', s, HeldFed(ledger))
      /\ UnchargedKept(ledger, ledger') /\ ~HoldsChangeMark(ledger', s)
  BY <1>1, <1>2, ConfirmedWrites
<1>5. FilamentTypes' BY <1>1, <1>3, <1>4 DEF FilamentTypes, Positions
<1>6. SignalTypes' BY <1>1, <1>3 DEF SignalTypes, Positions
<1>7. JobOrder' BY <1>1, <1>3, <1>4 DEF JobOrder, Runs
<1>8. SignalOrder' BY <1>1 DEF SignalOrder
<1>9. ClosingRead' BY <1>1, <1>3 DEF ClosingRead, Runs
<1>10. \A t \in Spools : Share(t)' = Share(t)
  <2>1. HeldFed(ledger) \in Nat /\ \A t \in Spools : ledger.spent[t] \in Nat BY <1>2, FedOf DEF Ledgers
  <2> QED BY <1>1, <1>4, <2>1 DEF Share, SpentMore
<1>11. ASSUME ~excused', ~ledger.settled PROVE Trusted' /\ InDoubt' /\ Unjudged' /\ ChargedAsFed'
  <2>1. Trusted /\ InDoubt /\ ChargedAsFed BY <1>1, <1>11 DEF Truth
  <2>2. s # None BY SpoolConstants
  <2>3. OpenBy(on) BY <1>1, <2>1, <2>2 DEF Trusted, InDoubt, Fresh, Doubted, Judged
  <2>4. OpenBy(on)' BY <1>1, <1>3, <1>4, <2>3 DEF OpenBy
  <2>5. Fresh' /\ ~Doubted' BY <1>4, <2>2 DEF Fresh, Doubted, Judged
  <2>6. Trusted' BY <1>1, <1>4, <2>4 DEF Trusted
  <2>7. InDoubt' /\ Unjudged' BY <1>4, <2>2, <2>5 DEF InDoubt, Unjudged
  <2>8. ChargedAsFed' BY <1>1, <1>4, <1>10, <2>1 DEF ChargedAsFed
  <2> QED BY <2>6, <2>7, <2>8
<1>12. ASSUME ~excused', ledger.settled PROVE Settlement'
  <2>1. Settlement BY <1>1, <1>12 DEF Truth
  <2> QED BY <1>1, <1>3, <1>4, <1>10, <2>1 DEF Settlement, UnchargedKept
<1>13. ~excused' => SignalsTrue' BY <1>1, <1>3 DEF Truth, SignalsTrue
<1>14. Truth' BY <1>4, <1>11, <1>12, <1>13 DEF Truth
<1> QED BY <1>5, <1>6, <1>7, <1>8, <1>9, <1>14

LEMMA LoadingKeeps ==
  ASSUME FilamentIInv, NEW s \in Spools, LoadSpool(s), ledger.loaded # s
  PROVE  FilamentIInv'
<1> USE DEF FilamentIInv
<1>1. /\ s = on /\ told' = TRUE /\ spoken' = changes
      /\ UNCHANGED <<machine, feeder, on, changes, signal, closing, ended>>
  BY DEF LoadSpool, job
<1>2. PICK to : ledger' = Loaded(ledger, s, to) /\ ChargesTo(to, MarkedBack(s))
  <2>1. Charging(LAMBDA to : ledger' = Loaded(ledger, s, to), MarkedBack(s)) BY DEF LoadSpool
  <2>2. ended => ledger.settled BY DEF JobOrder
  <2> QED BY <2>1, <2>2 DEF Charging, ChargesTo, ReadNow, NotRead
<1>3. ledger \in Ledgers BY DEF FilamentTypes
<1>4. Fed' = Fed /\ Fed \in Nat /\ changes \in Nat /\ s # None
  BY <1>1, ReachIsBetween, FilamentConstants, SpoolConstants DEF Fed, FilamentTypes
<1> DEFINE k == OpenUpTo(ledger, to)
           doubt == HoldsChangeMark(ledger, Judged(ledger))
           payer == IF doubt THEN s ELSE ledger.loaded
<1>5. /\ k \in Nat /\ AlreadyFed(ledger) + k <= Fed /\ AlreadyFed(ledger) \in Nat
      /\ position' \in Positions /\ Reach' = Reach /\ (to # None => to \in Nat)
  BY <1>1, <1>2, <1>4, ChargesWithin DEF Positions
<1>6. ~excused' /\ ~ledger.settled =>
        /\ ~excused /\ ~MarkedBack(s)
        /\ Runs => to = Fed /\ position' = Fed
        /\ ~Runs => to = position /\ position' = position
        /\ k # 0 => AlreadyFed(ledger) + k <= Reach
        /\ machine # "done" => AlreadyFed(ledger) + k >= Reach
  BY <1>1, <1>2, <1>4, ChargesWithin
<1>7. /\ ledger' \in Ledgers /\ ledger'.loaded = s /\ ledger'.settled = ledger.settled
      /\ HeldFed(ledger') = 0 /\ AlreadyFed(ledger') = AlreadyFed(ledger) + k
      /\ LoadSpends(ledger, ledger', s, payer, k)
      /\ UnchargedKept(ledger, ledger') /\ ledger'.marks[s] = ledger.marks[s]
  <2>1. k \in Nat /\ k = OpenUpTo(ledger, to) /\ (to # None => to \in Nat) BY <1>5
  <2>2. payer = IF HoldsChangeMark(ledger, Judged(ledger)) THEN s ELSE ledger.loaded OBVIOUS
  <2> HIDE DEF k, payer
  <2> QED BY <1>2, <1>3, <2>1, <2>2, LoadedWrites
<1> HIDE DEF k, payer
<1>8. FilamentTypes'
  <2>1. excused \in BOOLEAN /\ MarkedBack(s) \in BOOLEAN /\ Runs \in BOOLEAN
    BY DEF FilamentTypes, MarkedBack, HoldsChangeMark, Runs
  <2>2. excused' \in BOOLEAN BY <1>2, <2>1 DEF ChargesTo
  <2>3. spoken' \in 0 .. changes' BY <1>1, <1>4
  <2>4. feeder' \in Seq(Spools) /\ Fed' <= Units /\ changes' \in 0 .. MaxChanges
        /\ on' \in Spools \union {None} /\ machine' \in {"printing", "changing", "done", "stopped"}
        /\ ended' \in BOOLEAN
    BY <1>1, <1>4 DEF FilamentTypes
  <2>5. position' \in Positions' BY <1>4, <1>5 DEF Positions
  <2>6. told' \in BOOLEAN BY <1>1
  <2>7. ledger' \in Ledgers BY <1>7
  <2>8. changes' \in 0 .. MaxChanges /\ spoken' \in 0 .. changes' BY <2>3, <2>4
  <2> QED BY <2>2, <2>4, <2>5, <2>6, <2>7, <2>8 DEF FilamentTypes
<1>9. SignalTypes' BY <1>1, <1>4 DEF SignalTypes, Positions
<1>10. JobOrder' BY <1>1, <1>4, <1>5, <1>7 DEF JobOrder, Runs
<1>11. SignalOrder' BY <1>1 DEF SignalOrder
<1>12. ClosingRead' BY <1>1, <1>2, <1>5 DEF ClosingRead, Runs, ChargesTo
<1>13. HeldFed(ledger) \in Nat /\ \A t \in Spools : ledger.spent[t] \in Nat BY <1>3, FedOf DEF Ledgers
<1>14. \A t \in Spools : Share(t)' = Share(t) + IF t = payer THEN k ELSE 0
  BY <1>1, <1>5, <1>7, <1>13 DEF Share, LoadSpends
<1>15. ASSUME ~excused', ~ledger.settled
       PROVE  SignalsTrue' /\ Trusted' /\ InDoubt' /\ Unjudged' /\ ChargedAsFed'
  <2>1. SignalsTrue /\ Trusted /\ InDoubt /\ Unjudged /\ ChargedAsFed /\ Reach \in Nat /\ Reach <= Fed
    BY <1>6, <1>15, ReachIsBetween DEF Truth
  <2>2. SignalsTrue' BY <1>1, <1>4, <1>6, <1>15, <2>1 DEF SignalsTrue
  <2>3. ~HoldsChangeMark(ledger', s) BY <1>6, <1>7, <1>15 DEF MarkedBack, HoldsChangeMark
  <2>4. Fresh' /\ ~Doubted' BY <1>4, <1>7, <2>3 DEF Fresh, Doubted, Judged
  <2>5. ~doubt /\ ledger.loaded # None => OpenBy(ledger.loaded) /\ machine # "done"
    BY <1>1, <2>1 DEF Trusted, Fresh, Judged
  <2>6. ~doubt /\ ledger.loaded = None => AlreadyFed(ledger) >= Reach BY <2>1 DEF Unjudged, Doubted
  <2>7. OpenBy(on)'
    <3>1. CASE doubt
      <4>1. OpenBy(on) BY <2>1, <3>1 DEF InDoubt, Doubted
      <4> QED BY <1>1, <1>5, <1>7, <2>1, <4>1 DEF OpenBy
    <3>2. CASE ~doubt
      <4>1. AlreadyFed(ledger) + k >= Reach BY <1>5, <1>6, <1>15, <2>1, <2>5, <2>6, <3>2
      <4> QED BY <1>5, <1>7, <2>1, <4>1 DEF OpenBy
    <3> QED BY <3>1, <3>2
  <2>8. Trusted' BY <1>1, <1>7, <2>7 DEF Trusted
  <2>9. InDoubt' /\ Unjudged' BY <1>4, <1>7, <2>4 DEF InDoubt, Unjudged
  <2>10. ChargedAsFed'
    <3>1. k # 0 => AlreadyFed(ledger) + k <= Reach /\ OpenBy(payer)
      <4>1. CASE doubt
        <5>1. OpenBy(on) /\ payer = on BY <1>1, <2>1, <4>1 DEF InDoubt, Doubted, payer
        <5> QED BY <1>6, <1>15, <5>1
      <4>2. CASE ~doubt
        <5>1. payer = ledger.loaded BY <4>2 DEF payer
        <5> QED BY <1>5, <1>6, <1>15, <2>1, <2>5, <2>6, <4>2, <5>1
      <4> QED BY <4>1, <4>2
    <3>2. \A t : FedOver(feeder, t, AlreadyFed(ledger) + k)
                   = FedOver(feeder, t, AlreadyFed(ledger)) + IF t = payer THEN k ELSE 0
      BY <1>5, <3>1, ChargesCount
    <3> QED BY <1>1, <1>7, <1>14, <2>1, <3>2 DEF ChargedAsFed
  <2> QED BY <2>2, <2>8, <2>9, <2>10
<1>16. ASSUME ~excused', ledger.settled PROVE SignalsTrue' /\ Settlement'
  <2>1. to = None /\ position' = position /\ ~excused BY <1>2, <1>16 DEF ChargesTo
  <2>2. SignalsTrue /\ Settlement BY <1>16, <2>1 DEF Truth
  <2>3. SignalsTrue' BY <1>1, <1>4, <2>1, <2>2 DEF SignalsTrue
  <2>4. k = 0 BY <2>1 DEF k, OpenUpTo
  <2>5. \A t \in Spools : Share(t)' = Share(t)
    <3>1. \A t \in Spools : Share(t) \in Nat BY <1>13 DEF Share
    <3> QED BY <1>14, <2>4, <3>1
  <2>6. Settlement' BY <1>1, <1>4, <1>7, <2>1, <2>2, <2>5 DEF Settlement, UnchargedKept
  <2> QED BY <2>3, <2>6
<1>17. Truth' BY <1>7, <1>15, <1>16 DEF Truth
<1> QED BY <1>8, <1>9, <1>10, <1>11, <1>12, <1>17

\* An unload, and the retirement of the spool on the tool, which unloads it first:
\* of what it leaves, the invariant speaks of all but who is retired.
Unloads(s, to) ==
  LET m == Unloaded(ledger, s, to) IN
  /\ ledger' \in Ledgers /\ ledger'.segments = m.segments /\ ledger'.spent = m.spent
  /\ ledger'.loaded = None /\ ledger'.marks = m.marks /\ ledger'.settled = m.settled

LEMMA UnloadingKeeps ==
  ASSUME FilamentIInv, NEW s \in Spools, ledger.loaded = s, on # s, NEW to, Unloads(s, to),
         ChargesTo(to, MarkLost(s)), told' = (on = None),
         UNCHANGED <<machine, feeder, on, changes, signal, closing, ended, spoken>>
  PROVE  FilamentIInv'
<1> USE DEF FilamentIInv
<1>3. ledger \in Ledgers /\ ledger' \in Ledgers BY DEF FilamentTypes, Unloads
<1>4. Fed' = Fed /\ Fed \in Nat /\ s # None
  BY ReachIsBetween, SpoolConstants DEF Fed
<1> DEFINE k == OpenUpTo(ledger, to)
           doubt == HoldsChangeMark(ledger, s)
<1>5. /\ k \in Nat /\ AlreadyFed(ledger) + k <= Fed /\ AlreadyFed(ledger) \in Nat
      /\ position' \in Positions /\ Reach' = Reach /\ (to # None => to \in Nat)
  BY <1>4, ChargesWithin DEF Positions
<1>6. ~excused' /\ ~ledger.settled =>
        /\ ~excused /\ ~MarkLost(s)
        /\ Runs => to = Fed /\ position' = Fed
        /\ ~Runs => to = position /\ position' = position
        /\ k # 0 => AlreadyFed(ledger) + k <= Reach
        /\ machine # "done" => AlreadyFed(ledger) + k >= Reach
  BY <1>4, ChargesWithin
<1>7. /\ ledger'.loaded = None /\ ledger'.settled = ledger.settled /\ ledger'.marks = ledger.marks
      /\ HeldFed(ledger') = HeldFed(ledger)
      /\ ~doubt => AlreadyFed(ledger') = AlreadyFed(ledger) + k /\ SpentMore(ledger, ledger', s, k)
      /\ doubt \/ to = None => /\ ledger'.segments = ledger.segments /\ ledger'.spent = ledger.spent
                               /\ AlreadyFed(ledger') = AlreadyFed(ledger)
  <2> DEFINE m == Unloaded(ledger, s, to)
  <2>1. m = Unloaded(ledger, s, to) OBVIOUS
  <2>6. /\ ledger'.segments = m.segments /\ ledger'.spent = m.spent
        /\ ledger'.loaded = None /\ ledger'.marks = m.marks /\ ledger'.settled = m.settled
    BY DEF Unloads
  <2>2. k \in Nat /\ k = OpenUpTo(ledger, to) /\ (to # None => to \in Nat) BY <1>5
  <2> HIDE DEF k, m
  <2>3. m \in Ledgers /\ m.loaded = None /\ m.settled = ledger.settled /\ m.marks = ledger.marks
        /\ HeldFed(m) = HeldFed(ledger)
    BY <1>3, <2>1, <2>2, UnloadedWrites
  <2>4. ~doubt => AlreadyFed(m) = AlreadyFed(ledger) + k /\ SpentMore(ledger, m, s, k)
    BY <1>3, <2>1, <2>2, UnloadedWrites
  <2>5. doubt \/ to = None => m.segments = ledger.segments /\ m.spent = ledger.spent
    BY <1>3, <2>1, <2>2, UnloadedWrites
  <2>7. AlreadyFed(ledger') = AlreadyFed(m) /\ HeldFed(ledger') = HeldFed(m) BY <2>6, SameSegments
  <2> QED BY <2>3, <2>4, <2>5, <2>6, <2>7, SameSegments DEF SpentMore
<1> HIDE DEF k
<1>8. FilamentTypes' BY <1>4, <1>5, <1>7, <1>3 DEF FilamentTypes, Positions, ChargesTo
<1>9. SignalTypes' BY <1>4 DEF SignalTypes, Positions
<1>10. JobOrder' BY <1>4, <1>5, <1>7 DEF JobOrder, Runs
<1>11. SignalOrder' BY DEF SignalOrder
<1>12. ClosingRead'
  <2>1. ~told BY DEF JobOrder
  <2>2. closing # None => ~Runs BY DEF ClosingRead
  <2>3. ~Runs => position' = position BY DEF ChargesTo
  <2>4. ~excused' => ~excused BY DEF ChargesTo
  <2> QED BY <1>5, <2>1, <2>2, <2>3, <2>4 DEF ClosingRead, Runs
<1>13. HeldFed(ledger) \in Nat /\ \A t \in Spools : ledger.spent[t] \in Nat BY <1>3, FedOf DEF Ledgers
<1>15. ASSUME ~excused', ~ledger.settled
       PROVE  SignalsTrue' /\ Trusted' /\ InDoubt' /\ Unjudged' /\ ChargedAsFed'
  <2>1. SignalsTrue /\ Trusted /\ InDoubt /\ ChargedAsFed /\ Reach \in Nat /\ Reach <= Fed
    BY <1>6, <1>15, ReachIsBetween DEF Truth
  <2>2. SignalsTrue' BY <1>4, <1>6, <1>15, <2>1 DEF SignalsTrue
  <2>3. ~Fresh' /\ Trusted' BY <1>7 DEF Fresh, Trusted
  <2>4. CASE doubt
    <3>1. Doubted' BY <1>6, <1>7, <1>15, <1>4, <2>4, SameSegments DEF MarkLost, Doubted, Judged, HoldsChangeMark
    <3>2. InDoubt BY <2>1
    <3>3. Doubted BY <1>4, <2>4 DEF Doubted, Judged
    <3>4. OpenBy(on)' BY <1>5, <1>7, <2>4, <3>2, <3>3 DEF InDoubt, OpenBy
    <3>5. InDoubt' BY <1>4, <1>7, <2>4, <3>2, <3>3, <3>4 DEF InDoubt
    <3>6. ChargedAsFed' BY <1>7, <2>1, <2>4 DEF ChargedAsFed, Share
    <3> QED BY <2>2, <2>3, <3>1, <3>5, <3>6 DEF Unjudged
  <2>5. CASE ~doubt
    <3>1. Fresh BY <1>4, <2>5 DEF Fresh
    <3>2. /\ HeldFed(ledger) = 0 /\ OpenBy(s) /\ spoken < changes
          /\ machine # "done" /\ (machine = "changing" => signal[changes].at = "read")
      BY <2>1, <3>1 DEF Trusted
    <3>3. AlreadyFed(ledger') >= Reach /\ AlreadyFed(ledger') \in Nat BY <1>5, <1>6, <1>7, <1>15, <2>5, <3>2
    <3>4. OpenBy(on)' BY <1>5, <2>1, <3>3 DEF OpenBy
    <3>5. machine = "changing" => AlreadyFed(ledger') = Fed
      <4>1. machine = "changing" => Reach = Fed BY DEF Reach
      <4> QED BY <1>4, <1>5, <1>7, <2>5, <3>3, <4>1
    <3>6. InDoubt' BY <1>4, <1>7, <3>2, <3>4, <3>5 DEF InDoubt
    <3>7. Unjudged' BY <1>5, <1>7, <3>2, <3>3 DEF Unjudged
    <3>8. ChargedAsFed'
      <4>1. \A t : FedOver(feeder, t, AlreadyFed(ledger) + k)
                     = FedOver(feeder, t, AlreadyFed(ledger)) + IF t = s THEN k ELSE 0
        BY <1>5, <1>6, <1>15, <3>2, ChargesCount
      <4>2. \A t \in Spools : Share(t)' = Share(t) + IF t = s THEN k ELSE 0
        BY <1>5, <1>7, <1>13, <2>5, <3>2 DEF Share, SpentMore
      <4> QED BY <1>7, <2>1, <2>5, <4>1, <4>2 DEF ChargedAsFed
    <3> QED BY <2>2, <2>3, <3>6, <3>7, <3>8
  <2> QED BY <2>4, <2>5
<1>16. ASSUME ~excused', ledger.settled PROVE SignalsTrue' /\ Settlement'
  <2>1. to = None /\ position' = position /\ ~excused BY <1>16 DEF ChargesTo
  <2>2. SignalsTrue /\ Settlement BY <1>16, <2>1 DEF Truth
  <2>3. SignalsTrue' BY <1>4, <2>1, <2>2 DEF SignalsTrue
  <2>4. \A t \in Spools : Share(t)' = Share(t) BY <1>7, <2>1 DEF Share
  <2>5. Settlement' BY <1>4, <1>7, <2>1, <2>2, <2>4 DEF Settlement
  <2> QED BY <2>3, <2>5
<1>17. Truth' BY <1>7, <1>15, <1>16 DEF Truth
<1> QED BY <1>8, <1>9, <1>10, <1>11, <1>12, <1>17

LEMMA UnloadingSpoolKeeps ==
  ASSUME FilamentIInv, NEW s \in Spools, UnloadSpool(s)
  PROVE  FilamentIInv'
<1>1. /\ ledger.loaded = s /\ on # s /\ told' = (on = None)
      /\ UNCHANGED <<machine, feeder, on, changes, signal, closing, ended, spoken>>
  BY DEF UnloadSpool, job
<1>2. PICK to : ledger' = Unloaded(ledger, s, to) /\ ChargesTo(to, MarkLost(s))
  <2>1. Charging(LAMBDA to : ledger' = Unloaded(ledger, s, to), MarkLost(s)) BY DEF UnloadSpool
  <2>2. ended => ledger.settled BY DEF JobOrder, FilamentIInv
  <2> QED BY <2>1, <2>2 DEF Charging, ChargesTo, ReadNow, NotRead
<1>3. Unloads(s, to)
  <2>1. Fed' = Fed BY <1>1 DEF Fed
  <2>2. OpenUpTo(ledger, to) \in Nat /\ (to # None => to \in Nat) BY <1>1, <1>2, <2>1, ChargesWithin
  <2>3. ledger \in Ledgers BY DEF FilamentIInv, FilamentTypes
  <2>4. ledger' \in Ledgers /\ ledger'.loaded = None BY <1>2, <2>2, <2>3, UnloadedWrites
  <2> QED BY <1>2, <2>4 DEF Unloads
<1> QED BY <1>1, <1>2, <1>3, UnloadingKeeps

LEMMA RetiringKeeps ==
  ASSUME FilamentIInv, NEW s \in Spools, RetireSpool(s)
  PROVE  FilamentIInv'
<1> USE DEF FilamentIInv
<1>1. on # s /\ UNCHANGED <<machine, feeder, on, changes, signal, closing, ended, spoken>>
  BY DEF RetireSpool, job
<1>2. ledger \in Ledgers BY DEF FilamentTypes
<1>3. CASE ledger.loaded = s
  <2>1. told' = (on = None) BY <1>3 DEF RetireSpool
  <2>2. PICK to : /\ ledger' = [Unloaded(ledger, s, to) EXCEPT !.retired = @ \union {s}]
                  /\ ChargesTo(to, MarkLost(s))
    <3>1. Charging(LAMBDA to : ledger' = [Unloaded(ledger, s, to) EXCEPT !.retired = @ \union {s}], MarkLost(s))
      BY <1>3 DEF RetireSpool
    <3>2. ended => ledger.settled BY DEF JobOrder
    <3> QED BY <3>1, <3>2 DEF Charging, ChargesTo, ReadNow, NotRead
  <2>3. Unloads(s, to)
    <3> DEFINE m == Unloaded(ledger, s, to)
    <3>1. Fed' = Fed BY <1>1 DEF Fed
    <3>2. OpenUpTo(ledger, to) \in Nat /\ (to # None => to \in Nat) BY <1>1, <2>2, <3>1, ChargesWithin
    <3>3. m = Unloaded(ledger, s, to) /\ ledger' = [m EXCEPT !.retired = @ \union {s}] BY <2>2
    <3> HIDE DEF m
    <3>4. m \in Ledgers /\ m.loaded = None BY <1>2, <3>2, <3>3, UnloadedWrites
    <3>5. /\ ledger' \in Ledgers /\ ledger'.segments = m.segments /\ ledger'.spent = m.spent
          /\ ledger'.loaded = None /\ ledger'.marks = m.marks /\ ledger'.settled = m.settled
      BY <3>3, <3>4 DEF Ledgers
    <3> QED BY <3>3, <3>5 DEF Unloads
  <2> QED BY <1>1, <1>3, <2>1, <2>2, <2>3, UnloadingKeeps
<1>4. CASE ledger.loaded # s
  <2>1. ledger' = [ledger EXCEPT !.retired = @ \union {s}] /\ UNCHANGED <<position, told, excused>>
    BY <1>4 DEF RetireSpool, NotRead
  <2>2. /\ ledger' \in Ledgers /\ ledger'.segments = ledger.segments /\ ledger'.spent = ledger.spent
        /\ ledger'.loaded = ledger.loaded /\ ledger'.marks = ledger.marks /\ ledger'.settled = ledger.settled
    BY <1>2, <2>1 DEF Ledgers
  <2>3. /\ AlreadyFed(ledger') = AlreadyFed(ledger) /\ HeldFed(ledger') = HeldFed(ledger)
        /\ LastSpool(ledger') = LastSpool(ledger)
    BY <2>2, SameSegments
  <2>4. Fed' = Fed /\ Reach' = Reach BY <1>1, <2>1 DEF Fed, Reach
  <2>5. FilamentTypes' BY <1>1, <2>1, <2>2, <2>4 DEF FilamentTypes, Positions
  <2>6. SignalTypes' BY <1>1, <2>4 DEF SignalTypes, Positions
  <2>7. JobOrder' BY <1>1, <2>1, <2>2, <2>3, <2>4 DEF JobOrder, Runs
  <2>8. SignalOrder' BY <1>1 DEF SignalOrder
  <2>9. ClosingRead' BY <1>1, <2>1, <2>4 DEF ClosingRead, Runs
  <2>10. Fresh' = Fresh /\ Doubted' = Doubted
    BY <2>2, <2>3 DEF Fresh, Doubted, Judged, HoldsChangeMark
  <2>11. \A x : OpenBy(x)' = OpenBy(x) BY <1>1, <2>3, <2>4 DEF OpenBy
  <2>12. \A t \in Spools : Share(t)' = Share(t) BY <1>1, <2>2, <2>3 DEF Share
  <2>13. SignalsTrue' = SignalsTrue BY <1>1, <2>1, <2>4 DEF SignalsTrue
  <2>14. Trusted => Trusted' BY <1>1, <2>2, <2>3, <2>10, <2>11 DEF Trusted
  <2>15. InDoubt => InDoubt' BY <1>1, <2>3, <2>4, <2>10, <2>11 DEF InDoubt
  <2>16. Unjudged => Unjudged' BY <2>2, <2>3, <2>4, <2>10 DEF Unjudged
  <2>17. ChargedAsFed => ChargedAsFed' BY <1>1, <2>3, <2>12 DEF ChargedAsFed
  <2>18. Settlement => Settlement' BY <1>1, <2>1, <2>2, <2>4, <2>12 DEF Settlement
  <2>19. Truth' BY <2>1, <2>2, <2>13, <2>14, <2>15, <2>16, <2>17, <2>18 DEF Truth
  <2> QED BY <2>5, <2>6, <2>7, <2>8, <2>9, <2>19
<1> QED BY <1>3, <1>4

-----------------------------------------------------------------------------
(* The settlement, and the steps one by one *)

\* The segments there were are there as they were.
SegmentsKept(l, m) == \A n \in DOMAIN l.segments : m.segments[n] = l.segments[n]

LEMMA AddingKeeps ==
  ASSUME NEW l \in Ledgers, NEW m, NEW t \in Chargeable \union {Held}, NEW k \in Nat, SegmentAdded(l, m, t, k)
  PROVE  SegmentsKept(l, m)
<1> DEFINE e == [to |-> t, length |-> k]
<1>1. l.segments \in Seq(Segment) /\ e \in Segment BY DEF Ledgers, Segment, Chargeable
<1>2. m.segments = Append(l.segments, e) BY DEF SegmentAdded
<1>3. DOMAIN l.segments = 1 .. Len(l.segments) BY <1>1, LengthsOf
<1> HIDE DEF e
<1> QED BY <1>1, <1>2, <1>3, AppendProperties DEF SegmentsKept

\* Whatever a signal was read as, its write adds a segment at most.
LEMMA SignalledKeeps ==
  ASSUME NEW l \in Ledgers, NEW c \in Changes, signal[c].position \in {None} \union Nat
  PROVE  SegmentsKept(l, Signalled(l, c))
<1> DEFINE length == Feed(l, signal[c].position)
           w == IF length <= 0 THEN l
                ELSE IF HoldsChangeMark(l, l.loaded) THEN Pended(l, OpenSegment(l), length)
                ELSE Charged(l, OpenSegment(l), l.loaded, length)
           mark == IF signal[c].fresh THEN Change ELSE ChangePosition
<1>1. AlreadyFed(l) \in Nat /\ l.loaded \in Spools \union {None} BY FedOf DEF Ledgers
<1>2. length \in Int BY <1>1 DEF Feed
<1> HIDE DEF length
<1>3. w \in Ledgers /\ SegmentsKept(l, w)
  <2>1. CASE length <= 0 BY <2>1 DEF SegmentsKept
  <2>2. CASE ~(length <= 0) /\ HoldsChangeMark(l, l.loaded)
    <3>1. length \in Nat BY <2>2, <1>2
    <3>2. w = Pended(l, OpenSegment(l), length) BY <2>2
    <3> HIDE DEF w
    <3>3. w \in Ledgers BY <3>1, <3>2, OpenPended
    <3>4. SegmentAdded(l, w, Held, length) BY <3>1, <3>2, OpenPended
    <3> QED BY <3>1, <3>3, <3>4, AddingKeeps
  <2>3. CASE ~(length <= 0) /\ ~HoldsChangeMark(l, l.loaded)
    <3> DEFINE t == l.loaded
    <3>1. length \in Nat BY <2>3, <1>2
    <3>2. w = Charged(l, OpenSegment(l), t, length) BY <2>3
    <3>3. t \in Chargeable BY <1>1 DEF Chargeable
    <3> HIDE DEF w, t
    <3>4. w \in Ledgers BY <3>1, <3>2, <3>3, OpenCharged
    <3>5. SegmentAdded(l, w, t, length) BY <3>1, <3>2, <3>3, OpenCharged
    <3>6. t \in Chargeable \union {Held} BY <3>3
    <3> QED BY <3>1, <3>4, <3>5, <3>6, AddingKeeps
  <2> QED BY <2>1, <2>2, <2>3
<1>4. Signalled(l, c) = IF l.loaded = None THEN l ELSE Marked(w, l.loaded, mark) BY DEF Signalled, length
<1>5. mark \in Marks BY DEF Marks
<1> HIDE DEF w, mark
<1> DEFINE m == Marked(w, l.loaded, mark)
<1>6. m.segments = w.segments
  <2> DEFINE t == l.loaded
  <2>1. w \in Ledgers BY <1>3
  <2>2. m = Marked(w, t, mark) OBVIOUS
  <2>3. t \in Chargeable BY <1>1 DEF Chargeable
  <2> HIDE DEF m, t
  <2> QED BY <1>5, <2>1, <2>2, <2>3, MarkSet
<1> QED BY <1>3, <1>4, <1>6 DEF SegmentsKept

-----------------------------------------------------------------------------
(* What the invariant gives *)

\* Every state the system reaches satisfies the invariant.
THEOREM FilamentInvariance == FilamentSpec => []FilamentIInv
<1>1. FilamentIInv /\ UNCHANGED filament => FilamentIInv'
  <2> SUFFICES ASSUME FilamentIInv, UNCHANGED filament PROVE FilamentIInv' OBVIOUS
  <2> USE DEF filament
  <2>1. Fed' = Fed /\ Reach' = Reach BY DEF Fed, Reach
  <2>2. FilamentTypes' BY DEF FilamentIInv, FilamentTypes, Positions, Fed
  <2>3. SignalTypes' BY <2>1 DEF FilamentIInv, SignalTypes, Positions
  <2>4. JobOrder' BY <2>1 DEF FilamentIInv, JobOrder, Runs
  <2>5. SignalOrder' BY DEF FilamentIInv, SignalOrder
  <2>6. ClosingRead' BY <2>1 DEF FilamentIInv, ClosingRead, Runs
  <2>7. Truth'
    <3>1. SignalsTrue' = SignalsTrue BY <2>1 DEF SignalsTrue
    <3>2. \A x : OpenBy(x)' = OpenBy(x) BY <2>1 DEF OpenBy
    <3>3. Fresh' = Fresh /\ Doubted' = Doubted BY DEF Fresh, Doubted
    <3>4. Trusted => Trusted' BY <3>2, <3>3 DEF Trusted
    <3>5. InDoubt => InDoubt' BY <2>1, <3>2, <3>3 DEF InDoubt
    <3>6. Unjudged => Unjudged' BY <2>1, <3>3 DEF Unjudged
    <3>7. \A s \in Spools : Share(s)' = Share(s) BY DEF Share
    <3>8. ChargedAsFed => ChargedAsFed' BY <3>7 DEF ChargedAsFed
    <3>9. Settlement => Settlement' BY <2>1, <3>7 DEF Settlement
    <3> QED BY <3>1, <3>4, <3>5, <3>6, <3>8, <3>9 DEF FilamentIInv, Truth
  <2> QED BY <2>2, <2>3, <2>4, <2>5, <2>6, <2>7 DEF FilamentIInv
<1>2. FilamentIInv /\ FilamentNext => FilamentIInv'
  <2> SUFFICES ASSUME FilamentIInv, FilamentNext PROVE FilamentIInv' OBVIOUS
  <2>1. CASE FeedUnit \/ ReachChange \/ SwapSpool \/ PrintOn \/ JobStops
    BY <2>1, FeedsKeep, ReachingAChangeKeeps, SwapsKeep, PrintingOnKeeps, StopsKeep
  <2>2. CASE ObservePosition BY <2>2, ObservingKeeps
  <2>3. ASSUME NEW c \in Changes, ReadSignal(c) \/ WriteSignal(c) PROVE FilamentIInv'
    BY <2>3, ReadingASignalKeeps, WritingASignalKeeps
  <2>4. ASSUME NEW s \in Spools, LoadSpool(s) PROVE FilamentIInv'
    BY <2>4, ConfirmingKeeps, LoadingKeeps
  <2>5. ASSUME NEW s \in Spools, UnloadSpool(s) \/ RetireSpool(s) \/ AdjustSpool(s) PROVE FilamentIInv'
    BY <2>5, UnloadingSpoolKeeps, RetiringKeeps, AdjustingKeeps
  <2>6. CASE ReadClosing \/ WriteClosing \/ EndPrint \/ OperatorCloses
    BY <2>6, ReadingTheClosingKeeps, WritingTheClosingKeeps, EndsKeep, OperatorsCloseKeeps
  <2>7. CASE Crash BY <2>7, CrashesKeep
  <2> QED BY <2>1, <2>2, <2>3, <2>4, <2>5, <2>6, <2>7 DEF FilamentNext
<1> QED BY <1>1, <1>2, FilamentInitially, PTL DEF FilamentSpec

LEMMA InvariantIsEnough == FilamentIInv => LedgerInv
<1> SUFFICES ASSUME FilamentIInv PROVE LedgerInv OBVIOUS
<1>1. NothingTwice BY DEF FilamentIInv, JobOrder, NothingTwice
<1>2. UnmarkedIsTrue
  <2> SUFFICES ASSUME ledger.settled, ~excused,
                      \A n \in DOMAIN ledger.segments : ~IsHeld(ledger.segments[n]),
                      NEW s \in Spools, ledger.marks[s] = {}
               PROVE  /\ position # None => FedBy(s, position) <= ledger.spent[s]
                      /\ ledger.spent[s] <= FedBy(s, Fed)
    BY DEF UnmarkedIsTrue
  <2>1. ledger \in Ledgers BY DEF FilamentIInv, FilamentTypes
  <2>2. HeldFed(ledger) = 0 /\ ledger.spent[s] \in Nat BY <2>1, FedOf DEF Ledgers
  <2>3. Share(s) = ledger.spent[s] BY <2>2 DEF Share
  <2>4. Settlement BY DEF FilamentIInv, Truth
  <2>5. \A u : FedBy(s, u) = FedOver(feeder, s, u) BY DEF FedBy, FedOver
  <2> QED BY <2>3, <2>4, <2>5 DEF Settlement
<1> QED BY <1>1, <1>2 DEF LedgerInv

\* Whatever is signalled, loaded, unloaded, read late or lost to a crash, in
\* whatever order, a print is charged for no more than its printer fed; and once it
\* is settled and holds nothing, a spool with no mark has been charged for what it
\* fed, to within the last position read -- for any number of spools, of changes,
\* of commands and of crashes (accounting.rs: `handle_signal`, `close_segment`,
\* `closing_writes`).
THEOREM PrintsAreChargedAsTheyFed == FilamentSpec => []LedgerInv
BY FilamentInvariance, InvariantIsEnough, PTL

-----------------------------------------------------------------------------
(* What a settlement is final for *)

SettledIsFinal ==
  /\ ledger'.settled
  /\ AlreadyFed(ledger') = AlreadyFed(ledger)
       \/ \E c \in Changes : signal[c].at = "read" /\ signal'[c].at = "over"
  /\ \A n \in DOMAIN ledger.segments :
       /\ ledger'.segments[n].length = ledger.segments[n].length
       /\ IsHeld(ledger.segments[n]) \/ ledger'.segments[n] = ledger.segments[n]

\* A step that leaves the segments alone, or gives a spool what is held of them,
\* leaves a settlement as it was.
LEMMA KeptIsFinal ==
  ASSUME ledger \in Ledgers, ledger.settled, ledger'.settled = ledger.settled,
         ledger'.segments = ledger.segments
  PROVE  SettledIsFinal
BY SameSegments DEF SettledIsFinal

LEMMA TakenIsFinal ==
  ASSUME ledger \in Ledgers, ledger.settled, ledger'.settled = ledger.settled,
         NEW s \in Spools, ledger'.segments = Taken(ledger.segments, s),
         AlreadyFed(ledger') = AlreadyFed(ledger)
  PROVE  SettledIsFinal
<1>1. ledger.segments \in Seq(Segment) BY DEF Ledgers
<1>2. \A n \in DOMAIN ledger.segments :
        ledger'.segments[n] = IF IsHeld(ledger.segments[n]) THEN [ledger.segments[n] EXCEPT !.to = s]
                              ELSE ledger.segments[n]
  BY DEF Taken
<1>3. \A n \in DOMAIN ledger.segments : ledger.segments[n] \in Segment BY <1>1, LengthsOf
<1>4. \A n \in DOMAIN ledger.segments : [ledger.segments[n] EXCEPT !.to = s].length = ledger.segments[n].length
  BY <1>3 DEF Segment
<1> QED BY <1>2, <1>4 DEF SettledIsFinal

LEMMA CommandsAreFinal ==
  ASSUME FilamentIInv, ledger.settled, NEW s \in Spools,
         LoadSpool(s) \/ UnloadSpool(s) \/ RetireSpool(s) \/ AdjustSpool(s)
  PROVE  SettledIsFinal
<1>1. ledger \in Ledgers BY DEF FilamentIInv, FilamentTypes
<1>2. OpenUpTo(ledger, None) = 0 BY DEF OpenUpTo
<1>3. CASE LoadSpool(s)
  <2>1. ledger' = Loaded(ledger, s, None) BY <1>3 DEF LoadSpool, Charging
  <2>2. CASE ledger.loaded = s
    <3>1. /\ ledger'.settled = ledger.settled /\ AlreadyFed(ledger') = AlreadyFed(ledger)
          /\ ledger'.segments = Taken(ledger.segments, s)
      BY <1>1, <2>1, <2>2, ConfirmedWrites
    <3> QED BY <1>1, <3>1, TakenIsFinal
  <2>3. CASE ledger.loaded # s
    <3> DEFINE payer == IF HoldsChangeMark(ledger, Judged(ledger)) THEN s ELSE ledger.loaded
               k == 0
    <3>1. payer = IF HoldsChangeMark(ledger, Judged(ledger)) THEN s ELSE ledger.loaded OBVIOUS
    <3>2. k \in Nat /\ k = OpenUpTo(ledger, None) BY <1>2
    <3>3. AlreadyFed(ledger) + k = AlreadyFed(ledger) BY <1>1, FedOf
    <3> HIDE DEF payer, k
    <3>4. ledger'.settled = ledger.settled BY <1>1, <2>1, <2>3, <3>1, <3>2, LoadedWrites
    <3>5. AlreadyFed(ledger') = AlreadyFed(ledger) + k BY <1>1, <2>1, <2>3, <3>1, <3>2, LoadedWrites
    <3>6. ledger'.segments = Taken(ledger.segments, s) BY <1>1, <2>1, <2>3, <3>1, <3>2, LoadedWrites
    <3> QED BY <1>1, <3>3, <3>4, <3>5, <3>6, TakenIsFinal
  <2> QED BY <2>2, <2>3
<1>4. CASE UnloadSpool(s)
  <2>1. ledger' = Unloaded(ledger, s, None) BY <1>4 DEF UnloadSpool, Charging
  <2>2. ledger'.settled = ledger.settled BY <1>1, <1>2, <2>1, UnloadedWrites
  <2>3. ledger'.segments = ledger.segments BY <1>1, <1>2, <2>1, UnloadedWrites
  <2> QED BY <1>1, <2>2, <2>3, KeptIsFinal
<1>5. CASE RetireSpool(s)
  <2>1. CASE ledger.loaded = s
    <3> DEFINE m == Unloaded(ledger, s, None)
    <3>1. m = Unloaded(ledger, s, None) /\ ledger' = [m EXCEPT !.retired = @ \union {s}]
      BY <1>5, <2>1 DEF RetireSpool, Charging
    <3> HIDE DEF m
    <3>2. m \in Ledgers BY <1>1, <1>2, <3>1, UnloadedWrites
    <3>3. m.settled = ledger.settled BY <1>1, <1>2, <3>1, UnloadedWrites
    <3>4. m.segments = ledger.segments BY <1>1, <1>2, <3>1, UnloadedWrites
    <3>5. ledger'.settled = ledger.settled /\ ledger'.segments = ledger.segments BY <3>1, <3>2, <3>3, <3>4 DEF Ledgers
    <3> QED BY <1>1, <3>5, KeptIsFinal
  <2>2. CASE ledger.loaded # s
    <3>1. ledger' = [ledger EXCEPT !.retired = @ \union {s}] BY <1>5, <2>2 DEF RetireSpool
    <3>2. ledger'.settled = ledger.settled /\ ledger'.segments = ledger.segments BY <1>1, <3>1 DEF Ledgers
    <3> QED BY <1>1, <3>2, KeptIsFinal
  <2> QED BY <2>1, <2>2
<1>6. CASE AdjustSpool(s)
  <2> DEFINE taken == IF ledger.loaded = s THEN PendingTaken(ledger, s) ELSE ledger
             clear == Cleared(taken, s, ClearedByAdjusting)
  <2>1. ledger' = [clear EXCEPT !.spent[s] = FedBy(s, Fed)] BY <1>6 DEF AdjustSpool
  <2>2. /\ taken \in Ledgers /\ taken.settled = ledger.settled /\ AlreadyFed(taken) = AlreadyFed(ledger)
        /\ taken.segments = ledger.segments \/ taken.segments = Taken(ledger.segments, s)
    <3>1. CASE ledger.loaded = s
      <4>1. taken = PendingTaken(ledger, s) BY <3>1
      <4> HIDE DEF taken
      <4>2. taken \in Ledgers /\ SameBesides(ledger, taken) /\ AlreadyFed(taken) = AlreadyFed(ledger)
        BY <1>1, <4>1, HeldTaken
      <4>3. taken.segments = Taken(ledger.segments, s) BY <1>1, <4>1, HeldTaken
      <4> QED BY <4>2, <4>3 DEF SameBesides
    <3>2. CASE ledger.loaded # s BY <1>1, <3>2
    <3> QED BY <3>1, <3>2
  <2>3. clear = Cleared(taken, s, ClearedByAdjusting) /\ ClearedByAdjusting \in SUBSET Marks
    BY DEF ClearedByAdjusting
  <2> HIDE DEF taken, clear
  <2>4. clear \in Ledgers /\ clear.segments = taken.segments /\ clear.settled = taken.settled
    BY <2>2, <2>3, MarksCleared
  <2>5. ledger'.segments = taken.segments /\ ledger'.settled = ledger.settled BY <2>1, <2>2, <2>4 DEF Ledgers
  <2>6. AlreadyFed(ledger') = AlreadyFed(ledger) BY <2>2, <2>5, SameSegments
  <2> QED BY <1>1, <2>2, <2>5, <2>6, KeptIsFinal, TakenIsFinal
<1> QED BY <1>3, <1>4, <1>5, <1>6

\* Once a print is settled no step settles it again, charges more for it but a
\* signal read before, or changes what a segment of it was charged -- whatever
\* close-outs, commands and crashes come after (ledger.rs: `settle`).
THEOREM SettlementsAreFinal == FilamentSpec => SettlementIsFinal
<1>1. FilamentIInv /\ [FilamentNext]_filament => [ledger.settled => SettledIsFinal]_filament
  <2> SUFFICES ASSUME FilamentIInv, FilamentNext, ledger.settled PROVE SettledIsFinal OBVIOUS
  <2>1. ledger \in Ledgers BY DEF FilamentIInv, FilamentTypes
  <2>2. CASE UNCHANGED ledger BY <2>1, <2>2, KeptIsFinal
  <2>3. CASE FeedUnit \/ ReachChange \/ SwapSpool \/ PrintOn \/ JobStops
    BY <2>2, <2>3 DEF FeedUnit, ReachChange, SwapSpool, PrintOn, JobStops
  <2>4. CASE ObservePosition BY <2>2, <2>4 DEF ObservePosition
  <2>5. ASSUME NEW c \in Changes, ReadSignal(c) PROVE SettledIsFinal BY <2>2, <2>5 DEF ReadSignal
  <2>6. ASSUME NEW c \in Changes, WriteSignal(c) PROVE SettledIsFinal
    <3>1. /\ signal[c].at = "read" /\ ledger' = Signalled(ledger, c)
          /\ signal' = [signal EXCEPT ![c] = [Unsignalled EXCEPT !.at = "over"]]
      BY <2>6 DEF WriteSignal
    <3>2. signal'[c].at = "over" BY <3>1 DEF FilamentIInv, SignalTypes, Unsignalled
    <3>3. Fed \in Nat /\ AlreadyFed(ledger) <= Fed BY ReachIsBetween DEF FilamentIInv, JobOrder
    <3>4. signal[c].position \in {None} \union 0 .. Fed BY DEF FilamentIInv, SignalTypes, Positions
    <3>5. ledger'.settled = ledger.settled BY <2>1, <3>1, <3>3, <3>4, SignalledBounds
    <3>6. SegmentsKept(ledger, ledger')
      <4>1. signal[c].position \in {None} \union Nat BY <3>4
      <4> QED BY <2>1, <3>1, <4>1, SignalledKeeps
    <3> QED BY <3>1, <3>2, <3>5, <3>6 DEF SettledIsFinal, SegmentsKept
  <2>7. ASSUME NEW s \in Spools, LoadSpool(s) \/ UnloadSpool(s) \/ RetireSpool(s) \/ AdjustSpool(s)
        PROVE  SettledIsFinal
    BY <2>7, CommandsAreFinal
  <2>8. CASE ReadClosing \/ EndPrint BY <2>2, <2>8 DEF ReadClosing, EndPrint
  <2>9. CASE WriteClosing BY <2>2, <2>9 DEF WriteClosing, SettledOnce
  <2>10. CASE OperatorCloses BY <2>10 DEF OperatorCloses
  <2>11. CASE Crash BY <2>2, <2>11 DEF Crash
  <2> QED BY <2>3, <2>4, <2>5, <2>6, <2>7, <2>8, <2>9, <2>10, <2>11 DEF FilamentNext
<1>2. FilamentSpec => [][ledger.settled => SettledIsFinal]_filament
  BY <1>1, FilamentInvariance, PTL DEF FilamentSpec
<1> QED BY <1>2 DEF SettlementIsFinal, SettledIsFinal

-----------------------------------------------------------------------------
(* The prints nobody watched *)

UnobservedSpec == UnobservedInit /\ [][UnobservedNext]_unobserved

Counts == [good : Nat, bad : Nat]
Found(o) == {key \in written : key.o = o}
\* A print that is over and not yet settled.
OverAs(o) == IF watched = o THEN 1 ELSE 0

CountTypes == tally \in Counts /\ made \in Counts /\ since \in Counts /\ settled \in Counts
KeyTypes ==
  /\ held \in [good : Nat, bad : Nat, gen : Nat] \union {NoTallies, OtherFiles}
  /\ IsFiniteSet(written)
  /\ \A key \in written : key.gen \in Nat /\ key.n \in Nat /\ key.o \in Outcomes
\* No key is above the tally last accounted, in its generation.
Keyed ==
  /\ held \in {NoTallies, OtherFiles} => written = {}
  /\ held = OtherFiles => since = settled
  /\ \A key \in written : key.gen <= held.gen /\ (key.gen = held.gen => key.n <= Total(held))

\* What is accounted, what is to be settled, and what the next accounting would
\* find were truly made.
Once(o) == Accounted(o) + OverAs(o) <= made[o]
Window(o) ==
  /\ Accounted(o) - since[o] + tally[o] - held[o] <= made[o]
  /\ WentDown => Accounted(o) - since[o] + tally[o] <= made[o]
\* With the file never replaced, nothing else was made.
NoneLost(o) ==
  /\ Accounted(o) - since[o] + tally[o] - held[o] = made[o]
  /\ tally[o] - held[o] >= since[o] + OverAs(o)

JudgedRight ==
  ~misread =>
    /\ phase = "accounting" => watched \notin Outcomes
    /\ \A o \in Outcomes :
         /\ Once(o)
         /\ held # NoTallies => Window(o)
         /\ held # NoTallies /\ resets = 0 => NoneLost(o)

UnobservedIInv ==
  /\ CountTypes /\ KeyTypes /\ Keyed /\ JudgedRight
  /\ misread \in BOOLEAN /\ resets \in Nat

-----------------------------------------------------------------------------
(* Counting keys *)

\* A count with one more of an outcome.
LEMMA OneMore ==
  ASSUME NEW c \in Counts, NEW o \in Outcomes
  PROVE  /\ [c EXCEPT ![o] = @ + 1] \in Counts
         /\ \A p \in Outcomes : [c EXCEPT ![o] = @ + 1][p] = IF p = o THEN c[p] + 1 ELSE c[p]
  BY DEF Counts, Outcomes

\* The keys of an interval of ordinals are as many as its ordinals.
IntervalKeys(a, b, gen, o) == {[gen |-> gen, n |-> i, o |-> o] : i \in a .. b}

LEMMA KeysOfAnInterval ==
  ASSUME NEW a \in Int, NEW b \in Int, NEW gen, NEW o
  PROVE  /\ IsFiniteSet(IntervalKeys(a, b, gen, o))
         /\ Cardinality(IntervalKeys(a, b, gen, o)) = IF a > b THEN 0 ELSE b - a + 1
<1> DEFINE keys == {[gen |-> gen, n |-> i, o |-> o] : i \in a .. b}
           f == [i \in a .. b |-> [gen |-> gen, n |-> i, o |-> o]]
<1>1. f \in [a .. b -> keys] OBVIOUS
<1>2. \A i, j \in a .. b : f[i] = f[j] => i = j
  <2> SUFFICES ASSUME NEW i \in a .. b, NEW j \in a .. b, f[i] = f[j] PROVE i = j OBVIOUS
  <2>1. f[i].n = i /\ f[j].n = j OBVIOUS
  <2> QED BY <2>1
<1>3. \A key \in keys : \E i \in a .. b : f[i] = key OBVIOUS
<1> HIDE DEF f
<1>4. f \in Bijection(a .. b, keys)
  BY <1>1, <1>2, <1>3 DEF Bijection, Injection, Surjection, IsInjective
<1> HIDE DEF keys
<1>5. ExistsBijection(a .. b, keys) BY <1>4 DEF ExistsBijection
<1>6. IsFiniteSet(a .. b) /\ Cardinality(a .. b) = IF a > b THEN 0 ELSE b - a + 1 BY FS_Interval
<1>7. IsFiniteSet(keys) /\ Cardinality(keys) = Cardinality(a .. b) BY <1>5, <1>6, FS_Bijection
<1> QED BY <1>6, <1>7 DEF keys, IntervalKeys

Growth(from, to, known, o) == Larger(to[o] - from[o] - known[o], 0)
KeysOf(gen, unseen) == {[gen |-> gen, n |-> u.n, o |-> u.o] : u \in unseen}

\* The unseen prints between two tallies: as many of each outcome as it grew by
\* beyond what was known, with the highest ordinals of the later tally.
LEMMA UnseenAre ==
  ASSUME NEW from, from.good \in Nat, from.bad \in Nat, NEW to \in Counts, NEW known \in Counts, NEW gen \in Nat
  PROVE  LET new == KeysOf(gen, UnseenBetween(from, to, known)) IN
         /\ IsFiniteSet(new)
         /\ \A key \in new :
              /\ key.gen = gen /\ key.n \in Nat /\ key.o \in Outcomes /\ key.n <= Total(to)
              /\ key.n > Total(to) - Growth(from, to, known, "good") - Growth(from, to, known, "bad")
         /\ \A o \in Outcomes : Cardinality({key \in new : key.o = o}) = Growth(from, to, known, o)
<1> DEFINE s == Growth(from, to, known, "good")
           f == Growth(from, to, known, "bad")
           first == Total(to) - (s + f) + 1
           unseen == {[n |-> first + i, o |-> IF i < s THEN "good" ELSE "bad"] : i \in 0 .. s + f - 1}
           new == KeysOf(gen, UnseenBetween(from, to, known))
           goods == IntervalKeys(first, first + s - 1, gen, "good")
           bads == IntervalKeys(first + s, first + s + f - 1, gen, "bad")
<1>1. UnseenBetween(from, to, known) = unseen BY DEF UnseenBetween, Growth
<1>2. s \in Nat /\ f \in Nat /\ s <= to.good /\ f <= to.bad /\ to.good \in Nat /\ to.bad \in Nat
  BY DEF Growth, Larger, Counts
<1>3. Total(to) \in Nat /\ first \in Nat /\ first > 0 /\ first = Total(to) - s - f + 1
  BY <1>2 DEF Total
<1> HIDE DEF s, f, first
<1>4. new = {[gen |-> gen, n |-> first + i, o |-> IF i < s THEN "good" ELSE "bad"] : i \in 0 .. s + f - 1}
  <2>1. ASSUME NEW u \in unseen
        PROVE  \E i \in 0 .. s + f - 1 :
                 /\ u.n = first + i /\ u.o = IF i < s THEN "good" ELSE "bad"
    OBVIOUS
  <2>2. ASSUME NEW i \in 0 .. s + f - 1
        PROVE  \E u \in unseen : u.n = first + i /\ u.o = IF i < s THEN "good" ELSE "bad"
    <3> DEFINE u == [n |-> first + i, o |-> IF i < s THEN "good" ELSE "bad"]
    <3>1. u \in unseen /\ u.n = first + i /\ u.o = IF i < s THEN "good" ELSE "bad" OBVIOUS
    <3> QED BY <3>1
  <2>3. new = {[gen |-> gen, n |-> u.n, o |-> u.o] : u \in unseen} BY <1>1 DEF KeysOf
  <2> HIDE DEF unseen, new
  <2> QED BY <2>1, <2>2, <2>3
<1>5. {key \in new : key.o = "good"} = goods
  <2> HIDE DEF new
  <2>1. ASSUME NEW key \in new, key.o = "good" PROVE key \in goods
    <3>1. PICK i \in 0 .. s + f - 1 : key = [gen |-> gen, n |-> first + i, o |-> IF i < s THEN "good" ELSE "bad"]
      BY <1>4, <2>1
    <3>2. i < s BY <2>1, <3>1
    <3>3. first + i \in first .. first + s - 1 BY <1>2, <1>3, <3>2
    <3> QED BY <3>1, <3>2, <3>3 DEF IntervalKeys
  <2>2. ASSUME NEW key \in goods PROVE key \in new /\ key.o = "good"
    <3>1. PICK i \in first .. first + s - 1 : key = [gen |-> gen, n |-> i, o |-> "good"]
      BY DEF IntervalKeys
    <3>2. i - first \in 0 .. s + f - 1 /\ i - first < s /\ first + (i - first) = i BY <1>2, <1>3
    <3>3. key = [gen |-> gen, n |-> first + (i - first), o |-> IF i - first < s THEN "good" ELSE "bad"]
      BY <3>1, <3>2
    <3> QED BY <1>4, <3>1, <3>2, <3>3
  <2> QED BY <2>1, <2>2
<1>6. {key \in new : key.o = "bad"} = bads
  <2> HIDE DEF new
  <2>1. ASSUME NEW key \in new, key.o = "bad" PROVE key \in bads
    <3>1. PICK i \in 0 .. s + f - 1 : key = [gen |-> gen, n |-> first + i, o |-> IF i < s THEN "good" ELSE "bad"]
      BY <1>4, <2>1
    <3>2. ~(i < s) BY <2>1, <3>1
    <3>3. first + i \in first + s .. first + s + f - 1 BY <1>2, <1>3, <3>2
    <3> QED BY <3>1, <3>2, <3>3 DEF IntervalKeys
  <2>2. ASSUME NEW key \in bads PROVE key \in new /\ key.o = "bad"
    <3>1. PICK i \in first + s .. first + s + f - 1 : key = [gen |-> gen, n |-> i, o |-> "bad"]
      BY DEF IntervalKeys
    <3>2. i - first \in 0 .. s + f - 1 /\ ~(i - first < s) /\ first + (i - first) = i BY <1>2, <1>3
    <3>3. key = [gen |-> gen, n |-> first + (i - first), o |-> IF i - first < s THEN "good" ELSE "bad"]
      BY <3>1, <3>2
    <3> QED BY <1>4, <3>1, <3>2, <3>3
  <2> QED BY <2>1, <2>2
<1>7. IsFiniteSet(goods) /\ Cardinality(goods) = s
  <2>1. first \in Int /\ first + s - 1 \in Int BY <1>2, <1>3
  <2> DEFINE last == first + s - 1
  <2> HIDE DEF last
  <2>2. IsFiniteSet(IntervalKeys(first, last, gen, "good"))
        /\ Cardinality(IntervalKeys(first, last, gen, "good")) = IF first > last THEN 0 ELSE last - first + 1
    BY <2>1, KeysOfAnInterval DEF last
  <2>3. goods = IntervalKeys(first, last, gen, "good") BY DEF last
  <2> HIDE DEF goods
  <2> QED BY <2>2, <2>3, <1>2, <1>3 DEF last
<1>8. IsFiniteSet(bads) /\ Cardinality(bads) = f
  <2>1. first + s \in Int /\ first + s + f - 1 \in Int BY <1>2, <1>3
  <2> DEFINE lowest == first + s
             last == first + s + f - 1
  <2> HIDE DEF lowest, last
  <2>2. IsFiniteSet(IntervalKeys(lowest, last, gen, "bad"))
        /\ Cardinality(IntervalKeys(lowest, last, gen, "bad")) = IF lowest > last THEN 0 ELSE last - lowest + 1
    BY <2>1, KeysOfAnInterval DEF lowest, last
  <2>3. bads = IntervalKeys(lowest, last, gen, "bad") BY DEF lowest, last
  <2>4. lowest \in Int /\ last \in Int /\ last = lowest + f - 1 BY <1>2, <1>3 DEF lowest, last
  <2>5. (IF lowest > last THEN 0 ELSE last - lowest + 1) = f BY <1>2, <2>4
  <2> HIDE DEF bads
  <2> QED BY <2>2, <2>3, <2>5
<1>9. \A key \in new : /\ key.gen = gen /\ key.n \in Nat /\ key.o \in Outcomes /\ key.n <= Total(to)
                      /\ key.n > Total(to) - s - f
  <2> HIDE DEF new
  <2> SUFFICES ASSUME NEW key \in new
               PROVE  /\ key.gen = gen /\ key.n \in Nat /\ key.o \in Outcomes /\ key.n <= Total(to)
                      /\ key.n > Total(to) - s - f
    OBVIOUS
  <2>1. PICK i \in 0 .. s + f - 1 : key = [gen |-> gen, n |-> first + i, o |-> IF i < s THEN "good" ELSE "bad"]
    BY <1>4
  <2>2. key.gen = gen /\ key.n = first + i /\ key.o \in {"good", "bad"} BY <2>1
  <2> QED BY <2>2, <1>2, <1>3 DEF Outcomes
<1>10. IsFiniteSet(new)
  <2>1. new = goods \union bads BY <1>5, <1>6, <1>9 DEF Outcomes
  <2> QED BY <2>1, <1>7, <1>8, FS_Union
<1>11. \A o \in Outcomes : Cardinality({key \in new : key.o = o}) = Growth(from, to, known, o)
  BY <1>5, <1>6, <1>7, <1>8 DEF Outcomes, s, f
<1> QED BY <1>9, <1>10, <1>11 DEF s, f

-----------------------------------------------------------------------------
(* One accounting *)

\* How many unseen prints of an outcome the accounting finds.
Finds(o) ==
  IF held = OtherFiles THEN Larger(tally[o] - settled[o], 0)
  ELSE IF ~WentDown THEN Larger(tally[o] - held[o] - since[o], 0)
  ELSE IF Total(since) = 0 THEN tally[o] ELSE 0

\* Its keys are of the generation it stores, above what that generation held and
\* at most what it holds now.
LEMMA AccountingFinds ==
  ASSUME CountTypes, KeyTypes, Keyed, held # NoTallies
  PROVE  LET new == KeysOf(Generation, Unseen) IN
         /\ Generation \in Nat /\ IsFiniteSet(new)
         /\ \A key \in new : /\ key.gen = Generation /\ key.n \in Nat /\ key.o \in Outcomes
                             /\ key.n <= Total(tally)
         /\ \A key \in new, k \in written : k.gen = Generation => k.n < key.n
         /\ \A k \in written : k.gen <= Generation /\ (k.gen = Generation => k.n <= Total(tally))
         /\ \A o \in Outcomes : Cardinality({key \in new : key.o = o}) = Finds(o)
<1> DEFINE new == KeysOf(Generation, Unseen)
<1>1. /\ tally \in Counts /\ since \in Counts /\ settled \in Counts /\ Zero \in Counts
      /\ tally.good \in Nat /\ tally.bad \in Nat
      /\ \A k \in written : k.gen \in Nat /\ k.n \in Nat
  BY DEF CountTypes, KeyTypes, Counts, Zero
<1>2. Zero.good = 0 /\ Zero.bad = 0 BY DEF Zero
<1>3. CASE held = OtherFiles
  <2>1. written = {} /\ Generation = 0 /\ Unseen = UnseenBetween(Zero, tally, settled)
    BY <1>3 DEF Keyed, Generation, Unseen
  <2>2. \A o \in Outcomes : Growth(Zero, tally, settled, o) = Finds(o)
    BY <1>1, <1>2, <1>3 DEF Growth, Finds, Outcomes, Counts
  <2> QED BY <2>1, <2>2, <1>1, <1>2, UnseenAre
<1>4. ASSUME held # OtherFiles
      PROVE  /\ held.good \in Nat /\ held.bad \in Nat /\ held.gen \in Nat /\ Generation \in Nat
             /\ Generation = IF WentDown THEN held.gen + 1 ELSE held.gen
             /\ \A k \in written : k.gen <= held.gen /\ (k.gen = held.gen => k.n <= held.good + held.bad)
  BY <1>4 DEF KeyTypes, Keyed, Generation, Total
<1>5. CASE held # OtherFiles /\ ~WentDown
  <2>1. Unseen = UnseenBetween(held, tally, since) /\ Generation = held.gen
    BY <1>4, <1>5 DEF Unseen
  <2>2. \A o \in Outcomes : Growth(held, tally, since, o) = Finds(o)
    BY <1>5 DEF Growth, Finds
  <2>3. /\ Growth(held, tally, since, "good") \in Nat /\ Growth(held, tally, since, "bad") \in Nat
        /\ Growth(held, tally, since, "good") <= tally.good - held.good
        /\ Growth(held, tally, since, "bad") <= tally.bad - held.bad
    BY <1>1, <1>4, <1>5 DEF Growth, Larger, Counts, WentDown
  <2>4. held.good + held.bad <= Total(tally) BY <1>1, <1>4, <1>5 DEF WentDown, Total
  <2> DEFINE s == Growth(held, tally, since, "good")
             f == Growth(held, tally, since, "bad")
  <2>5. /\ IsFiniteSet(new)
        /\ \A key \in new : /\ key.gen = Generation /\ key.n \in Nat /\ key.o \in Outcomes
                            /\ key.n <= Total(tally) /\ key.n > Total(tally) - s - f
        /\ \A o \in Outcomes : Cardinality({key \in new : key.o = o}) = Finds(o)
    BY <1>1, <1>4, <1>5, <2>1, <2>2, UnseenAre
  <2>6. held.good + held.bad <= Total(tally) - s - f BY <1>1, <1>4, <1>5, <2>3 DEF Total
  <2> HIDE DEF s, f, new
  <2>7. \A key \in new, k \in written : k.gen = Generation => k.n < key.n
    <3> SUFFICES ASSUME NEW key \in new, NEW k \in written, k.gen = Generation PROVE k.n < key.n OBVIOUS
    <3>1. k.n \in Nat /\ k.n <= held.good + held.bad BY <1>1, <1>4, <1>5, <2>1
    <3>2. key.n \in Nat /\ key.n > Total(tally) - s - f BY <2>5
    <3>3. s \in Nat /\ f \in Nat /\ Total(tally) \in Nat BY <1>1, <2>3 DEF s, f, Total
    <3> QED BY <3>1, <3>2, <3>3, <2>6, <1>4, <1>5
  <2>8. \A k \in written : k.gen <= Generation /\ (k.gen = Generation => k.n <= Total(tally))
    <3> SUFFICES ASSUME NEW k \in written
                 PROVE  k.gen <= Generation /\ (k.gen = Generation => k.n <= Total(tally))
      OBVIOUS
    <3>1. Total(tally) \in Nat BY <1>1 DEF Total
    <3> QED BY <3>1, <1>1, <1>4, <1>5, <2>1, <2>4
  <2> QED BY <1>4, <1>5, <2>5, <2>7, <2>8 DEF new
<1>6. CASE held # OtherFiles /\ WentDown
  <2>1. Generation = held.gen + 1 /\ \A k \in written : k.gen < Generation
    BY <1>1, <1>4, <1>6
  <2>2. CASE Total(since) = 0
    <3>1. Unseen = UnseenBetween(Zero, tally, Zero) BY <1>6, <2>2 DEF Unseen
    <3>2. \A o \in Outcomes : Growth(Zero, tally, Zero, o) = Finds(o)
      BY <1>1, <1>2, <1>6, <2>2 DEF Growth, Finds, Outcomes, Larger
    <3>3. /\ IsFiniteSet(new)
          /\ \A key \in new : /\ key.gen = Generation /\ key.n \in Nat /\ key.o \in Outcomes
                              /\ key.n <= Total(tally)
          /\ \A o \in Outcomes : Cardinality({key \in new : key.o = o}) = Finds(o)
      BY <1>1, <1>2, <1>4, <1>6, <3>1, <3>2, UnseenAre
    <3> HIDE DEF new
    <3>4. \A k \in written : k.gen # Generation /\ k.gen <= Generation BY <1>1, <1>4, <1>6, <2>1
    <3> QED BY <3>3, <3>4, <1>4, <1>6 DEF new
  <2>3. CASE Total(since) # 0
    <3>1. new = {} BY <1>6, <2>3 DEF Unseen, KeysOf
    <3>2. \A o \in Outcomes : Finds(o) = 0 BY <1>6, <2>3 DEF Finds
    <3>3. \A k \in written : k.gen # Generation /\ k.gen <= Generation BY <1>1, <1>4, <1>6, <2>1
    <3>4. \A o \in Outcomes : {key \in new : key.o = o} = {} BY <3>1
    <3> HIDE DEF new
    <3> QED BY <3>1, <3>2, <3>3, <3>4, <1>4, <1>6, FS_EmptySet DEF new
  <2> QED BY <2>2, <2>3
<1> QED BY <1>3, <1>5, <1>6

\* What is accounted is the keys written and the settlements.
LEMMA AccountedIs ==
  ASSUME CountTypes, KeyTypes, NEW o \in Outcomes
  PROVE  /\ IsFiniteSet(Found(o)) /\ Cardinality(Found(o)) \in Nat /\ settled[o] \in Nat
         /\ Accounted(o) = Cardinality(Found(o)) + settled[o] /\ Accounted(o) \in Nat
<1>1. IsFiniteSet(Found(o)) /\ Cardinality(Found(o)) \in Nat
  <2>1. Found(o) \in SUBSET written BY DEF Found
  <2> QED BY <2>1, FS_Subset, FS_CardinalityType DEF KeyTypes
<1>2. settled[o] \in Nat BY DEF CountTypes, Counts, Outcomes
<1> QED BY <1>1, <1>2 DEF Accounted, Found

\* What the accounting writes adds, of each outcome, what it finds.
LEMMA AccountingAdds ==
  ASSUME CountTypes, KeyTypes, Keyed, held # NoTallies,
         settled' = settled, written' = written \union KeysOf(Generation, Unseen)
  PROVE  /\ IsFiniteSet(written')
         /\ \A key \in written' : /\ key.gen \in Nat /\ key.n \in Nat /\ key.o \in Outcomes
                                  /\ key.gen <= Generation
                                  /\ key.gen = Generation => key.n <= Total(tally)
         /\ \A o \in Outcomes : Accounted(o)' = Accounted(o) + Finds(o)
<1> DEFINE new == KeysOf(Generation, Unseen)
<1>1. /\ Generation \in Nat /\ IsFiniteSet(new)
      /\ \A key \in new : /\ key.gen = Generation /\ key.n \in Nat /\ key.o \in Outcomes
                          /\ key.n <= Total(tally)
      /\ \A key \in new, k \in written : k.gen = Generation => k.n < key.n
      /\ \A k \in written : k.gen <= Generation /\ (k.gen = Generation => k.n <= Total(tally))
      /\ \A o \in Outcomes : Cardinality({key \in new : key.o = o}) = Finds(o)
  BY AccountingFinds
<1>2. /\ IsFiniteSet(written) /\ \A key \in written : key.gen \in Nat /\ key.n \in Nat /\ key.o \in Outcomes
  BY DEF KeyTypes
<1>3. written' = written \union new OBVIOUS
<1> HIDE DEF new
<1>4. IsFiniteSet(written') BY <1>1, <1>2, <1>3, FS_Union
<1>5. \A key \in written' : /\ key.gen \in Nat /\ key.n \in Nat /\ key.o \in Outcomes
                            /\ key.gen <= Generation
                            /\ key.gen = Generation => key.n <= Total(tally)
  BY <1>1, <1>2, <1>3
<1>6. ASSUME NEW o \in Outcomes PROVE Accounted(o)' = Accounted(o) + Finds(o)
  <2> DEFINE fresh == {key \in new : key.o = o}
  <2>1. IsFiniteSet(fresh) /\ Cardinality(fresh) = Finds(o) /\ Cardinality(fresh) \in Nat
    <3>1. fresh \in SUBSET new OBVIOUS
    <3>2. IsFiniteSet(fresh) BY <3>1, <1>1, FS_Subset
    <3> QED BY <3>2, <1>1, FS_CardinalityType
  <2>2. Found(o) \intersect fresh = {}
    <3> SUFFICES ASSUME NEW key \in Found(o), key \in fresh PROVE FALSE OBVIOUS
    <3>1. key \in written /\ key \in new /\ key.n \in Nat BY <1>2 DEF Found
    <3>2. key.n < key.n BY <3>1, <1>1
    <3> QED BY <3>1, <3>2
  <2>3. Found(o)' = Found(o) \union fresh BY <1>3 DEF Found
  <2>4. /\ IsFiniteSet(Found(o)) /\ Cardinality(Found(o)) \in Nat /\ settled[o] \in Nat
        /\ Accounted(o) = Cardinality(Found(o)) + settled[o]
    BY AccountedIs
  <2> HIDE DEF fresh
  <2>5. Cardinality(Found(o) \union fresh) = Cardinality(Found(o)) + Cardinality(fresh)
    <3> DEFINE before == Found(o)
    <3>1. IsFiniteSet(before) /\ before \intersect fresh = {} BY <2>2, <2>4
    <3> HIDE DEF before
    <3>2. Cardinality(before \union fresh)
            = Cardinality(before) + Cardinality(fresh) - Cardinality(before \intersect fresh)
      BY <2>1, <3>1, FS_Union
    <3>3. Cardinality(before \intersect fresh) = 0 BY <3>1, FS_EmptySet
    <3>4. Cardinality(before) \in Nat BY <2>4 DEF before
    <3>5. Cardinality(before \union fresh) = Cardinality(before) + Cardinality(fresh)
      BY <2>1, <3>2, <3>3, <3>4
    <3> QED BY <3>5 DEF before
  <2>6. Accounted(o)' = Cardinality(Found(o)') + settled[o] BY DEF Accounted, Found
  <2> QED BY <2>1, <2>3, <2>4, <2>5, <2>6
<1> QED BY <1>4, <1>5, <1>6

\* The first accounting of all stores what it finds, and counts from there.
LEMMA FirstAccounting ==
  ASSUME UnobservedIInv, AccountTallies, held = NoTallies
  PROVE  UnobservedIInv' /\ KeysAreNew /\ \A o \in Outcomes : Accounted(o)' = made'[o]
<1>1. /\ CountTypes /\ KeyTypes /\ Keyed /\ written = {} /\ tally \in Counts /\ Zero \in Counts
      /\ tally.good \in Nat /\ tally.bad \in Nat
  BY DEF UnobservedIInv, Keyed, CountTypes, Counts, Zero
<1>2. /\ held' \in IF Total(tally) = 0 THEN {NoTallies, OtherFiles}
                  ELSE {[good |-> tally.good, bad |-> tally.bad, gen |-> 0]}
      /\ made' = Zero /\ settled' = Zero /\ since' = Zero /\ written' = {} /\ phase' = "up"
      /\ UNCHANGED <<tally, watched, resets, starts, misread>> /\ phase = "accounting"
  BY <1>1 DEF AccountTallies
<1>3. \A o \in Outcomes : Accounted(o)' = 0 /\ Zero[o] = 0 /\ tally[o] \in Nat
  <2> SUFFICES ASSUME NEW o \in Outcomes PROVE Accounted(o)' = 0 /\ Zero[o] = 0 /\ tally[o] \in Nat OBVIOUS
  <2>1. Zero[o] = 0 /\ tally[o] \in Nat BY <1>1 DEF Outcomes, Zero
  <2>2. {key \in written : key.o = o}' = {} BY <1>2
  <2>3. Cardinality({key \in written : key.o = o}') = 0 BY <2>2, FS_EmptySet
  <2> QED BY <1>2, <2>1, <2>3 DEF Accounted
<1>4. KeysAreNew BY DEF KeysAreNew
<1>5. CountTypes' /\ (misread \in BOOLEAN /\ resets \in Nat)'
  BY <1>1, <1>2 DEF CountTypes, UnobservedIInv
<1>6. KeyTypes' /\ Keyed'
  <2>1. held' \in [good : Nat, bad : Nat, gen : Nat] \union {NoTallies, OtherFiles} BY <1>1, <1>2
  <2> QED BY <1>2, <2>1, FS_EmptySet DEF KeyTypes, Keyed
<1>7. JudgedRight'
  <2> SUFFICES ASSUME ~misread' PROVE JudgedRight' BY DEF JudgedRight
  <2>1. watched \notin Outcomes BY <1>2 DEF UnobservedIInv, JudgedRight
  <2>2. \A o \in Outcomes : OverAs(o)' = 0 BY <1>2, <2>1 DEF OverAs
  <2>3. Total(tally) = 0 => tally.good = 0 /\ tally.bad = 0 BY <1>1 DEF Total
  <2>4. held'.good = tally.good /\ held'.bad = tally.bad
    BY <1>1, <1>2, <2>3 DEF NoTallies, OtherFiles
  <2>5. \A o \in Outcomes : held'[o] = tally[o] BY <2>4 DEF Outcomes
  <2>6. ~WentDown' BY <1>1, <1>2, <2>4 DEF WentDown
  <2>7. \A o \in Outcomes : Once(o)' BY <1>2, <1>3, <2>2 DEF Once
  <2>8. \A o \in Outcomes : Window(o)' /\ NoneLost(o)'
    BY <1>2, <1>3, <2>2, <2>5, <2>6 DEF Window, NoneLost
  <2> QED BY <1>2, <2>7, <2>8 DEF JudgedRight
<1> QED BY <1>2, <1>3, <1>4, <1>5, <1>6, <1>7 DEF UnobservedIInv

\* A file with no tally has nothing to account, and nothing was lost if its tally
\* never went.
LEMMA NothingToAccount ==
  ASSUME UnobservedIInv, AccountTallies, held # NoTallies, Total(tally) = 0
  PROVE  /\ UnobservedIInv' /\ KeysAreNew
         /\ ~misread /\ resets = 0 => \A o \in Outcomes : Accounted(o)' = made'[o]
<1>1. /\ phase = "accounting" /\ phase' = "up"
      /\ UNCHANGED <<tally, made, watched, held, since, settled, written, resets, starts, misread>>
  BY DEF AccountTallies
<1>2. KeysAreNew BY DEF KeysAreNew
<1>3. /\ CountTypes' /\ KeyTypes' /\ Keyed' /\ misread' \in BOOLEAN /\ resets' \in Nat
      /\ CountTypes /\ KeyTypes /\ JudgedRight
  BY <1>1 DEF UnobservedIInv, CountTypes, KeyTypes, Keyed
<1>4. \A o \in Outcomes : Accounted(o)' = Accounted(o) BY <1>1 DEF Accounted
<1>5. JudgedRight'
  BY <1>1, <1>3, <1>4 DEF JudgedRight, Once, Window, NoneLost, OverAs, WentDown
<1>6. ASSUME ~misread, resets = 0, NEW o \in Outcomes PROVE Accounted(o)' = made'[o]
  <2>1. NoneLost(o) BY <1>3, <1>6 DEF JudgedRight
  <2>2. tally.good \in Nat /\ tally.bad \in Nat /\ since[o] \in Nat /\ made[o] \in Nat
    BY <1>3 DEF CountTypes, Counts, Outcomes
  <2>3. tally[o] = 0 BY <2>2 DEF Total, Outcomes
  <2>4. held[o] \in Nat BY <1>3 DEF KeyTypes, Outcomes, NoTallies, OtherFiles
  <2>5. Accounted(o) \in Nat /\ OverAs(o) \in Nat BY <1>3, AccountedIs DEF OverAs
  <2> QED BY <1>1, <1>4, <2>1, <2>2, <2>3, <2>4, <2>5 DEF NoneLost
<1> QED BY <1>2, <1>3, <1>5, <1>6 DEF UnobservedIInv

LEMMA LaterAccounting ==
  ASSUME UnobservedIInv, AccountTallies, held # NoTallies, Total(tally) # 0
  PROVE  /\ UnobservedIInv' /\ KeysAreNew
         /\ ~misread /\ resets = 0 => \A o \in Outcomes : Accounted(o)' = made'[o]
<1>1. /\ CountTypes /\ KeyTypes /\ Keyed /\ JudgedRight /\ misread \in BOOLEAN /\ resets \in Nat
      /\ tally.good \in Nat /\ tally.bad \in Nat
      /\ \A o \in Outcomes : tally[o] \in Nat /\ since[o] \in Nat /\ settled[o] \in Nat /\ made[o] \in Nat
  BY DEF UnobservedIInv, CountTypes, Counts, Outcomes
<1>2. /\ phase = "accounting" /\ phase' = "up"
      /\ held' = [good |-> tally.good, bad |-> tally.bad, gen |-> Generation]
      /\ written' = written \union KeysOf(Generation, Unseen)
      /\ since' = Zero
      /\ UNCHANGED <<settled, made, tally, watched, resets, starts, misread>>
  BY DEF AccountTallies, KeysOf
<1>3. /\ IsFiniteSet(written')
      /\ \A key \in written' : /\ key.gen \in Nat /\ key.n \in Nat /\ key.o \in Outcomes
                               /\ key.gen <= Generation
                               /\ key.gen = Generation => key.n <= Total(tally)
      /\ \A o \in Outcomes : Accounted(o)' = Accounted(o) + Finds(o)
  BY <1>1, <1>2, AccountingAdds
<1>4. Generation \in Nat BY <1>1, AccountingFinds
<1>5. KeysAreNew
  <2> SUFFICES ASSUME NEW u \in Unseen, NEW key \in written, key.gen = Generation, key.n = u.n PROVE FALSE
    BY DEF KeysAreNew
  <2> DEFINE k == [gen |-> Generation, n |-> u.n, o |-> u.o]
  <2>1. k \in KeysOf(Generation, Unseen) /\ k.n = u.n BY DEF KeysOf
  <2>2. key.n < k.n /\ k.n \in Nat BY <1>1, <2>1, AccountingFinds
  <2> QED BY <2>1, <2>2
<1>6. CountTypes' BY <1>1, <1>2 DEF CountTypes, Counts, Zero
<1>7. KeyTypes' BY <1>1, <1>2, <1>3, <1>4 DEF KeyTypes
<1>8. Keyed'
  <2>1. held' # OtherFiles /\ held' # NoTallies BY <1>2, <1>4 DEF NoTallies, OtherFiles
  <2>2. held'.gen = Generation /\ Total(held') = Total(tally) BY <1>2 DEF Total
  <2> QED BY <1>3, <2>1, <2>2 DEF Keyed
<1>9. \A o \in Outcomes : /\ since'[o] = 0 /\ held'[o] = tally[o] /\ Accounted(o) \in Nat
                         /\ (held[o] \in Nat) /\ (held = OtherFiles => held[o] = 0)
  <2> SUFFICES ASSUME NEW o \in Outcomes
               PROVE  /\ since'[o] = 0 /\ held'[o] = tally[o] /\ Accounted(o) \in Nat
                      /\ held[o] \in Nat /\ (held = OtherFiles => held[o] = 0)
    OBVIOUS
  <2>1. since'[o] = 0 /\ held'[o] = tally[o] BY <1>2 DEF Zero, Outcomes
  <2>2. held[o] \in Nat /\ (held = OtherFiles => held[o] = 0)
    BY <1>1 DEF KeyTypes, Outcomes, NoTallies, OtherFiles
  <2> QED BY <1>1, <2>1, <2>2, AccountedIs
<1>10. ~WentDown' BY <1>1, <1>2 DEF WentDown
<1>11. ASSUME ~misread, NEW o \in Outcomes
       PROVE  /\ Accounted(o) + Finds(o) <= made[o] /\ OverAs(o)' = 0
              /\ resets = 0 => Accounted(o) + Finds(o) = made[o]
  <2>1. Once(o) /\ Window(o) /\ watched \notin Outcomes /\ (resets = 0 => NoneLost(o))
    BY <1>1, <1>2, <1>11 DEF JudgedRight
  <2>2. OverAs(o) = 0 /\ OverAs(o)' = 0 BY <1>2, <2>1 DEF OverAs
  <2>3. /\ Accounted(o) <= made[o] /\ Accounted(o) - since[o] + tally[o] - held[o] <= made[o]
        /\ WentDown => Accounted(o) - since[o] + tally[o] <= made[o]
    BY <1>1, <1>9, <2>1, <2>2 DEF Once, Window
  <2>4. CASE held = OtherFiles
    <3>1. held[o] = 0 /\ since = settled /\ Finds(o) = Larger(tally[o] - settled[o], 0)
      BY <1>1, <1>9, <2>4 DEF Keyed, Finds
    <3>2. Accounted(o) + Finds(o) <= made[o] BY <3>1, <2>3, <1>1, <1>9 DEF Larger
    <3>3. ASSUME resets = 0 PROVE Accounted(o) + Finds(o) = made[o]
      BY <3>1, <3>3, <2>1, <2>2, <1>1, <1>9 DEF Larger, NoneLost
    <3> QED BY <2>2, <3>2, <3>3
  <2>5. CASE held # OtherFiles /\ ~WentDown
    <3>1. Finds(o) = Larger(tally[o] - held[o] - since[o], 0) BY <2>5 DEF Finds
    <3>2. Accounted(o) + Finds(o) <= made[o] BY <3>1, <2>3, <1>1, <1>9 DEF Larger
    <3>3. ASSUME resets = 0 PROVE Accounted(o) + Finds(o) = made[o]
      BY <3>1, <3>3, <2>1, <2>2, <1>1, <1>9 DEF Larger, NoneLost
    <3> QED BY <2>2, <3>2, <3>3
  <2>6. CASE held # OtherFiles /\ WentDown
    <3>1. Finds(o) = IF Total(since) = 0 THEN tally[o] ELSE 0 BY <2>6 DEF Finds
    <3>2. Total(since) = 0 => since[o] = 0 BY <1>1 DEF Total, Outcomes
    <3>3. Accounted(o) + Finds(o) <= made[o] BY <3>1, <3>2, <2>3, <2>6, <1>1, <1>9
    <3>4. resets # 0
      <4> SUFFICES ASSUME resets = 0 PROVE FALSE OBVIOUS
      <4>1. \A p \in Outcomes : NoneLost(p) BY <1>1, <1>11 DEF JudgedRight
      <4>2. \A p \in Outcomes : OverAs(p) = 0 BY <2>1 DEF OverAs
      <4>3. \A p \in Outcomes : tally[p] >= held[p] BY <4>1, <4>2, <1>1, <1>9 DEF NoneLost
      <4> QED BY <4>3, <2>6, <1>1, <1>9 DEF WentDown, Outcomes
    <3> QED BY <2>2, <3>3, <3>4
  <2> QED BY <2>4, <2>5, <2>6
<1>12. ASSUME ~misread, NEW o \in Outcomes PROVE Once(o)' /\ Window(o)' /\ (resets = 0 => NoneLost(o)')
  <2>1. /\ Accounted(o)' <= made[o] /\ OverAs(o)' = 0 /\ (resets = 0 => Accounted(o)' = made[o])
        /\ Accounted(o)' = Accounted(o) + Finds(o)
    BY <1>3, <1>11, <1>12
  <2>2. Finds(o) \in Nat BY <1>1, <1>9 DEF Finds, Larger
  <2>3. Accounted(o)' \in Nat BY <1>9, <2>1, <2>2
  <2> QED BY <1>1, <1>2, <1>9, <1>10, <2>1, <2>3 DEF Once, Window, NoneLost
<1>13. JudgedRight' BY <1>2, <1>12 DEF JudgedRight
<1>14. ~misread /\ resets = 0 => \A o \in Outcomes : Accounted(o)' = made'[o]
  BY <1>2, <1>3, <1>11
<1> QED BY <1>1, <1>2, <1>5, <1>6, <1>7, <1>8, <1>13, <1>14 DEF UnobservedIInv

-----------------------------------------------------------------------------
(* Every step *)

LEMMA UnobservedInitial == UnobservedInit => UnobservedIInv
<1> SUFFICES ASSUME UnobservedInit PROVE UnobservedIInv OBVIOUS
<1>1. /\ tally \in [good : 0 .. 1, bad : 0 .. 1] /\ made = Zero /\ since = Zero /\ settled = Zero
      /\ written = {} /\ resets = 0 /\ misread = FALSE /\ watched = "none" /\ phase = "down"
      /\ held = NoTallies \/ (held = OtherFiles /\ tally = Zero)
  BY DEF UnobservedInit
<1>2. CountTypes BY <1>1 DEF CountTypes, Counts, Zero
<1>3. KeyTypes /\ Keyed BY <1>1, FS_EmptySet DEF KeyTypes, Keyed
<1>4. \A o \in Outcomes : Accounted(o) = 0 /\ Zero[o] = 0
  <2> SUFFICES ASSUME NEW o \in Outcomes PROVE Accounted(o) = 0 /\ Zero[o] = 0 OBVIOUS
  <2>1. Zero[o] = 0 BY DEF Zero, Outcomes
  <2>2. {key \in written : key.o = o} = {} BY <1>1
  <2>3. Cardinality({key \in written : key.o = o}) = 0 BY <2>2, FS_EmptySet
  <2> QED BY <1>1, <2>1, <2>3 DEF Accounted
<1>5. \A o \in Outcomes : OverAs(o) = 0 /\ OtherFiles[o] = 0 BY <1>1 DEF OverAs, Outcomes, OtherFiles
<1>6. held = OtherFiles => ~WentDown BY <1>1 DEF WentDown, OtherFiles, Zero, NoTallies
<1>7. JudgedRight BY <1>1, <1>4, <1>5, <1>6 DEF JudgedRight, Once, Window, NoneLost
<1> QED BY <1>1, <1>2, <1>3, <1>7 DEF UnobservedIInv

\* What holds of an outcome's counts, before and after a step that leaves the keys
\* and the held tally alone.
LEMMA KeysStay ==
  ASSUME UnobservedIInv, CountTypes', UNCHANGED <<held, written>>,
         misread' \in BOOLEAN, resets' \in Nat,
         held = OtherFiles => since' = settled',
         JudgedRight'
  PROVE  UnobservedIInv'
  BY DEF UnobservedIInv, KeyTypes, Keyed

\* The counts are numbers, and a step that writes no key accounts what it settles.
LEMMA CountsAre ==
  ASSUME UnobservedIInv, NEW o \in Outcomes
  PROVE  /\ tally[o] \in Nat /\ made[o] \in Nat /\ since[o] \in Nat /\ settled[o] \in Nat /\ held[o] \in Nat
         /\ Accounted(o) \in Nat /\ OverAs(o) \in {0, 1}
         /\ written' = written /\ CountTypes' => Accounted(o)' = Accounted(o) - settled[o] + settled'[o]
<1>1. CountTypes /\ KeyTypes BY DEF UnobservedIInv
<1>2. tally[o] \in Nat /\ made[o] \in Nat /\ since[o] \in Nat /\ settled[o] \in Nat
  BY <1>1 DEF CountTypes, Counts, Outcomes
<1>3. held[o] \in Nat BY <1>1 DEF KeyTypes, Outcomes, NoTallies, OtherFiles
<1>4. Accounted(o) \in Nat /\ OverAs(o) \in {0, 1} BY <1>1, AccountedIs DEF OverAs
<1>5. ASSUME written' = written, CountTypes' PROVE Accounted(o)' = Accounted(o) - settled[o] + settled'[o]
  <2> DEFINE w == Cardinality({key \in written : key.o = o})
  <2>1. Accounted(o) = w + settled[o] /\ w \in Nat BY <1>1, AccountedIs DEF Accounted, Found
  <2>2. Accounted(o)' = w + settled'[o] BY <1>5 DEF Accounted
  <2>3. settled'[o] \in Nat BY <1>5 DEF CountTypes, Counts, Outcomes
  <2> HIDE DEF w
  <2> QED BY <2>1, <2>2, <2>3, <1>2
<1> QED BY <1>2, <1>3, <1>4, <1>5

\* A print made, watched or not, is one more in the tally and one more made.
LEMMA PrintMade ==
  ASSUME UnobservedIInv, NEW o \in Outcomes, PrintAlone(o) \/ WatchedStops(o)
  PROVE  UnobservedIInv'
<1>1. /\ tally \in Counts /\ made \in Counts /\ JudgedRight /\ misread \in BOOLEAN
      /\ CountTypes /\ KeyTypes /\ Keyed /\ resets \in Nat
  BY DEF UnobservedIInv, CountTypes
<1>2. /\ tally' = [tally EXCEPT ![o] = @ + 1] /\ made' = [made EXCEPT ![o] = @ + 1]
      /\ UNCHANGED <<phase, held, since, settled, written, resets>>
      /\ watched \notin Outcomes
      /\ \/ watched' = watched /\ misread' = misread /\ phase = "down"
         \/ watched' = o /\ misread' = (misread \/ phase = "accounting")
  BY DEF PrintAlone, WatchedStops, CountPrint, Outcomes
<1>3. /\ tally' \in Counts /\ made' \in Counts
      /\ \A p \in Outcomes : /\ tally'[p] = IF p = o THEN tally[p] + 1 ELSE tally[p]
                             /\ made'[p] = IF p = o THEN made[p] + 1 ELSE made[p]
  BY <1>1, <1>2, OneMore
<1>4. CountTypes' BY <1>1, <1>2, <1>3 DEF CountTypes
<1>5. \A p \in Outcomes : /\ OverAs(p) = 0 /\ OverAs(p)' \in {0, 1} /\ (p # o => OverAs(p)' = 0)
                         /\ OverAs(p)' <= IF p = o THEN 1 ELSE 0
  BY <1>2 DEF OverAs, Outcomes
<1>6. WentDown' => WentDown
  BY <1>1, <1>2, <1>3, CountsAre DEF WentDown, Outcomes
<1>7. ASSUME ~misread', NEW p \in Outcomes
      PROVE  /\ Once(p)' /\ (held # NoTallies => Window(p)')
             /\ held # NoTallies /\ resets = 0 => NoneLost(p)'
  <2>1. /\ Once(p) /\ (held # NoTallies => Window(p)) /\ (held # NoTallies /\ resets = 0 => NoneLost(p))
    BY <1>1, <1>2, <1>7 DEF JudgedRight
  <2>2. /\ tally[p] \in Nat /\ made[p] \in Nat /\ since[p] \in Nat /\ settled[p] \in Nat /\ held[p] \in Nat
        /\ Accounted(p) \in Nat /\ Accounted(p)' = Accounted(p)
    BY <1>2, <1>4, CountsAre
  <2>3. tally'[p] - tally[p] = made'[p] - made[p] /\ tally'[p] - tally[p] >= OverAs(p)' /\ tally'[p] >= tally[p]
        /\ tally'[p] \in Nat /\ made'[p] \in Nat /\ OverAs(p)' \in {0, 1} /\ OverAs(p) = 0
    BY <1>3, <1>5, <2>2
  <2>4. Once(p)' BY <2>1, <2>2, <2>3 DEF Once
  <2>5. ASSUME held # NoTallies PROVE Window(p)' BY <2>1, <2>2, <2>3, <2>5, <1>2, <1>6 DEF Window
  <2>6. ASSUME held # NoTallies, resets = 0 PROVE NoneLost(p)' BY <2>1, <2>2, <2>3, <2>6, <1>2 DEF NoneLost
  <2> QED BY <2>4, <2>5, <2>6
<1>8. ~misread' => (phase' = "accounting" => watched' \notin Outcomes)
  BY <1>1, <1>2
<1>9. JudgedRight' BY <1>2, <1>7, <1>8 DEF JudgedRight
<1> QED BY <1>1, <1>2, <1>4, <1>9, KeysStay DEF Keyed

\* A settlement takes the print that is over for one that is accounted.
LEMMA PrintSettled ==
  ASSUME UnobservedIInv, Settle, UNCHANGED <<tally, made, held, written, resets>>
  PROVE  UnobservedIInv'
<1>1. /\ since \in Counts /\ settled \in Counts /\ JudgedRight /\ misread \in BOOLEAN
      /\ CountTypes /\ KeyTypes /\ Keyed /\ resets \in Nat
  BY DEF UnobservedIInv, CountTypes
<1>2. PICK o \in Outcomes :
        /\ since' = [since EXCEPT ![o] = @ + 1] /\ settled' = [settled EXCEPT ![o] = @ + 1]
        /\ misread' = (misread \/ o # watched) /\ watched \in Outcomes /\ watched' = "none"
  BY DEF Settle
<1>3. /\ since' \in Counts /\ settled' \in Counts
      /\ \A p \in Outcomes : /\ since'[p] = IF p = o THEN since[p] + 1 ELSE since[p]
                             /\ settled'[p] = IF p = o THEN settled[p] + 1 ELSE settled[p]
  BY <1>1, <1>2, OneMore
<1>4. CountTypes' BY <1>1, <1>2, <1>3 DEF CountTypes
<1>5. ASSUME ~misread', NEW p \in Outcomes
      PROVE  /\ Once(p)' /\ (held # NoTallies => Window(p)')
             /\ held # NoTallies /\ resets = 0 => NoneLost(p)'
  <2>1. ~misread /\ watched = o BY <1>1, <1>2, <1>5
  <2>2. /\ Once(p) /\ (held # NoTallies => Window(p)) /\ (held # NoTallies /\ resets = 0 => NoneLost(p))
    BY <1>1, <2>1, <1>5 DEF JudgedRight
  <2>3. /\ tally[p] \in Nat /\ made[p] \in Nat /\ since[p] \in Nat /\ settled[p] \in Nat /\ held[p] \in Nat
        /\ Accounted(p) \in Nat /\ Accounted(p)' = Accounted(p) - settled[p] + settled'[p]
    BY <1>4, <1>5, CountsAre
  <2>4. OverAs(p)' = 0 /\ OverAs(p) = IF p = o THEN 1 ELSE 0 BY <1>2, <2>1 DEF OverAs, Outcomes
  <2>5. /\ Accounted(p)' = Accounted(p) + OverAs(p) /\ since'[p] = since[p] + OverAs(p)
        /\ OverAs(p) \in {0, 1}
    BY <1>3, <2>3, <2>4
  <2>6. WentDown' = WentDown BY DEF WentDown
  <2>7. Once(p)' BY <2>2, <2>3, <2>4, <2>5 DEF Once
  <2>8. ASSUME held # NoTallies PROVE Window(p)' BY <2>2, <2>3, <2>5, <2>6, <2>8 DEF Window
  <2>9. ASSUME held # NoTallies, resets = 0 PROVE NoneLost(p)' BY <2>2, <2>3, <2>4, <2>5, <2>9 DEF NoneLost
  <2> QED BY <2>7, <2>8, <2>9
<1>6. watched' \notin Outcomes /\ misread' \in BOOLEAN BY <1>1, <1>2 DEF Outcomes
<1>7. JudgedRight' BY <1>5, <1>6 DEF JudgedRight
<1>8. held = OtherFiles => since' = settled' BY <1>1, <1>2 DEF Keyed
<1> QED BY <1>1, <1>4, <1>6, <1>7, <1>8, KeysStay

\* A file replaced has a tally from zero: it went down, and what was accounted
\* was made.
LEMMA FileReplaced ==
  ASSUME UnobservedIInv, ReplaceFile PROVE UnobservedIInv'
<1>1. /\ JudgedRight /\ misread \in BOOLEAN /\ CountTypes /\ KeyTypes /\ Keyed /\ resets \in Nat
  BY DEF UnobservedIInv
<1>2. /\ tally' = Zero /\ resets' = resets + 1
      /\ UNCHANGED <<made, watched, phase, held, since, settled, written, misread>>
  BY DEF ReplaceFile
<1>3. CountTypes' BY <1>1, <1>2 DEF CountTypes, Counts, Zero
<1>4. resets' \in Nat /\ resets' # 0 BY <1>1, <1>2
<1>5. ASSUME ~misread', NEW p \in Outcomes PROVE Once(p)' /\ (held # NoTallies => Window(p)')
  <2>1. Once(p) /\ (held # NoTallies => Window(p)) BY <1>1, <1>2, <1>5 DEF JudgedRight
  <2>2. /\ tally[p] \in Nat /\ made[p] \in Nat /\ since[p] \in Nat /\ settled[p] \in Nat /\ held[p] \in Nat
        /\ Accounted(p) \in Nat /\ Accounted(p)' = Accounted(p) /\ OverAs(p) \in {0, 1}
    BY <1>2, <1>3, <1>5, CountsAre
  <2>3. tally'[p] = 0 /\ OverAs(p)' = OverAs(p) BY <1>2, <1>5 DEF Zero, Outcomes, OverAs
  <2>4. Once(p)' BY <1>2, <2>1, <2>2, <2>3 DEF Once
  <2>5. Accounted(p)' <= made[p] BY <2>1, <2>2 DEF Once
  <2>6. Window(p)' BY <1>2, <2>2, <2>3, <2>5 DEF Window
  <2> QED BY <2>4, <2>6
<1>6. JudgedRight' BY <1>1, <1>2, <1>4, <1>5 DEF JudgedRight
<1> QED BY <1>1, <1>2, <1>3, <1>4, <1>6, KeysStay DEF Keyed

\* An accounting keeps the invariant, writes only new keys, and misses nothing.
LEMMA AccountingKeeps ==
  ASSUME UnobservedIInv, AccountTallies
  PROVE  /\ UnobservedIInv' /\ KeysAreNew
         /\ ~misread /\ resets = 0 => \A o \in Outcomes : Accounted(o)' = made'[o]
  BY FirstAccounting, NothingToAccount, LaterAccounting

LEMMA UnobservedStep == UnobservedIInv /\ [UnobservedNext]_unobserved => UnobservedIInv'
<1> SUFFICES ASSUME UnobservedIInv, [UnobservedNext]_unobserved PROVE UnobservedIInv' OBVIOUS
<1>1. /\ JudgedRight /\ misread \in BOOLEAN /\ CountTypes /\ KeyTypes /\ Keyed /\ resets \in Nat
  BY DEF UnobservedIInv
<1>2. CASE \E o \in Outcomes : PrintAlone(o) \/ WatchedStops(o) BY <1>2, PrintMade
<1>3. CASE ReplaceFile BY <1>3, FileReplaced
<1>4. CASE SettleInPassing BY <1>4, PrintSettled DEF SettleInPassing
<1>5. CASE AccountTallies BY <1>5, AccountingKeeps
<1>6. CASE SettleAtStart
  <2>1. CASE Settle BY <1>6, <2>1, PrintSettled DEF SettleAtStart
  <2>2. CASE ~Settle
    <3>1. /\ UNCHANGED <<tally, made, held, written, resets, watched, since, settled>>
          /\ (misread' = misread /\ watched \notin Outcomes) \/ misread' = TRUE
      BY <1>6, <2>2 DEF SettleAtStart
    <3>2. CountTypes' /\ misread' \in BOOLEAN BY <1>1, <3>1 DEF CountTypes
    <3>3. JudgedRight'
      BY <1>1, <3>1 DEF JudgedRight, Once, Window, NoneLost, OverAs, WentDown, Accounted
    <3> QED BY <1>1, <3>1, <3>2, <3>3, KeysStay DEF Keyed
  <2> QED BY <2>1, <2>2
<1>7. CASE StartWatched \/ GoDown \/ StartUp \/ SkipAccounting \/ UNCHANGED unobserved
  <2>1. /\ UNCHANGED <<tally, made, held, since, settled, written, resets, misread>>
        /\ phase' = "accounting" => phase = "accounting"
        /\ watched' = watched \/ (watched = "none" /\ watched' = "running")
    BY <1>7 DEF StartWatched, GoDown, StartUp, SkipAccounting, unobserved
  <2>2. CountTypes' BY <1>1, <2>1 DEF CountTypes
  <2>3. \A o \in Outcomes : OverAs(o)' = OverAs(o) BY <2>1 DEF OverAs, Outcomes
  <2>4. watched' \in Outcomes => watched \in Outcomes BY <2>1 DEF Outcomes
  <2>5. \A o \in Outcomes : Accounted(o)' = Accounted(o) BY <2>1 DEF Accounted
  <2>6. JudgedRight'
    BY <1>1, <2>1, <2>3, <2>4, <2>5 DEF JudgedRight, Once, Window, NoneLost, WentDown
  <2> QED BY <1>1, <2>1, <2>2, <2>6, KeysStay DEF Keyed
<1> QED BY <1>2, <1>3, <1>4, <1>5, <1>6, <1>7 DEF UnobservedNext

\* What is accounted, still to be settled and still to be found was made: of each
\* outcome, and with a key of the tally's ordinals for each print found.
THEOREM UnobservedInvariance == UnobservedSpec => []UnobservedIInv
  BY UnobservedInitial, UnobservedStep, PTL DEF UnobservedSpec

\* No print of a file is accounted twice, by its settlement and by a start's
\* accounting or by two accountings (unobserved.rs: `unseen_between`, which takes
\* off what was settled in the window; `account_file`, which finds nothing in a
\* tally that went down with a print settled in its window), so long as no outcome was
\* misjudged and no read before the accounting failed.
THEOREM UnseenPrintsAreFoundOnce == UnobservedSpec => []NoPrintTwice
<1>1. UnobservedIInv => NoPrintTwice
  <2> SUFFICES ASSUME UnobservedIInv, ~misread, NEW o \in Outcomes PROVE Accounted(o) <= made[o]
    BY DEF NoPrintTwice
  <2>1. Once(o) BY DEF UnobservedIInv, JudgedRight
  <2> QED BY <2>1, CountsAre DEF Once
<1> QED BY UnobservedInvariance, <1>1, PTL

\* Every accounting writes its unseen prints under keys no accounting used before,
\* and with the file never replaced it leaves no print unaccounted (unobserved.rs:
\* the generation and the ordinal of each print are its key).
THEOREM UnseenPrintsAreAllFound == UnobservedSpec => NoPrintMissed
<1>1. UnobservedIInv /\ [UnobservedNext]_unobserved =>
        [AccountTallies => /\ KeysAreNew
                           /\ ~misread /\ resets = 0 => \A o \in Outcomes : Accounted(o)' = made'[o]]_unobserved
  BY AccountingKeeps
<1> QED BY UnobservedInvariance, <1>1, PTL DEF UnobservedSpec, NoPrintMissed
=============================================================================
