---------------------------- MODULE Server_proofs ----------------------------
(***************************************************************************)
(* What the server's tasks share, for every set of callers, prints, turns  *)
(* and runs, any number of posts and events, any depth of the channel and  *)
(* any size of an answer: that the lock excludes, loses no wakeup and      *)
(* implements the mutex; that no credential outlives its turn; that what   *)
(* the ingress answers as taken is written down once and in the order      *)
(* sent, no place of its channel is lost or given twice, and a body is     *)
(* counted when its turn is over; and that a watch of the event log prints *)
(* what it owes, once and in the order stored.                             *)
(***************************************************************************)
EXTENDS TurnLocks, TurnCredentials, Ingress, EventStream, FiniteSetTheorems, SequenceTheorems,
        WellFoundedInduction, TLAPS

-----------------------------------------------------------------------------
(* The lock of each print (TurnLocks) *)

LEMMA InitIInv == Init => IInv
  BY DEF Init, IInv, TypeOK, Where, MutualExclusion, HeldByItsHolder,
         WaitersHaveAHolder, NoLostWakeup, Holders

LEMMA StepIInv == IInv /\ [Next]_vars => IInv'
<1> SUFFICES ASSUME IInv, [Next]_vars PROVE IInv'
  OBVIOUS
<1> USE DEF IInv, TypeOK, Where, MutualExclusion, HeldByItsHolder,
            WaitersHaveAHolder, NoLostWakeup, Holders
<1>1. ASSUME NEW c \in Callers, NEW p \in Prints, Acquire(c, p) PROVE IInv'
  BY <1>1 DEF Acquire
<1>2. ASSUME NEW c \in Callers, NEW p \in Prints, TryAcquire(c, p) PROVE IInv'
  BY <1>2 DEF TryAcquire
<1>3. ASSUME NEW c \in Callers, PollReady(c) PROVE IInv'
  BY <1>3 DEF PollReady
<1>4. ASSUME NEW c \in Callers, PollPending(c) PROVE IInv'
  BY <1>4 DEF PollPending
<1>5. ASSUME NEW c \in Callers, Release(c) PROVE IInv'
  BY <1>5 DEF Release
<1>6. ASSUME NEW c \in Callers, NEW w \in Callers, Wake(c, w) PROVE IInv'
  BY <1>6 DEF Wake
<1>7. ASSUME NEW c \in Callers, Woke(c) PROVE IInv'
  BY <1>7 DEF Woke
<1>8. ASSUME NEW c \in Callers, Abandon(c) PROVE IInv'
  BY <1>8 DEF Abandon
<1>9. ASSUME NEW c \in Callers, Spurious(c) PROVE IInv'
  BY <1>9 DEF Spurious
<1>10. CASE UNCHANGED vars
  BY <1>10 DEF vars
<1> QED
  BY <1>1, <1>2, <1>3, <1>4, <1>5, <1>6, <1>7, <1>8, <1>9, <1>10 DEF Next
-----------------------------------------------------------------------------
\* The inductive invariant holds of every behaviour: types, mutual exclusion,
\* the agreement of the flag with the guards, and where a parked caller's
\* waker is (turn_lock.rs, `poll`, `try_acquire` and `release`).
THEOREM LocksInvariance == Spec => []IInv
<1>1. Init => IInv
  BY InitIInv
<1>2. IInv /\ [Next]_vars => IInv'
  BY StepIInv
<1> QED
  BY <1>1, <1>2, PTL DEF Spec

\* One supervision turn per print at a time, however many tasks want one
\* (turn_lock.rs 1-5).
THEOREM OneTurnPerPrint == Spec => []MutualExclusion
<1>1. IInv => MutualExclusion
  BY DEF IInv
<1> QED
  BY <1>1, LocksInvariance, PTL

\* A caller left waiting by `poll` is always one some release will wake or is
\* waking (turn_lock.rs 71-81 and 96-107).
THEOREM WakeupsAreKept == Spec => []NoLostWakeup
<1>1. IInv => NoLostWakeup
  BY DEF IInv
<1> QED
  BY <1>1, LocksInvariance, PTL

-----------------------------------------------------------------------------
\* A caller that holds no turn and comes to hold a free one has taken it.
LEMMA TakesTheTurn ==
  ASSUME IInv, NEW c \in Callers, NEW p \in Prints,
         pc[c] # "holding", ~held[p],
         pc' = [pc EXCEPT ![c] = "holding"], about' = [about EXCEPT ![c] = p]
  PROVE  Abstract!Take(c, p)
<1> USE DEF IInv, TypeOK, Where, Holders
<1>1. Holders(p) = {}
  BY DEF HeldByItsHolder
<1>2. ASSUME NEW q \in Prints
      PROVE  Holders(q)' = IF q = p THEN {c} ELSE Holders(q)
  BY <1>1
<1>3. [q \in Prints |-> Holders(q)']
        = [[q \in Prints |-> Holders(q)] EXCEPT ![p] = {c}]
  BY <1>2, Zenon
<1> QED
  BY <1>1, <1>3 DEF Abstract!Take

\* A holder that stops holding has given its turn up.
LEMMA GivesTheTurnUp ==
  ASSUME IInv, NEW c \in Callers, pc[c] = "holding",
         pc' = [pc EXCEPT ![c] = "waking"], about' = about
  PROVE  Abstract!Give(c, about[c])
<1> USE DEF IInv, TypeOK, Where, Holders
<1>1. Holders(about[c]) = {c}
  BY DEF MutualExclusion
<1>2. ASSUME NEW q \in Prints
      PROVE  Holders(q)' = IF q = about[c] THEN {} ELSE Holders(q)
  BY <1>1
<1>3. [q \in Prints |-> Holders(q)']
        = [[q \in Prints |-> Holders(q)] EXCEPT ![about[c]] = {}]
  BY <1>2, Zenon
<1> QED
  BY <1>1, <1>3 DEF Abstract!Give

\* A caller that moves between states in which it holds nothing changes no
\* turn's owner.
LEMMA KeepsTheOwners ==
  ASSUME IInv, NEW c \in Callers, pc[c] # "holding",
         NEW to \in Where, to # "holding", pc' = [pc EXCEPT ![c] = to],
         \/ about' = about
         \/ \E p \in Prints : about' = [about EXCEPT ![c] = p]
  PROVE  [p \in Prints |-> Holders(p)]' = [p \in Prints |-> Holders(p)]
<1> USE DEF IInv, TypeOK, Holders
<1>1. ASSUME NEW q \in Prints PROVE Holders(q)' = Holders(q)
  OBVIOUS
<1> QED
  BY <1>1, Zenon

\* A step of the lock is a step of the mutex or leaves every turn's owner as
\* it was: only `poll` and `try_acquire` of a free queue take it, and only the
\* drop of a guard gives it up.
LEMMA StepImplementsMutex ==
  IInv /\ [Next]_vars => [Abstract!Next]_([p \in Prints |-> Holders(p)])
<1> SUFFICES ASSUME IInv, [Next]_vars
             PROVE  \/ Abstract!Next
                    \/ [p \in Prints |-> Holders(p)]' = [p \in Prints |-> Holders(p)]
  OBVIOUS
<1> USE DEF IInv, TypeOK
<1>1. ASSUME NEW c \in Callers, NEW p \in Prints, Acquire(c, p)
      PROVE  [q \in Prints |-> Holders(q)]' = [q \in Prints |-> Holders(q)]
  BY <1>1, KeepsTheOwners DEF Acquire, Where
<1>2. ASSUME NEW c \in Callers, NEW p \in Prints, TryAcquire(c, p)
      PROVE  Abstract!Take(c, p)
  BY <1>2, TakesTheTurn DEF TryAcquire
<1>3. ASSUME NEW c \in Callers, PollReady(c)
      PROVE  Abstract!Take(c, about[c])
  <2>1. about' = [about EXCEPT ![c] = about[c]]
    BY <1>3 DEF PollReady
  <2> QED
    BY <1>3, <2>1, TakesTheTurn DEF PollReady
<1>4. ASSUME NEW c \in Callers, PollPending(c)
      PROVE  [q \in Prints |-> Holders(q)]' = [q \in Prints |-> Holders(q)]
  BY <1>4, KeepsTheOwners DEF PollPending, Where
<1>5. ASSUME NEW c \in Callers, Release(c)
      PROVE  Abstract!Give(c, about[c])
  BY <1>5, GivesTheTurnUp DEF Release
<1>6. ASSUME NEW c \in Callers, NEW w \in Callers, Wake(c, w)
      PROVE  [q \in Prints |-> Holders(q)]' = [q \in Prints |-> Holders(q)]
  <2>1. CASE pc[w] = "parked"
    BY <1>6, <2>1, KeepsTheOwners DEF Wake, Where
  <2>2. CASE pc[w] # "parked"
    BY <1>6, <2>2 DEF Wake, Holders
  <2> QED
    BY <2>1, <2>2
<1>7. ASSUME NEW c \in Callers, Woke(c) \/ Abandon(c) \/ Spurious(c)
      PROVE  [q \in Prints |-> Holders(q)]' = [q \in Prints |-> Holders(q)]
  BY <1>7, KeepsTheOwners DEF Woke, Abandon, Spurious, Where
<1>8. CASE UNCHANGED vars
  BY <1>8 DEF vars, Holders
<1> QED
  BY <1>1, <1>2, <1>3, <1>4, <1>5, <1>6, <1>7, <1>8 DEF Next, Abstract!Next

\* The lock implements the mutex the rest of the supervisor relies on
\* (turn_lock.rs 37-129).
THEOREM LockRefinesMutex == Spec => ImplementsMutex
<1>1. Init => Abstract!Init
  BY DEF Init, Abstract!Init, Holders
<1>2. IInv /\ [Next]_vars => [Abstract!Next]_([p \in Prints |-> Holders(p)])
  BY StepImplementsMutex
<1> QED
  BY <1>1, <1>2, LocksInvariance, PTL DEF Spec, ImplementsMutex, Abstract!Spec

-----------------------------------------------------------------------------
(* The credential of each turn (TurnCredentials) *)

\* Nothing is live as the server starts.
LEMMA InitCredentialsInv == CredentialsInit => CredentialsInv
BY CredentialsConstants DEF CredentialsInit, Supervised, CredentialsInv, CredentialsTypeOK

\* Every step keeps the hold of the mutex and the order of the close-down.
LEMMA StepCredentialsInv == CredentialsInv /\ [CredentialsNext]_credentials => CredentialsInv'
<1> SUFFICES ASSUME CredentialsInv, [CredentialsNext]_credentials PROVE CredentialsInv'
  OBVIOUS
<1> USE CredentialsConstants DEF Supervised, CredentialsInv, CredentialsTypeOK
<1>1. ASSUME NEW s \in Scopes, Open(s) PROVE CredentialsInv'
  BY <1>1 DEF Open
<1>2. ASSUME NEW s \in Scopes, Close(s) PROVE CredentialsInv'
  BY <1>2 DEF Close
<1>3. ASSUME NEW s \in Scopes, Revoke(s) PROVE CredentialsInv'
  BY <1>3 DEF Revoke, Of
<1>4. ASSUME NEW s \in Scopes, Return(s) PROVE CredentialsInv'
  BY <1>4 DEF Return
<1>5. ASSUME NEW r \in Runs, Draw(r) PROVE CredentialsInv'
  BY <1>5 DEF Draw
<1>6. ASSUME NEW r \in Runs, Check(r) PROVE CredentialsInv'
  BY <1>6 DEF Check
<1>7. ASSUME NEW r \in Runs, Insert(r) PROVE CredentialsInv'
  BY <1>7 DEF Insert, Of
<1>8. CASE UNCHANGED credentials
  BY <1>8 DEF credentials
<1> QED
  BY <1>1, <1>2, <1>3, <1>4, <1>5, <1>6, <1>7, <1>8 DEF CredentialsNext

\* Every reachable state satisfies the inductive invariant.
THEOREM CredentialsInvariance == CredentialsSpec => []CredentialsInv
BY InitCredentialsInv, StepCredentialsInv, PTL DEF CredentialsSpec

\* turns.rs 205-206: a credential is live only while its turn has its print.
THEOREM CredentialsDieWithTheirTurn == CredentialsSpec => []NothingOutlivesItsTurn
<1>1. CredentialsInv => NothingOutlivesItsTurn
  BY CredentialsConstants DEF Supervised, CredentialsInv, CredentialsTypeOK, NothingOutlivesItsTurn
<1> QED
  BY <1>1, CredentialsInvariance, PTL

\* turns.rs 3-13: at most one credential is live for a print, since the turns
\* of one print exclude one another and a scope replaces what it issued.
THEOREM OneForEachPrint == CredentialsSpec => []OneCredentialPerPrint
<1>1. CredentialsInv => OneCredentialPerPrint
  BY CredentialsConstants DEF CredentialsInv, CredentialsTypeOK, OneCredentialPerPrint
<1> QED
  BY <1>1, CredentialsInvariance, PTL

-----------------------------------------------------------------------------
(* The ingress (Ingress) *)

IngressSpec == IngressInit /\ [][IngressNext]_ingress

USE IngressConstants DEF Posts, NoPost

AnswerKinds == {"none", "taken", "refused", "unauthorized", "gone"}
Types ==
  /\ arrived \in Nat /\ answer \in [Posts -> AnswerKinds]
  /\ senders \in Seq(Posts) /\ admitted \subseteq Posts /\ recording \subseteq Posts
  /\ room \in Nat /\ bodies \in Seq(Posts) /\ worker \in Posts \union {NoPost}
  /\ turns \subseteq Posts /\ completed \in Nat
  /\ sent \in Seq(Posts) /\ written \in Seq(Posts)

\* A post that is not answered is in one place, if it came at all; a body is sent once.
OnePlaceEach ==
  /\ \A i \in DOMAIN senders : /\ senders[i] <= arrived /\ answer[senders[i]] = "none"
                               /\ senders[i] \notin admitted \union recording
  /\ \A i, j \in DOMAIN senders : senders[i] = senders[j] => i = j
  /\ \A p \in admitted \union recording : p <= arrived /\ answer[p] = "none"
  /\ admitted \intersect recording = {}
  /\ \A p \in Posts : p > arrived => answer[p] = "none"

SentOnce == \A i, j \in DOMAIN sent : sent[i] = sent[j] => i = j
TurnsAreWritten == \A p \in turns : \E i \in DOMAIN written : written[i] = p

IngressIInv == Types /\ OnePlaceEach /\ SentOnce /\ TurnsAreWritten /\ IngressInv

\* Posts are finitely many, and so are those in any place.
LEMMA FinitelyMany ==
  ASSUME NEW S, S \subseteq Posts PROVE IsFiniteSet(S) /\ Cardinality(S) \in Nat
<1>1. IsFiniteSet(1 .. MaxPosts) BY FS_Interval
<1>2. IsFiniteSet(S) BY <1>1, FS_Subset
<1> QED BY <1>2, FS_CardinalityType

LEMMA IngressInitial == IngressInit => IngressIInv
<1> SUFFICES ASSUME IngressInit PROVE IngressIInv OBVIOUS
<1> USE DEF IngressInit
<1>1. Types BY DEF Types, AnswerKinds
<1>2. OnePlaceEach /\ SentOnce /\ TurnsAreWritten BY DEF OnePlaceEach, SentOnce, TurnsAreWritten
<1>3. WrittenAsSent BY DEF WrittenAsSent, InHand
<1>4. PlacesAreKept /\ CountedWhenFinished BY FS_EmptySet DEF PlacesAreKept, CountedWhenFinished
<1> QED BY <1>1, <1>2, <1>3, <1>4 DEF IngressIInv, IngressInv

\* One post leaves the senders, who keep their order.
LEMMA LeavingKeeps ==
  ASSUME Types, OnePlaceEach, NEW p \in Posts, Leaves(p)
  PROVE  /\ senders # <<>> /\ p <= arrived /\ answer[p] = "none" /\ p \notin admitted \union recording
         /\ senders' \in Seq(Posts)
         /\ \A i \in DOMAIN senders' : \E k \in DOMAIN senders : senders'[i] = senders[k] /\ senders[k] # p
         /\ \A i, j \in DOMAIN senders' : senders'[i] = senders'[j] => i = j
<1>1. PICK i \in DOMAIN senders :
        /\ senders[i] = p
        /\ senders' = SubSeq(senders, 1, i - 1) \o SubSeq(senders, i + 1, Len(senders))
  BY DEF Leaves
<1>2. i \in 1 .. Len(senders) /\ Len(senders) \in Nat BY DEF Types
<1>3. /\ senders' \in Seq(Posts) /\ Len(senders') = Len(senders) - 1
      /\ \A k \in 1 .. Len(senders') : senders'[k] = senders[IF k < i THEN k ELSE k + 1]
  <2> DEFINE before == SubSeq(senders, 1, i - 1)
             behind == SubSeq(senders, i + 1, Len(senders))
  <2>1. \A k \in 1 .. Len(senders) : senders[k] \in Posts BY <1>2, ElementOfSeq DEF Types
  <2>2. /\ before \in Seq(Posts) /\ Len(before) = i - 1
        /\ \A k \in 1 .. i - 1 : before[k] = senders[k]
    BY <1>2, <2>1, SubSeqProperties
  <2>3. /\ behind \in Seq(Posts) /\ Len(behind) = Len(senders) - i
        /\ \A k \in 1 .. Len(senders) - i : behind[k] = senders[k + i]
    BY SMTT(30), <1>2, <2>1, SubSeqProperties
  <2>4. senders' = before \o behind BY <1>1
  <2> HIDE DEF before, behind
  <2>5. /\ before \o behind \in Seq(Posts) /\ Len(before \o behind) = Len(before) + Len(behind)
        /\ \A k \in 1 .. Len(before) + Len(behind) :
             (before \o behind)[k] = IF k <= Len(before) THEN before[k] ELSE behind[k - Len(before)]
    BY <2>2, <2>3, ConcatProperties
  <2>6. senders' \in Seq(Posts) /\ Len(senders') = Len(senders) - 1
    BY <1>2, <2>2, <2>3, <2>4, <2>5
  <2>7. ASSUME NEW k \in 1 .. Len(senders')
        PROVE  senders'[k] = senders[IF k < i THEN k ELSE k + 1]
    <3>1. CASE k < i BY <1>2, <2>2, <2>3, <2>4, <2>5, <2>6, <3>1
    <3>2. CASE k >= i
      <4>1. k - (i - 1) \in 1 .. Len(senders) - i BY <1>2, <2>6, <3>2
      <4>2. behind[k - (i - 1)] = senders[k - (i - 1) + i] BY <2>3, <4>1
      <4>3. senders'[k] = behind[k - (i - 1)] BY <1>2, <2>2, <2>3, <2>4, <2>5, <2>6, <3>2
      <4> QED BY SMTT(30), <1>2, <2>6, <3>2, <4>2, <4>3
    <3> QED BY <1>2, <2>6, <3>1, <3>2
  <2> QED BY <2>6, <2>7
<1>4. senders # <<>> BY <1>2
<1>5. p <= arrived /\ answer[p] = "none" /\ p \notin admitted \union recording
  BY <1>1 DEF OnePlaceEach
<1>6. ASSUME NEW k \in DOMAIN senders'
      PROVE  /\ (IF k < i THEN k ELSE k + 1) \in DOMAIN senders
             /\ (IF k < i THEN k ELSE k + 1) # i
             /\ senders'[k] = senders[IF k < i THEN k ELSE k + 1]
  <2>1. k \in 1 .. Len(senders) - 1 BY <1>3
  <2>2. DOMAIN senders = 1 .. Len(senders) BY DEF Types
  <2>3. senders'[k] = senders[IF k < i THEN k ELSE k + 1] BY <1>2, <1>3, <2>1
  <2>4. CASE k < i BY <1>2, <2>1, <2>2, <2>3, <2>4
  <2>5. CASE k >= i
    <3>1. ~(k < i) /\ k + 1 \in 1 .. Len(senders) /\ k + 1 # i BY <1>2, <2>1, <2>5
    <3> QED BY <2>2, <2>3, <3>1
  <2> QED BY <1>2, <2>1, <2>4, <2>5
<1>7. \A k \in DOMAIN senders' : \E l \in DOMAIN senders : senders'[k] = senders[l] /\ senders[l] # p
  BY <1>1, <1>6 DEF OnePlaceEach
<1>8. \A k, l \in DOMAIN senders' : senders'[k] = senders'[l] => k = l
  <2>1. DOMAIN senders' \subseteq Nat BY <1>3
  <2> QED BY <1>2, <1>6, <2>1 DEF OnePlaceEach
<1> QED BY <1>3, <1>4, <1>5, <1>7, <1>8

\* A place let go is taken by the first that waits, or is free.
LEMMA PlaceLetGo ==
  ASSUME Types, OnePlaceEach, NEW others, others \subseteq admitted, LetPlaceGo(others)
  PROVE  /\ senders' \in Seq(Posts) /\ admitted' \subseteq Posts /\ room' \in Nat
         /\ room' + Cardinality(admitted') = room + Cardinality(others) + 1
         /\ senders' # <<>> => senders # <<>> /\ room' = room
         /\ \A i \in DOMAIN senders' :
              \E k \in DOMAIN senders : senders'[i] = senders[k] /\ senders[k] \notin admitted'
         /\ \A i, j \in DOMAIN senders' : senders'[i] = senders'[j] => i = j
         /\ \A p \in admitted' : p \in others \/ \E k \in DOMAIN senders : p = senders[k]
<1>0. others \subseteq Posts /\ room \in Nat /\ senders \in Seq(Posts) BY DEF Types
<1>1. CASE /\ senders # <<>> /\ senders' = Tail(senders)
           /\ admitted' = others \union {Head(senders)} /\ room' = room
  <2>1. Head(senders) = senders[1] /\ 1 \in DOMAIN senders /\ Head(senders) \in Posts
    BY <1>0, <1>1
  <2>2. /\ Tail(senders) \in Seq(Posts) /\ DOMAIN Tail(senders) \subseteq Nat
        /\ \A i \in DOMAIN Tail(senders) : i + 1 \in DOMAIN senders /\ Tail(senders)[i] = senders[i + 1]
    BY <1>0, <1>1
  <2>3. Head(senders) \notin others BY <2>1 DEF OnePlaceEach
  <2>4. Cardinality(admitted') = Cardinality(others) + 1 /\ Cardinality(others) \in Nat
    BY <1>0, <1>1, <2>3, FinitelyMany, FS_AddElement
  <2>5. \A i \in DOMAIN senders' :
          \E k \in DOMAIN senders : senders'[i] = senders[k] /\ senders[k] \notin admitted'
    <3> TAKE i \in DOMAIN senders'
    <3>1. i + 1 \in DOMAIN senders /\ senders'[i] = senders[i + 1] /\ i \in Nat
          /\ i \in DOMAIN Tail(senders)
      BY <1>1, <2>2
    <3>2. DOMAIN senders = 1 .. Len(senders) /\ Len(senders) \in Nat BY <1>0
    <3>3. i + 1 # 1
      <4>1. DOMAIN Tail(senders) = 1 .. Len(senders) - 1 BY <1>0, <1>1
      <4> QED BY <3>1, <3>2, <4>1
    <3>4. senders[i + 1] # senders[1] BY <2>1, <3>1, <3>3 DEF OnePlaceEach
    <3>5. senders[i + 1] \notin others BY <3>1 DEF OnePlaceEach
    <3> QED BY <1>1, <2>1, <3>1, <3>4, <3>5
  <2>6. \A i, j \in DOMAIN senders' : senders'[i] = senders'[j] => i = j
    <3> TAKE i, j \in DOMAIN senders'
    <3>1. i + 1 \in DOMAIN senders /\ senders'[i] = senders[i + 1] /\ i \in Nat BY <1>1, <2>2
    <3>2. j + 1 \in DOMAIN senders /\ senders'[j] = senders[j + 1] /\ j \in Nat BY <1>1, <2>2
    <3>3. senders[i + 1] = senders[j + 1] => i + 1 = j + 1 BY <3>1, <3>2 DEF OnePlaceEach
    <3>4. i + 1 = j + 1 => i = j BY <3>1, <3>2
    <3> QED BY <3>1, <3>2, <3>3, <3>4
  <2>7. senders' \in Seq(Posts) /\ admitted' \subseteq Posts /\ room' \in Nat BY <1>0, <1>1, <2>1, <2>2
  <2>8. \A p \in admitted' : p \in others \/ \E k \in DOMAIN senders : p = senders[k] BY <1>1, <2>1
  <2> QED BY <1>0, <1>1, <2>4, <2>5, <2>6, <2>7, <2>8
<1>2. CASE senders = <<>> /\ admitted' = others /\ room' = room + 1 /\ senders' = senders
  <2>1. Cardinality(others) \in Nat BY <1>0, FinitelyMany
  <2>2. DOMAIN senders' = {} BY <1>2
  <2> QED BY <1>0, <1>2, <2>1, <2>2
<1> QED BY <1>1, <1>2 DEF LetPlaceGo

-----------------------------------------------------------------------------
(* One step *)

\* A post is in one place, or answered, whatever a step does.
LEMMA OnePlaceKept == IngressIInv /\ [IngressNext]_ingress => Types' /\ OnePlaceEach'
<1> SUFFICES ASSUME IngressIInv, [IngressNext]_ingress PROVE Types' /\ OnePlaceEach'
  OBVIOUS
<1>0. Types /\ OnePlaceEach BY DEF IngressIInv
<1> USE DEF Types
<1>w. \A k \in DOMAIN senders : senders[k] \in Posts BY <1>0
<1>f. /\ \A q \in admitted : q <= arrived /\ answer[q] = "none" /\ q \notin recording
      /\ \A k \in DOMAIN senders : /\ senders[k] <= arrived /\ answer[senders[k]] = "none"
                                   /\ senders[k] \notin recording /\ senders[k] \notin admitted
  BY <1>0 DEF OnePlaceEach
<1>1. ASSUME NEW p \in Posts, WithSecret(p) PROVE Types' /\ OnePlaceEach'
  <2>1. /\ p = arrived + 1 /\ arrived' = p /\ answer[p] = "none" /\ answer' = answer
        /\ recording' = recording
    BY <1>0, <1>1 DEF WithSecret, Arrives, OnePlaceEach
  <2>2. \A i \in DOMAIN senders : senders[i] # p BY <1>0, <2>1 DEF OnePlaceEach
  <2>3. p \notin admitted \union recording BY <1>0, <2>1 DEF OnePlaceEach
  <2>4. CASE room > 0 /\ room' = room - 1 /\ admitted' = admitted \union {p} /\ senders' = senders
    <3>1. Types' BY <1>0, <1>1, <2>1, <2>4 DEF WithSecret, handling
    <3> QED BY <1>0, <2>1, <2>2, <2>3, <2>4, <3>1 DEF OnePlaceEach
  <2>5. CASE room' = room /\ admitted' = admitted /\ senders' = Append(senders, p)
    <3>1. Types' BY <1>0, <1>1, <2>1, <2>5 DEF WithSecret, handling
    <3>2. /\ DOMAIN senders' = DOMAIN senders \union {Len(senders) + 1}
          /\ \A i \in DOMAIN senders : senders'[i] = senders[i]
          /\ senders'[Len(senders) + 1] = p
      BY <1>0, <2>5
    <3>3. \A i \in DOMAIN senders' : /\ senders'[i] <= arrived' /\ answer'[senders'[i]] = "none"
                                     /\ senders'[i] \notin admitted' \union recording'
      BY <1>0, <2>1, <2>3, <2>5, <3>2 DEF OnePlaceEach
    <3>4. \A i, j \in DOMAIN senders' : senders'[i] = senders'[j] => i = j
      BY <1>0, <2>2, <3>2 DEF OnePlaceEach
    <3>5. \A q \in admitted \union recording : q <= arrived' /\ answer[q] = "none"
      BY <1>0, <2>1 DEF OnePlaceEach
    <3>6. admitted \intersect recording = {} /\ \A q \in Posts : q > p => answer[q] = "none"
      BY <1>0, <2>1 DEF OnePlaceEach
    <3> QED BY <2>1, <2>5, <3>1, <3>3, <3>4, <3>5, <3>6 DEF OnePlaceEach
  <2> QED BY <1>1, <2>4, <2>5 DEF WithSecret
<1>2. ASSUME NEW p \in Posts, WithoutSecret(p) PROVE Types' /\ OnePlaceEach'
  <2>1. Types' BY <1>0, <1>2 DEF WithoutSecret, Arrives, handling
  <2> QED BY <1>0, <1>2, <2>1 DEF WithoutSecret, Arrives, OnePlaceEach
<1>3. ASSUME NEW p \in Posts, Sends(p) PROVE Types' /\ OnePlaceEach'
  <2>1. Types' BY <1>0, <1>3 DEF Sends, Answers, AnswerKinds, handling
  <2>2. /\ arrived' = arrived /\ senders' = senders /\ recording' = recording
        /\ p \in admitted /\ admitted' = admitted \ {p} /\ answer' = [answer EXCEPT ![p] = "taken"]
    BY <1>3 DEF Sends, Answers
  <2>3. /\ p <= arrived /\ p \notin recording
        /\ \A i \in DOMAIN senders : senders[i] \in Posts /\ senders[i] # p
    BY <1>0, <2>2 DEF OnePlaceEach
  <2>4. \A q \in Posts : q # p => answer'[q] = answer[q] BY <1>0, <2>2
  <2>5. \A i \in DOMAIN senders : /\ senders[i] <= arrived /\ answer'[senders[i]] = "none"
                                  /\ senders[i] \notin admitted' \union recording
    BY <1>0, <2>2, <2>3, <2>4 DEF OnePlaceEach
  <2>6. \A q \in admitted' \union recording : q <= arrived /\ answer'[q] = "none"
    BY <1>0, <2>2, <2>3, <2>4 DEF OnePlaceEach
  <2>7. \A q \in Posts : q > arrived => answer'[q] = "none"
    BY <1>0, <2>2, <2>3, <2>4 DEF OnePlaceEach
  <2> QED BY <1>0, <2>1, <2>2, <2>5, <2>6, <2>7 DEF OnePlaceEach
<1>4. ASSUME NEW p \in Posts, NEW how \in AnswerKinds, Leaves(p), Answers(p, how),
             UNCHANGED <<arrived, admitted, recording, room, bodies, handling, serving, sent>>
      PROVE  Types' /\ OnePlaceEach'
  <2>1. Types' BY <1>0, <1>4, LeavingKeeps DEF Answers, handling
  <2>2. /\ arrived' = arrived /\ admitted' = admitted /\ recording' = recording
        /\ p <= arrived /\ p \notin admitted \union recording
        /\ answer' = [answer EXCEPT ![p] = how]
    BY <1>0, <1>4, LeavingKeeps DEF Answers
  <2>3. \A q \in Posts : q # p => answer'[q] = answer[q] BY <1>0, <2>2
  <2>4. \A i \in DOMAIN senders' : \E k \in DOMAIN senders :
          senders'[i] = senders[k] /\ senders[k] # p /\ senders[k] \in Posts
    <3>1. \A i \in DOMAIN senders' : \E k \in DOMAIN senders : senders'[i] = senders[k] /\ senders[k] # p
      BY <1>0, <1>4, LeavingKeeps
    <3> QED BY <1>w, <3>1
  <2>5. \A i \in DOMAIN senders' : /\ senders'[i] <= arrived /\ answer'[senders'[i]] = "none"
                                   /\ senders'[i] \notin admitted \union recording
    BY <1>0, <2>3, <2>4 DEF OnePlaceEach
  <2>6. \A i, j \in DOMAIN senders' : senders'[i] = senders'[j] => i = j
    BY <1>0, <1>4, LeavingKeeps
  <2>7. \A q \in admitted \union recording : q <= arrived /\ answer'[q] = "none"
    BY <1>0, <2>2, <2>3 DEF OnePlaceEach
  <2>8. \A q \in Posts : q > arrived => answer'[q] = "none"
    BY <1>0, <2>2, <2>3 DEF OnePlaceEach
  <2> QED BY <1>0, <2>1, <2>2, <2>5, <2>6, <2>7, <2>8 DEF OnePlaceEach
<1>5. ASSUME NEW p \in Posts, GivesUp(p) PROVE Types' /\ OnePlaceEach'
  BY <1>4, <1>5 DEF GivesUp, AnswerKinds
<1>6. ASSUME NEW p \in Posts, Refuses(p) PROVE Types' /\ OnePlaceEach'
  <2>1. Types' BY <1>0, <1>6 DEF Refuses, Answers, AnswerKinds, handling
  <2> QED BY <1>0, <1>6, <2>1 DEF Refuses, Answers, OnePlaceEach
<1>7. ASSUME NEW p \in Posts, PosterGoes(p) PROVE Types' /\ OnePlaceEach'
  <2>1. CASE Leaves(p) /\ UNCHANGED <<admitted, room>>
    BY <1>4, <1>7, <2>1 DEF PosterGoes, AnswerKinds
  <2>2. CASE p \in admitted /\ LetPlaceGo(admitted \ {p})
    <3>1. Types' BY <1>0, <1>7, <2>2, PlaceLetGo DEF PosterGoes, Answers, AnswerKinds, handling
    <3>2. arrived' = arrived /\ recording' = recording /\ answer' = [answer EXCEPT ![p] = "gone"]
      BY <1>7 DEF PosterGoes, Answers
    <3>3. \A i \in DOMAIN senders : senders[i] # p BY <1>0, <2>2 DEF OnePlaceEach
    <3>4. p <= arrived /\ p \notin recording BY <1>0, <2>2 DEF OnePlaceEach
    <3>5. \A q \in Posts : q # p => answer'[q] = answer[q] BY <1>0, <3>2
    <3>6. \A i \in DOMAIN senders' : \E k \in DOMAIN senders :
            /\ senders'[i] = senders[k] /\ senders[k] \notin admitted'
            /\ senders[k] # p /\ senders[k] \in Posts
      <4>1. \A i \in DOMAIN senders' :
              \E k \in DOMAIN senders : senders'[i] = senders[k] /\ senders[k] \notin admitted'
        BY <1>0, <2>2, PlaceLetGo
      <4> QED BY <1>w, <3>3, <4>1
    <3>7. \A i \in DOMAIN senders' : /\ senders'[i] <= arrived /\ answer'[senders'[i]] = "none"
                                     /\ senders'[i] \notin admitted' \union recording
      BY <1>0, <3>5, <3>6 DEF OnePlaceEach
    <3>8. \A i, j \in DOMAIN senders' : senders'[i] = senders'[j] => i = j
      BY <1>0, <2>2, PlaceLetGo
    <3>9. \A q \in admitted' : \/ q \in admitted /\ q # p
                              \/ \E k \in DOMAIN senders : q = senders[k] /\ q # p
      <4>1. \A q \in admitted' : q \in admitted \ {p} \/ \E k \in DOMAIN senders : q = senders[k]
        BY <1>0, <2>2, PlaceLetGo
      <4> QED BY <3>3, <4>1
    <3>10. \A q \in admitted' : q <= arrived /\ answer[q] = "none" /\ q \notin recording /\ q # p
      BY <1>f, <3>9
    <3>11. \A q \in admitted' \union recording : q <= arrived /\ answer'[q] = "none"
      BY <1>0, <3>1, <3>2, <3>4, <3>5, <3>10 DEF OnePlaceEach
    <3>12. \A q \in Posts : q > arrived => answer'[q] = "none"
      BY <1>0, <3>4, <3>5 DEF OnePlaceEach
    <3> QED BY <3>1, <3>2, <3>7, <3>8, <3>10, <3>11, <3>12 DEF OnePlaceEach
  <2> QED BY <1>7, <2>1, <2>2 DEF PosterGoes
<1>8. ASSUME Receives PROVE Types' /\ OnePlaceEach'
  <2>1. Types' BY SMTT(30), <1>0, <1>8, PlaceLetGo DEF Receives
  <2>2. arrived' = arrived /\ recording' = recording /\ answer' = answer /\ LetPlaceGo(admitted)
    BY <1>8 DEF Receives
  <2>3. \A i \in DOMAIN senders' : \E k \in DOMAIN senders :
          senders'[i] = senders[k] /\ senders[k] \notin admitted'
    BY <1>0, <2>2, PlaceLetGo
  <2>4. \A i \in DOMAIN senders' : /\ senders'[i] <= arrived /\ answer[senders'[i]] = "none"
                                   /\ senders'[i] \notin admitted' \union recording
    BY <1>0, <2>3 DEF OnePlaceEach
  <2>5. \A i, j \in DOMAIN senders' : senders'[i] = senders'[j] => i = j
    BY <1>0, <2>2, PlaceLetGo
  <2>6. \A q \in admitted' : q \in admitted \/ \E k \in DOMAIN senders : q = senders[k]
    BY <1>0, <2>2, PlaceLetGo
  <2>7. \A q \in admitted' : q <= arrived /\ answer[q] = "none" /\ q \notin recording
    BY <1>f, <2>6
  <2> QED BY <1>0, <2>1, <2>2, <2>4, <2>5, <2>7 DEF OnePlaceEach
<1>9. ASSUME Handles \/ \E p \in Posts : TurnReturns(p) PROVE Types' /\ OnePlaceEach'
  <2>1. Types'
    <3>1. CASE Handles
      <4>1. worker \in Posts /\ written' = Append(written, worker) BY <1>0, <3>1 DEF Handles
      <4>2. written' \in Seq(Posts) BY <1>0, <4>1
      <4>3. turns' \subseteq Posts /\ completed' \in Nat /\ worker' = NoPost
        <5>1. CASE completed' = completed + 1 /\ turns' = turns BY <1>0, <3>1, <5>1 DEF Handles
        <5>2. CASE turns' = turns \union {worker} /\ completed' = completed
          BY <1>0, <3>1, <4>1, <5>2 DEF Handles
        <5> QED BY <3>1, <5>1, <5>2 DEF Handles
      <4> QED BY <1>0, <3>1, <4>2, <4>3 DEF Handles, endpoint
    <3>2. CASE \E p \in Posts : TurnReturns(p) BY <1>0, <3>2 DEF TurnReturns, endpoint
    <3> QED BY <1>9, <3>1, <3>2
  <2>2. endpoint' = endpoint BY <1>9 DEF Handles, TurnReturns
  <2> QED BY <1>0, <2>1, <2>2 DEF OnePlaceEach, endpoint
<1>10. ASSUME Sticks \/ StopsServing \/ Stops \/ UNCHANGED ingress PROVE Types' /\ OnePlaceEach'
  BY <1>0, <1>10
  DEF Sticks, StopsServing, Stops, OnePlaceEach, ingress, endpoint, handling
<1> QED
  BY <1>1, <1>2, <1>3, <1>5, <1>6, <1>7, <1>8, <1>9, <1>10 DEF IngressNext

\* A body in hand is one that no turn is about: it was sent once.
LEMMA InHandIsNew ==
  ASSUME IngressIInv, worker # NoPost PROVE worker \in Posts /\ worker \notin turns
<1>0. /\ written \in Seq(Posts) /\ bodies \in Seq(Posts) /\ worker \in Posts
      /\ sent = written \o <<worker>> \o bodies
  BY DEF IngressIInv, IngressInv, Types, WrittenAsSent, InHand
<1>1. <<worker>> \in Seq(Posts) /\ Len(<<worker>>) = 1 /\ <<worker>>[1] = worker BY <1>0
<1>2. /\ Len(written) \in Nat /\ Len(bodies) \in Nat /\ Len(sent) = Len(written) + 1 + Len(bodies)
      /\ sent \in Seq(Posts)
  BY <1>0, <1>1, ConcatProperties, LenProperties
<1>3. \A k \in 1 .. Len(written) + 1 :
        sent[k] = IF k <= Len(written) THEN written[k] ELSE worker
  <2> DEFINE front == written \o <<worker>>
  <2>1. /\ front \in Seq(Posts) /\ Len(front) = Len(written) + 1
        /\ \A k \in 1 .. Len(written) + 1 :
             front[k] = IF k <= Len(written) THEN written[k] ELSE <<worker>>[k - Len(written)]
    BY <1>0, <1>1, ConcatProperties
  <2>2. \A k \in 1 .. Len(written) + 1 :
          front[k] = IF k <= Len(written) THEN written[k] ELSE worker
    BY <1>1, <1>2, <2>1
  <2>3. sent = front \o bodies BY <1>0
  <2> HIDE DEF front
  <2>4. \A k \in 1 .. Len(front) + Len(bodies) :
          (front \o bodies)[k] = IF k <= Len(front) THEN front[k] ELSE bodies[k - Len(front)]
    BY <1>0, <2>1, ConcatProperties
  <2> QED BY <1>2, <2>1, <2>2, <2>3, <2>4
<1>4. SUFFICES ASSUME worker \in turns PROVE FALSE BY <1>0
<1>5. PICK k \in DOMAIN written : written[k] = worker BY <1>4 DEF IngressIInv, TurnsAreWritten
<1>6. k \in 1 .. Len(written) /\ DOMAIN sent = 1 .. Len(sent) BY <1>0, <1>2, <1>5
<1>7. sent[k] = worker /\ sent[Len(written) + 1] = worker /\ k # Len(written) + 1
  <2>1. k \in 1 .. Len(written) + 1 /\ k <= Len(written) BY <1>2, <1>6
  <2>2. sent[k] = written[k] BY <1>3, <2>1
  <2>3. Len(written) + 1 \in 1 .. Len(written) + 1 /\ ~(Len(written) + 1 <= Len(written)) BY <1>2
  <2>4. sent[Len(written) + 1] = worker BY <1>3, <2>3
  <2> QED BY <1>2, <1>5, <2>1, <2>2, <2>4
<1>8. k \in DOMAIN sent /\ Len(written) + 1 \in DOMAIN sent BY <1>2, <1>6
<1> QED BY <1>7, <1>8 DEF IngressIInv, SentOnce

\* A body appended to the channel is appended to all that was sent.
LEMMA BodyGoesIn ==
  ASSUME NEW w \in Seq(Posts), NEW h \in Seq(Posts), NEW b \in Seq(Posts), NEW p \in Posts
  PROVE  Append(w \o h \o b, p) = w \o h \o Append(b, p)
<1>1. <<p>> \in Seq(Posts) OBVIOUS
<1>2. w \o h \in Seq(Posts) /\ (w \o h) \o b \in Seq(Posts) BY ConcatProperties
<1>3. Append(w \o h \o b, p) = ((w \o h) \o b) \o <<p>> /\ Append(b, p) = b \o <<p>>
  BY <1>2, AppendIsConcat
<1>4. ((w \o h) \o b) \o <<p>> = (w \o h) \o (b \o <<p>>)
  <2> DEFINE front == w \o h
             last == <<p>>
  <2>1. front \in Seq(Posts) /\ last \in Seq(Posts) BY <1>1, <1>2
  <2> HIDE DEF front, last
  <2>2. (front \o b) \o last = front \o (b \o last)
    <3> HIDE DEF Posts
    <3> QED BY <2>1, ConcatAssociative, SMTT(30)
  <2> QED BY <2>2 DEF front, last
<1> QED BY <1>3, <1>4

\* The body at the head of the channel comes in hand, and then among the written.
LEMMA BodiesPass ==
  ASSUME NEW w \in Seq(Posts), NEW b \in Seq(Posts), NEW p \in Posts
  PROVE  /\ w \o <<>> \o b = w \o b /\ Append(w, p) \o b = w \o <<p>> \o b
         /\ b # <<>> => w \o <<Head(b)>> \o Tail(b) = w \o b
<1>1. Append(w, p) = w \o <<p>> BY AppendIsConcat
<1>2. w \o <<>> = w BY ConcatEmptySeq
<1>3. ASSUME b # <<>> PROVE w \o <<Head(b)>> \o Tail(b) = w \o b
  <2>1. Head(b) \in Posts /\ Tail(b) \in Seq(Posts) /\ <<Head(b)>> \in Seq(Posts)
        /\ Len(Tail(b)) = Len(b) - 1 /\ Len(b) \in Nat /\ Head(b) = b[1]
        /\ \A i \in 1 .. Len(Tail(b)) : Tail(b)[i] = b[i + 1]
    BY <1>3, HeadTailProperties
  <2>2. <<Head(b)>> \o Tail(b) = b
    <3> DEFINE all == <<Head(b)>> \o Tail(b)
    <3>1. /\ all \in Seq(Posts) /\ Len(all) = Len(b)
          /\ \A i \in 1 .. Len(b) : all[i] = IF i <= 1 THEN b[1] ELSE Tail(b)[i - 1]
      BY <2>1, ConcatProperties
    <3>2. \A i \in 1 .. Len(b) : all[i] = b[i] BY <2>1, <3>1
    <3> HIDE DEF all
    <3>3. all = b BY <3>1, <3>2, SeqEqual
    <3> QED BY <3>3 DEF all
  <2>3. (w \o <<Head(b)>>) \o Tail(b) = w \o (<<Head(b)>> \o Tail(b)) 
    <3> DEFINE oldest == <<Head(b)>>
               rest == Tail(b)
    <3>1. oldest \in Seq(Posts) /\ rest \in Seq(Posts) BY <2>1
    <3> HIDE DEF oldest, rest
    <3>2. (w \o oldest) \o rest = w \o (oldest \o rest)
      <4> HIDE DEF Posts
      <4> QED BY <3>1, ConcatAssociative, SMTT(30)
    <3> QED BY <3>2 DEF oldest, rest
  <2> QED BY <2>2, <2>3
<1> QED BY <1>1, <1>2, <1>3

\* What was sent is what was written, what is in hand and what the channel holds.
LEMMA SentKept == IngressIInv /\ [IngressNext]_ingress => WrittenAsSent' /\ SentOnce'
<1> SUFFICES ASSUME IngressIInv, [IngressNext]_ingress PROVE WrittenAsSent' /\ SentOnce'
  OBVIOUS
<1>0. Types /\ OnePlaceEach /\ SentOnce /\ WrittenAsSent BY DEF IngressIInv, IngressInv
<1>t. Types' BY OnePlaceKept
<1>h. InHand \in Seq(Posts)
  <2>1. CASE worker = NoPost BY <2>1 DEF InHand
  <2>2. CASE worker # NoPost
    <3>1. worker \in Posts BY <1>0, <2>2 DEF Types
    <3> QED BY <2>2, <3>1 DEF InHand
  <2> QED BY <2>1, <2>2
<1>k. ASSUME sent' = sent, answer' = answer, sent' = written' \o InHand' \o bodies'
      PROVE  WrittenAsSent' /\ SentOnce'
  <2>1. SentOnce' BY <1>0, <1>k DEF SentOnce
  <2>2. (\A p \in Posts : answer[p] = "taken" <=> \E i \in DOMAIN sent : sent[i] = p)'
    BY <1>0, <1>k DEF WrittenAsSent
  <2> QED BY <1>k, <2>1, <2>2 DEF WrittenAsSent
<1>u. DOMAIN sent = 1 .. Len(sent) /\ Len(sent) \in Nat /\ \A i \in DOMAIN sent : sent[i] \in Posts
  BY <1>0 DEF Types
<1>1. ASSUME UNCHANGED <<written, worker, bodies, sent, answer>>
      PROVE  WrittenAsSent' /\ SentOnce'
  BY <1>0, <1>1 DEF WrittenAsSent, SentOnce, InHand
<1>2. ASSUME NEW p \in Posts, NEW how \in AnswerKinds, Answers(p, how), how # "taken",
             answer[p] = "none", UNCHANGED <<written, worker, bodies, sent>>
      PROVE  WrittenAsSent' /\ SentOnce'
  <2>1. \A q \in Posts : answer'[q] = "taken" <=> answer[q] = "taken"
    BY <1>0, <1>2 DEF Answers, Types
  <2>2. InHand' = InHand BY <1>2 DEF InHand
  <2> QED BY <1>0, <1>2, <2>1, <2>2 DEF WrittenAsSent, SentOnce
<1>3. ASSUME NEW p \in Posts, Sends(p) PROVE WrittenAsSent' /\ SentOnce'
  <2>1. /\ answer[p] = "none" /\ answer' = [answer EXCEPT ![p] = "taken"]
        /\ sent' = Append(sent, p) /\ bodies' = Append(bodies, p)
        /\ written' = written /\ worker' = worker
    BY <1>0, <1>3 DEF Sends, Answers, OnePlaceEach, handling
  <2>2. \A i \in DOMAIN sent : sent[i] # p BY <1>0, <2>1 DEF WrittenAsSent
  <2>3. /\ DOMAIN sent' = DOMAIN sent \union {Len(sent) + 1}
        /\ \A i \in DOMAIN sent : sent'[i] = sent[i]
        /\ sent'[Len(sent) + 1] = p
    BY <1>0, <2>1 DEF Types
  <2>4. SentOnce' BY <1>0, <2>2, <2>3 DEF SentOnce
  <2>5. sent' = written' \o InHand' \o bodies'
    <3>1. InHand' = InHand /\ sent = written \o InHand \o bodies
      BY <1>0, <2>1 DEF InHand, WrittenAsSent
    <3>2. written \in Seq(Posts) /\ bodies \in Seq(Posts) BY <1>0 DEF Types
    <3>3. Append(written \o InHand \o bodies, p) = written \o InHand \o Append(bodies, p)
      <4> HIDE DEF Posts
      <4> QED BY <1>h, <3>2, BodyGoesIn, Zenon
    <3> QED BY <2>1, <3>1, <3>3
  <2>6. \A q \in Posts : answer'[q] = "taken" <=> answer[q] = "taken" \/ q = p
    BY <1>0, <2>1 DEF Types
  <2>7. \A q \in Posts : answer'[q] = "taken" <=> \E i \in DOMAIN sent' : sent'[i] = q
    <3>1. \A q \in Posts : answer[q] = "taken" <=> \E i \in DOMAIN sent : sent[i] = q
      BY <1>0 DEF WrittenAsSent
    <3>2. ASSUME NEW q \in Posts, answer'[q] = "taken" PROVE \E i \in DOMAIN sent' : sent'[i] = q
      <4>1. CASE q = p BY <2>3, <4>1
      <4>2. CASE answer[q] = "taken" BY <2>3, <3>1, <4>2
      <4> QED BY <2>6, <3>2, <4>1, <4>2
    <3>3. ASSUME NEW q \in Posts, NEW i \in DOMAIN sent', sent'[i] = q PROVE answer'[q] = "taken"
      <4>1. CASE i \in DOMAIN sent BY <2>3, <2>6, <3>1, <3>3, <4>1
      <4>2. CASE i = Len(sent) + 1 BY <2>3, <2>6, <3>3, <4>2
      <4> QED BY <2>3, <4>1, <4>2
    <3> QED BY <3>2, <3>3
  <2> QED BY <2>4, <2>5, <2>7 DEF WrittenAsSent
<1>4. ASSUME Receives PROVE WrittenAsSent' /\ SentOnce'
  <2>1. /\ worker = NoPost /\ bodies # <<>> /\ worker' = Head(bodies) /\ bodies' = Tail(bodies)
        /\ written' = written /\ sent' = sent /\ answer' = answer
        /\ written \in Seq(Posts) /\ bodies \in Seq(Posts)
    BY <1>0, <1>4 DEF Receives, Types
  <2>2. Head(bodies) \in Posts BY <2>1
  <2>3. InHand = <<>> /\ InHand' = <<Head(bodies)>> BY <2>1, <2>2 DEF InHand
  <2>4. sent' = written' \o InHand' \o bodies'
    <3>1. sent = written \o <<>> \o bodies BY <1>0, <2>3 DEF WrittenAsSent
    <3>2. /\ written \o <<>> \o bodies = written \o bodies
          /\ written \o <<Head(bodies)>> \o Tail(bodies) = written \o bodies
      BY <2>1, <2>2, BodiesPass
    <3> QED BY <2>1, <2>3, <3>1, <3>2
  <2> QED BY <1>k, <2>1, <2>4
<1>5. ASSUME Handles PROVE WrittenAsSent' /\ SentOnce'
  <2>1. /\ worker \in Posts /\ worker' = NoPost /\ written' = Append(written, worker)
        /\ bodies' = bodies /\ sent' = sent /\ answer' = answer
        /\ written \in Seq(Posts) /\ bodies \in Seq(Posts)
    BY <1>0, <1>5 DEF Handles, Types, endpoint
  <2>2. InHand = <<worker>> /\ InHand' = <<>> BY <2>1 DEF InHand
  <2>3. sent' = written' \o InHand' \o bodies'
    <3>1. sent = written \o <<worker>> \o bodies BY <1>0, <2>2 DEF WrittenAsSent
    <3>2. written' \in Seq(Posts) BY <2>1
    <3>3. Append(written, worker) \o bodies = written \o <<worker>> \o bodies BY <2>1, BodiesPass
    <3>4. written' \o <<>> \o bodies = written' \o bodies BY <2>1, <3>2, ConcatEmptySeq
    <3> QED BY <2>1, <2>2, <3>1, <3>3, <3>4
  <2> QED BY <1>k, <2>1, <2>3
<1>6. ASSUME NEW p \in Posts, GivesUp(p) \/ PosterGoes(p) \/ Refuses(p)
      PROVE  WrittenAsSent' /\ SentOnce'
  <2>1. PICK how \in {"refused", "gone", "unauthorized"} : Answers(p, how)
    BY <1>6 DEF GivesUp, PosterGoes, Refuses
  <2>2. answer[p] = "none"
    <3>1. Leaves(p) => answer[p] = "none" BY <1>0, LeavingKeeps
    <3>2. p \in admitted \union recording => answer[p] = "none" BY <1>0 DEF OnePlaceEach
    <3> QED BY <1>6, <3>1, <3>2 DEF GivesUp, PosterGoes, Refuses
  <2>3. UNCHANGED <<written, worker, bodies, sent>>
    BY <1>6 DEF GivesUp, PosterGoes, Refuses, handling
  <2>4. how \in AnswerKinds /\ how # "taken" BY <2>1 DEF AnswerKinds
  <2> QED BY <1>2, <2>1, <2>2, <2>3, <2>4
<1>7. ASSUME \/ \E p \in Posts : WithSecret(p) \/ WithoutSecret(p) \/ TurnReturns(p)
             \/ Sticks \/ StopsServing \/ Stops \/ UNCHANGED ingress
      PROVE  UNCHANGED <<written, worker, bodies, sent, answer>>
  BY <1>7 DEF WithSecret, WithoutSecret, TurnReturns, Sticks, StopsServing, Stops, ingress,
              endpoint, handling
<1> QED BY <1>1, <1>3, <1>4, <1>5, <1>6, <1>7 DEF IngressNext

\* A turn is of a body that was written down.
LEMMA TurnsKept == IngressIInv /\ [IngressNext]_ingress => TurnsAreWritten' /\ CountedWhenFinished'
<1> SUFFICES ASSUME IngressIInv, [IngressNext]_ingress
             PROVE  TurnsAreWritten' /\ CountedWhenFinished'
  OBVIOUS
<1>0. /\ Types /\ TurnsAreWritten /\ CountedWhenFinished /\ turns \subseteq Posts
      /\ completed \in Nat /\ written \in Seq(Posts) /\ Len(written) \in Nat
      /\ DOMAIN written = 1 .. Len(written)
  BY DEF IngressIInv, IngressInv, Types
<1>f. IsFiniteSet(turns) /\ Cardinality(turns) \in Nat BY <1>0, FinitelyMany
<1>c. completed \in Nat /\ completed + Cardinality(turns) = Len(written)
  BY <1>0 DEF CountedWhenFinished
<1>1. ASSUME UNCHANGED <<turns, completed, written>> PROVE TurnsAreWritten' /\ CountedWhenFinished'
  BY <1>0, <1>1 DEF TurnsAreWritten, CountedWhenFinished
<1>2. ASSUME Handles PROVE TurnsAreWritten' /\ CountedWhenFinished'
  <2>1. worker \in Posts /\ worker \notin turns /\ written' = Append(written, worker)
    BY <1>2, InHandIsNew DEF Handles
  <2>2. /\ Len(written') = Len(written) + 1 /\ DOMAIN written' = DOMAIN written \union {Len(written) + 1}
        /\ \A i \in DOMAIN written : written'[i] = written[i]
        /\ written'[Len(written) + 1] = worker
    BY <1>0, <2>1
  <2>n. Len(written') = Len(written) + 1 BY <2>2
  <2>3. turns' \subseteq turns \union {worker} BY <1>2 DEF Handles
  <2>4. TurnsAreWritten' BY <1>0, <2>2, <2>3 DEF TurnsAreWritten
  <2>5. CASE completed' = completed + 1 /\ turns' = turns
    <3>1. Cardinality(turns') = Cardinality(turns) BY <2>5
    <3>2. CountedWhenFinished' BY <1>c, <1>f, <2>n, <2>5, <3>1 DEF CountedWhenFinished
    <3> QED BY <2>4, <3>2
  <2>6. CASE turns' = turns \union {worker} /\ completed' = completed
    <3>1. Cardinality(turns') = Cardinality(turns) + 1 BY <1>f, <2>1, <2>6, FS_AddElement
    <3>2. CountedWhenFinished' BY <1>c, <1>f, <2>n, <2>6, <3>1 DEF CountedWhenFinished
    <3> QED BY <2>4, <3>2
  <2> QED BY <1>2, <2>5, <2>6 DEF Handles
<1>3. ASSUME NEW p \in Posts, TurnReturns(p) PROVE TurnsAreWritten' /\ CountedWhenFinished'
  <2>1. p \in turns /\ turns' = turns \ {p} /\ completed' = completed + 1 /\ written' = written
    BY <1>3 DEF TurnReturns
  <2>2. Cardinality(turns') = Cardinality(turns) - 1 BY <1>f, <2>1, FS_RemoveElement
  <2> QED BY <1>0, <1>f, <2>1, <2>2 DEF TurnsAreWritten, CountedWhenFinished
<1>4. ASSUME \/ \E p \in Posts : WithSecret(p) \/ WithoutSecret(p) \/ Sends(p) \/ GivesUp(p)
                                 \/ Refuses(p) \/ PosterGoes(p)
             \/ Receives \/ Sticks \/ StopsServing \/ Stops \/ UNCHANGED ingress
      PROVE  UNCHANGED <<turns, completed, written>>
  BY <1>4 DEF WithSecret, WithoutSecret, Sends, GivesUp, Refuses, PosterGoes, Receives, Sticks,
              StopsServing, Stops, ingress, handling
<1> QED BY <1>1, <1>2, <1>3, <1>4 DEF IngressNext

\* Every place is free, given, or holds a body.
LEMMA PlacesKept == IngressIInv /\ [IngressNext]_ingress => PlacesAreKept'
<1> SUFFICES ASSUME IngressIInv, [IngressNext]_ingress PROVE PlacesAreKept'
  OBVIOUS
<1>0. /\ Types /\ OnePlaceEach /\ PlacesAreKept /\ room \in Nat /\ admitted \subseteq Posts
      /\ bodies \in Seq(Posts) /\ Len(bodies) \in Nat
  BY DEF IngressIInv, IngressInv, Types
<1>f. IsFiniteSet(admitted) /\ Cardinality(admitted) \in Nat BY <1>0, FinitelyMany
<1>1. ASSUME UNCHANGED <<room, admitted, bodies, senders>> PROVE PlacesAreKept'
  BY <1>0, <1>1 DEF PlacesAreKept
<1>2. ASSUME NEW p \in Posts, WithSecret(p) PROVE PlacesAreKept'
  <2>1. CASE room > 0 /\ room' = room - 1 /\ admitted' = admitted \union {p} /\ senders' = senders
    <3>1. p \notin admitted /\ bodies' = bodies
      BY <1>0, <1>2 DEF WithSecret, Arrives, OnePlaceEach, Types
    <3>2. Cardinality(admitted') = Cardinality(admitted) + 1 BY <1>f, <2>1, <3>1, FS_AddElement
    <3> QED BY <1>0, <1>f, <2>1, <3>1, <3>2 DEF PlacesAreKept
  <2>2. CASE room = 0 /\ room' = room /\ admitted' = admitted
    BY <1>0, <1>2, <2>2 DEF WithSecret, PlacesAreKept
  <2> QED BY <1>2, <2>1, <2>2 DEF WithSecret
<1>3. ASSUME NEW p \in Posts, Sends(p) PROVE PlacesAreKept'
  <2>1. /\ p \in admitted /\ admitted' = admitted \ {p} /\ room' = room /\ senders' = senders
        /\ bodies' = Append(bodies, p)
    BY <1>3 DEF Sends
  <2>2. Cardinality(admitted') = Cardinality(admitted) - 1 BY <1>f, <2>1, FS_RemoveElement
  <2>3. Len(bodies') = Len(bodies) + 1 BY <1>0, <2>1
  <2> QED BY <1>0, <1>f, <2>1, <2>2, <2>3 DEF PlacesAreKept
<1>4. ASSUME NEW p \in Posts, GivesUp(p) PROVE PlacesAreKept'
  <2>1. senders # <<>> BY <1>0, <1>4, LeavingKeeps DEF GivesUp
  <2> QED BY <1>0, <1>4, <2>1 DEF GivesUp, PlacesAreKept
<1>5. ASSUME NEW p \in Posts, PosterGoes(p) PROVE PlacesAreKept'
  <2>1. CASE Leaves(p) /\ UNCHANGED <<admitted, room>>
    <3>1. senders # <<>> BY <1>0, <2>1, LeavingKeeps
    <3> QED BY <1>0, <1>5, <2>1, <3>1 DEF PosterGoes, PlacesAreKept
  <2>2. CASE p \in admitted /\ LetPlaceGo(admitted \ {p})
    <3>1. Cardinality(admitted \ {p}) = Cardinality(admitted) - 1
      BY <1>f, <2>2, FS_RemoveElement
    <3>2. /\ room' + Cardinality(admitted') = room + Cardinality(admitted \ {p}) + 1
          /\ senders' # <<>> => senders # <<>> /\ room' = room
      BY <1>0, <2>2, PlaceLetGo
    <3>3. bodies' = bodies BY <1>5 DEF PosterGoes
    <3>4. room' \in Nat /\ Cardinality(admitted') \in Nat
      <4>1. Types' BY OnePlaceKept
      <4> QED BY <4>1, FinitelyMany DEF Types
    <3> QED BY <1>0, <1>f, <3>1, <3>2, <3>3, <3>4 DEF PlacesAreKept
  <2> QED BY <1>5, <2>1, <2>2 DEF PosterGoes
<1>6. ASSUME Receives PROVE PlacesAreKept'
  <2>1. /\ room' + Cardinality(admitted') = room + Cardinality(admitted) + 1
        /\ senders' # <<>> => senders # <<>> /\ room' = room
    BY <1>0, <1>6, PlaceLetGo DEF Receives
  <2>2. Len(bodies') = Len(bodies) - 1 BY <1>0, <1>6 DEF Receives
  <2>3. room' \in Nat /\ Cardinality(admitted') \in Nat
    <3>1. Types' BY OnePlaceKept
    <3> QED BY <3>1, FinitelyMany DEF Types
  <2> QED BY <1>0, <1>f, <2>1, <2>2, <2>3 DEF PlacesAreKept
<1>7. ASSUME \/ \E p \in Posts : WithoutSecret(p) \/ Refuses(p) \/ TurnReturns(p)
             \/ Sticks \/ Handles \/ StopsServing \/ Stops \/ UNCHANGED ingress
      PROVE  UNCHANGED <<room, admitted, bodies, senders>>
  BY <1>7 DEF WithoutSecret, Refuses, TurnReturns, Sticks, Handles, StopsServing, Stops, ingress,
              endpoint
<1> QED BY <1>1, <1>2, <1>3, <1>4, <1>5, <1>6, <1>7 DEF IngressNext

\* Whatever posts come, wait, give up or go away, and whenever the server stops
\* (`receive` and `work`): a body is answered as taken exactly when it was sent,
\* is written down once and in that order, no place of the channel is lost or
\* given twice, and a body is counted when what it claimed is finished.
THEOREM IngressKeepsItsOrder == IngressSpec => []IngressInv
<1>1. IngressInit => IngressIInv BY IngressInitial
<1>2. IngressIInv /\ [IngressNext]_ingress => IngressIInv'
  BY OnePlaceKept, SentKept, TurnsKept, PlacesKept DEF IngressIInv, IngressInv
<1>3. IngressIInv => IngressInv BY DEF IngressIInv
<1> QED BY <1>1, <1>2, <1>3, PTL DEF IngressSpec

-----------------------------------------------------------------------------
(* The event log as one watch follows it (EventStream) *)

StreamSpec == StreamInit /\ [][StreamNext]_stream

\* What the server's read is at.
Reads == [at : {"none", "starting", "newest", "marking", "examining", "examined", "waiting", "ending",
                "answered"},
          cursor : Nat, passing : SUBSET Nat, ended : BOOLEAN]

\* What the variables hold.
StreamTypes ==
  /\ log \in Seq(EventKinds) /\ printed \in Seq(Nat)
  /\ raising \in BOOLEAN /\ unseen \in BOOLEAN /\ scoped \in BOOLEAN /\ told \in BOOLEAN /\ late \in BOOLEAN
  /\ overtaken \in BOOLEAN /\ blind \in BOOLEAN /\ outrun \in BOOLEAN
  /\ watch \in {"new", "asking", "reading", "failed", "print_ended", "unreachable"}
  /\ after \in Nat /\ cursor \in Nat /\ first \in Int
  /\ read \in Reads

\* Positions are of the log, and one event of it at most is the end.
Positions ==
  /\ after <= Len(log) /\ cursor <= Len(log) /\ read.cursor <= Len(log) /\ first <= Len(log)
  /\ \A i, j \in DOMAIN log : log[i] = "end" /\ log[j] = "end" => i = j
  /\ told \/ read.ended => scoped /\ Ended

\* What the watch and its read agree on.
ReadOfTheWatch ==
  /\ watch = "reading" <=> read.at # "none"
  /\ read.at = "none" => read = NoRead
  /\ watch = "new" => first = -1 /\ after = Nowhere /\ cursor = Nowhere /\ printed = <<>>
  /\ watch # "new" => after <= cursor
  /\ read.at \in {"starting", "newest"} => read.cursor = cursor /\ read.passing = {}
  /\ read.at = "newest" => cursor = Nowhere
  /\ read.at = "waiting" => read.passing = {}
  /\ read.at # "none" => cursor <= read.cursor
  /\ \A i \in read.passing : cursor < i /\ i <= read.cursor

\* A watch of every print that has no cursor has been started nowhere.
NotStarted ==
  ~scoped /\ ~blind /\ cursor = Nowhere
    /\ (watch \in {"asking", "failed"} \/ read.at \in {"starting", "newest"}) => first = -1

PrintedInOrder ==
  /\ \A k, l \in DOMAIN printed : k < l => printed[k] < printed[l]
  /\ \A k \in DOMAIN printed :
       /\ printed[k] \in DOMAIN log
       /\ scoped /\ after = Nowhere /\ log[printed[k]] = "end" => k = Len(printed)
       /\ watch # "print_ended" => printed[k] <= cursor /\ (scoped => log[printed[k]] # "end")

IsPrinted(i) == \E k \in DOMAIN printed : printed[k] = i

\* What is owed was printed, or is in the answer on its way.
NothingPassedBy ==
  ~overtaken /\ ~blind /\ ~outrun =>
    /\ watch \in {"asking", "reading", "failed"} => \A i \in Owed : i <= cursor => IsPrinted(i)
    /\ watch = "print_ended" => Ended /\ \A i \in Owed : i <= TheEnd => IsPrinted(i)
    /\ read.at # "none" => \A i \in Owed : i <= read.cursor => IsPrinted(i) \/ i \in read.passing
    /\ read.at = "answered" /\ read.passing = {} /\ (told \/ read.ended) =>
         \E e \in DOMAIN log : log[e] = "end" /\ e <= read.cursor

\* What a read has examined and is not answered with holds nothing that passes.
WakeOnItsWay ==
  read.at \in {"examined", "waiting"} /\ read.passing = {} /\ ~unseen /\ ~raising =>
    \A i \in StoredAfter(read.cursor) : ~Passes(i)

StreamIInv == /\ StreamTypes /\ Positions /\ ReadOfTheWatch /\ NotStarted /\ PrintedInOrder
              /\ NothingPassedBy /\ WakeOnItsWay

LEMMA StreamStarts == StreamInit => StreamIInv
<1> SUFFICES ASSUME StreamInit PROVE StreamIInv
  OBVIOUS
<1> USE DEF StreamInit, NoRead, Nowhere
<1>0. <<>> \in Seq(EventKinds) /\ <<>> \in Seq(Nat)
  OBVIOUS
<1>1. NoRead \in Reads
  BY DEF Reads
<1>5. StreamTypes
  <2>1. log \in Seq(EventKinds) /\ printed \in Seq(Nat)
    BY <1>0
  <2>2. read \in Reads
    BY <1>1
  <2>3. after \in Nat /\ cursor \in Nat /\ first \in Int
    OBVIOUS
  <2> QED
    BY <2>1, <2>2, <2>3 DEF StreamTypes, Reads
<1>2. Positions /\ ReadOfTheWatch /\ NotStarted /\ PrintedInOrder
  BY DEF Positions, ReadOfTheWatch, NotStarted, PrintedInOrder
<1>3. NothingPassedBy
  BY DEF NothingPassedBy
<1>4. WakeOnItsWay
  BY DEF WakeOnItsWay
<1> QED
  BY <1>5, <1>2, <1>3, <1>4 DEF StreamIInv

\* A step that moves the read on, or a flag, and leaves what was examined,
\* printed and stored as it was.
LEMMA FlagsMove ==
  ASSUME StreamIInv,
         UNCHANGED <<log, asked, watch, cursor, told, printed, first, overtaken, blind, outrun>>,
         raising' \in BOOLEAN, unseen' \in BOOLEAN, late' \in BOOLEAN,
         read'.cursor = read.cursor, read'.passing = read.passing, read'.ended = read.ended,
         read' \in Reads,
         \/ read'.at = read.at
         \/ read.at # "none" /\ read'.at \notin {"none", "starting", "newest", "answered"},
         read'.at = "waiting" => read.passing = {},
         WakeOnItsWay'
  PROVE  StreamIInv'
<1> USE DEF asked
<1>1. StreamTypes'
  BY DEF StreamIInv, StreamTypes, Reads
<1>2. Positions'
  BY DEF StreamIInv, Positions, Ended
<1>3. ReadOfTheWatch'
  BY DEF StreamIInv, StreamTypes, Reads, ReadOfTheWatch, NoRead
<1>4. NotStarted'
  BY DEF StreamIInv, StreamTypes, Reads, NotStarted
<1>5. PrintedInOrder'
  BY DEF StreamIInv, PrintedInOrder
<1>6. Owed' = Owed /\ TheEnd' = TheEnd /\ Ended' = Ended /\ \A i : IsPrinted(i)' = IsPrinted(i)
  BY DEF Owed, TheEnd, Ended, IsPrinted, InScope, Passes
<1>7. NothingPassedBy'
  BY <1>6 DEF StreamIInv, StreamTypes, Reads, NothingPassedBy
<1> QED
  BY <1>1, <1>2, <1>3, <1>4, <1>5, <1>7 DEF StreamIInv

LEMMA SignalIsRaised == StreamIInv /\ RaiseSignal => StreamIInv'
<1> SUFFICES ASSUME StreamIInv, RaiseSignal PROVE StreamIInv'
  OBVIOUS
<1>1. WakeOnItsWay'
  BY DEF RaiseSignal, WakeOnItsWay
<1> QED
  BY <1>1, FlagsMove DEF RaiseSignal, StreamIInv, StreamTypes, Reads, excuses, asked, ReadOfTheWatch

LEMMA ReadMarksSeen == StreamIInv /\ MarksSeen => StreamIInv'
<1> SUFFICES ASSUME StreamIInv, MarksSeen PROVE StreamIInv'
  OBVIOUS
<1>1. WakeOnItsWay'
  BY DEF MarksSeen, WakeOnItsWay, StreamIInv, StreamTypes, Reads
<1> QED
  BY <1>1, FlagsMove DEF MarksSeen, StreamIInv, StreamTypes, Reads, excuses, asked, ReadOfTheWatch

LEMMA ReadAnswersOrWaits == StreamIInv /\ AnswersOrWaits => StreamIInv'
<1> SUFFICES ASSUME StreamIInv, AnswersOrWaits PROVE StreamIInv'
  OBVIOUS
<1>1. WakeOnItsWay'
  BY DEF AnswersOrWaits, WakeOnItsWay, StreamIInv, StreamTypes, Reads, StoredAfter, IsAfter, InScope, Passes, asked
<1> QED
  BY <1>1, FlagsMove DEF AnswersOrWaits, StreamIInv, StreamTypes, Reads, excuses, asked, ReadOfTheWatch

LEMMA ReadWakes == StreamIInv /\ Wakes => StreamIInv'
<1> SUFFICES ASSUME StreamIInv, Wakes PROVE StreamIInv'
  OBVIOUS
<1>1. WakeOnItsWay'
  BY DEF Wakes, WakeOnItsWay, StreamIInv, StreamTypes, Reads
<1> QED
  BY <1>1, FlagsMove DEF Wakes, StreamIInv, StreamTypes, Reads, excuses, asked, ReadOfTheWatch

LEMMA TimePasses == StreamIInv /\ DeadlinePasses => StreamIInv'
<1> SUFFICES ASSUME StreamIInv, DeadlinePasses PROVE StreamIInv'
  OBVIOUS
<1>1. WakeOnItsWay'
  BY DEF DeadlinePasses, WakeOnItsWay, StreamIInv, StreamTypes, Reads, StoredAfter, IsAfter, InScope, Passes, asked
<1> QED
  BY <1>1, FlagsMove DEF DeadlinePasses, StreamIInv, StreamTypes, Reads, excuses, asked, ReadOfTheWatch

\* An event appended leaves the others where they were.
LEMMA EventIsStored ==
  ASSUME StreamIInv, NEW kind \in EventKinds, StoreEvent(kind)
  PROVE  StreamIInv'
<1> USE DEF asked, excuses
<1>1. log' \in Seq(EventKinds) /\ Len(log') = Len(log) + 1 /\ DOMAIN log' = 1 .. Len(log) + 1
      /\ (\A i \in DOMAIN log : i \in DOMAIN log' /\ log'[i] = log[i]) /\ log'[Len(log) + 1] = kind
      /\ DOMAIN log = 1 .. Len(log) /\ Len(log) \in Nat
  BY DEF StoreEvent, StreamIInv, StreamTypes, Reads
<1>2. StreamTypes'
  BY <1>1 DEF StoreEvent, StreamIInv, StreamTypes, Reads
<1>3. Positions'
  <2>1. after' <= Len(log') /\ cursor' <= Len(log') /\ read'.cursor <= Len(log') /\ first' <= Len(log')
    BY <1>1 DEF StoreEvent, StreamIInv, StreamTypes, Reads, Positions
  <2>2. \A i, j \in DOMAIN log' : log'[i] = "end" /\ log'[j] = "end" => i = j
    BY <1>1 DEF StoreEvent, StreamIInv, Positions, Ended
  <2>3. told' \/ read'.ended => scoped' /\ Ended'
    BY <1>1 DEF StoreEvent, StreamIInv, Positions, Ended
  <2> QED
    BY <2>1, <2>2, <2>3 DEF Positions
<1>4. ReadOfTheWatch' /\ NotStarted'
  BY DEF StoreEvent, StreamIInv, ReadOfTheWatch, NotStarted
<1>5. PrintedInOrder'
  BY <1>1 DEF StoreEvent, StreamIInv, PrintedInOrder
<1>6. \A i : IsPrinted(i)' = IsPrinted(i)
  BY DEF StoreEvent, IsPrinted
<1>7. \A i \in Owed' : i <= Len(log) => i \in Owed
  <2> SUFFICES ASSUME NEW i \in Owed', i <= Len(log) PROVE i \in Owed
    OBVIOUS
  <2>1. i \in DOMAIN log' /\ InScope(i)' /\ Passes(i)'
    BY DEF Owed
  <2>2. i \in DOMAIN log
    BY <1>1, <2>1
  <2>3. InScope(i) /\ Passes(i)
    BY <1>1, <2>1, <2>2 DEF InScope, Passes, StoreEvent
  <2>4. CASE after # Nowhere
    BY <2>2, <2>3, <2>4 DEF Owed, StoreEvent
  <2>5. CASE after = Nowhere /\ scoped
    <3>1. PICK j \in 1 .. i : log'[j] \in Own
      BY <2>5 DEF Owed, StoreEvent
    <3>2. j \in DOMAIN log
      BY <1>1, <2>2
    <3> QED
      BY <1>1, <2>2, <2>3, <2>5, <3>1, <3>2 DEF Owed
  <2>6. CASE after = Nowhere /\ ~scoped
    BY <2>2, <2>3, <2>6 DEF Owed, StoreEvent
  <2> QED
    BY <2>4, <2>5, <2>6 DEF StreamIInv, StreamTypes, Reads
<1>8. Ended => Ended' /\ TheEnd' = TheEnd /\ TheEnd \in DOMAIN log
  <2> SUFFICES ASSUME Ended PROVE Ended' /\ TheEnd' = TheEnd /\ TheEnd \in DOMAIN log
    OBVIOUS
  <2>1. PICK e \in DOMAIN log : log[e] = "end"
    BY DEF Ended
  <2>2. kind # "end" /\ log' = Append(log, kind)
    BY DEF StoreEvent
  <2>3. \A i \in DOMAIN log : log[i] = "end" <=> i = e
    BY <2>1 DEF StreamIInv, Positions
  <2>4. \A i \in DOMAIN log' : log'[i] = "end" <=> i = e
    BY <1>1, <2>2, <2>3
  <2> QED
    BY <1>1, <2>1, <2>3, <2>4 DEF TheEnd, Ended
<1>9. NothingPassedBy'
  <2> SUFFICES ASSUME ~overtaken /\ ~blind /\ ~outrun PROVE NothingPassedBy'
    BY DEF NothingPassedBy, StoreEvent
  <2>0. UNCHANGED <<watch, cursor, read, told>>
    BY DEF StoreEvent
  <2>1. cursor \in Nat /\ read.cursor \in Nat /\ cursor <= Len(log) /\ read.cursor <= Len(log)
    BY DEF StreamIInv, StreamTypes, Reads, Positions
  <2>2. \A i \in Owed' : i \in Nat
    BY <1>1 DEF Owed
  <2>3. watch \in {"asking", "reading", "failed"} => \A i \in Owed' : i <= cursor => IsPrinted(i)
    BY <1>7, <2>1, <2>2, <1>1 DEF StreamIInv, NothingPassedBy
  <2>4. watch = "print_ended" => Ended' /\ \A i \in Owed' : i <= TheEnd' => IsPrinted(i)
    <3> SUFFICES ASSUME watch = "print_ended" PROVE Ended' /\ \A i \in Owed' : i <= TheEnd' => IsPrinted(i)
      OBVIOUS
    <3>1. Ended /\ \A i \in Owed : i <= TheEnd => IsPrinted(i)
      BY DEF StreamIInv, NothingPassedBy
    <3> QED
      BY <1>1, <1>7, <1>8, <2>2, <3>1
  <2>5. read.at # "none" => \A i \in Owed' : i <= read.cursor => IsPrinted(i) \/ i \in read.passing
    BY <1>7, <2>1, <2>2, <1>1 DEF StreamIInv, NothingPassedBy
  <2>6. read.at = "answered" /\ read.passing = {} /\ (told \/ read.ended) =>
          \E e \in DOMAIN log' : log'[e] = "end" /\ e <= read.cursor
    BY <1>1 DEF StreamIInv, NothingPassedBy
  <2> QED
    BY <1>6, <2>0, <2>3, <2>4, <2>5, <2>6 DEF NothingPassedBy
<1>10. WakeOnItsWay'
  BY DEF StoreEvent, WakeOnItsWay
<1> QED
  BY <1>2, <1>3, <1>4, <1>5, <1>9, <1>10 DEF StreamIInv
-----------------------------------------------------------------------------
LEMMA ReadStarts == StreamIInv /\ StartsWhere => StreamIInv'
<1> SUFFICES ASSUME StreamIInv, StartsWhere PROVE StreamIInv'
  OBVIOUS
<1> USE DEF asked, excuses
<1>1. StreamTypes'
  BY DEF StartsWhere, StreamIInv, StreamTypes, Reads
<1>2. Positions'
  BY DEF StartsWhere, StreamIInv, StreamTypes, Reads, Positions, Ended
<1>3. ReadOfTheWatch' /\ NotStarted' /\ PrintedInOrder'
  BY DEF StartsWhere, StreamIInv, StreamTypes, Reads, ReadOfTheWatch, NotStarted, PrintedInOrder
<1>4. Owed' = Owed /\ TheEnd' = TheEnd /\ Ended' = Ended /\ \A i : IsPrinted(i)' = IsPrinted(i)
  BY DEF StartsWhere, Owed, TheEnd, Ended, IsPrinted, InScope, Passes
<1>5. NothingPassedBy'
  BY <1>4 DEF StartsWhere, StreamIInv, StreamTypes, Reads, NothingPassedBy
<1>6. WakeOnItsWay'
  BY DEF StartsWhere, StreamIInv, StreamTypes, Reads, WakeOnItsWay
<1> QED
  BY <1>1, <1>2, <1>3, <1>5, <1>6 DEF StreamIInv

\* A read that starts at the newest event passes nothing by that is owed: a
\* print without events owes none, and a watch of every print is owed what
\* comes after.
LEMMA ReadStartsAtNewest == StreamIInv /\ StartsAtNewest => StreamIInv'
<1> SUFFICES ASSUME StreamIInv, StartsAtNewest PROVE StreamIInv'
  OBVIOUS
<1> USE DEF asked
<1>0. Len(log) \in Nat /\ DOMAIN log = 1 .. Len(log)
  BY DEF StreamIInv, StreamTypes, Reads
<1>1. StreamTypes'
  <2>1. read' \in Reads
    BY <1>0 DEF StartsAtNewest, StreamIInv, StreamTypes, Reads
  <2>2. overtaken' \in BOOLEAN /\ first' \in Int
    BY <1>0 DEF StartsAtNewest, StreamIInv, StreamTypes, Reads
  <2> QED
    BY <2>1, <2>2 DEF StreamIInv, StreamTypes, Reads, StartsAtNewest
<1>2. Positions'
  BY <1>0 DEF StartsAtNewest, StreamIInv, StreamTypes, Reads, Positions, Ended
<1>3. ReadOfTheWatch' /\ NotStarted' /\ PrintedInOrder'
  BY <1>0 DEF StartsAtNewest, StreamIInv, StreamTypes, Reads, ReadOfTheWatch, NotStarted, PrintedInOrder, Positions
<1>4. TheEnd' = TheEnd /\ Ended' = Ended /\ \A i : IsPrinted(i)' = IsPrinted(i)
  BY DEF StartsAtNewest, TheEnd, Ended, IsPrinted
<1>5. NothingPassedBy'
  <2> SUFFICES ASSUME ~overtaken', ~blind', ~outrun' PROVE NothingPassedBy'
    BY DEF NothingPassedBy
  <2>0. /\ ~blind /\ ~outrun /\ ~overtaken /\ (scoped => ~HasOwn) /\ read.at = "newest"
        /\ read' = [read EXCEPT !.at = "marking", !.cursor = Len(log)]
        /\ UNCHANGED <<log, scoped, after, watch, cursor, printed>>
    BY DEF StartsAtNewest, StreamIInv, StreamTypes, Reads
  <2>1. watch = "reading" /\ cursor = Nowhere /\ after = Nowhere
    BY <2>0 DEF StreamIInv, StreamTypes, Reads, ReadOfTheWatch, Nowhere
  <2>2. Owed' = {}
    <3>1. CASE scoped
      BY <1>0, <2>0, <2>1, <3>1 DEF Owed, HasOwn
    <3>2. CASE ~scoped
      <4>1. first = -1 /\ first' = Len(log)
        BY <2>0, <2>1, <3>2 DEF StreamIInv, NotStarted, StartsAtNewest
      <4> QED
        BY <1>0, <2>0, <2>1, <3>2, <4>1 DEF Owed
    <3> QED
      BY <3>1, <3>2
  <2> QED
    BY <2>0, <2>1, <2>2 DEF NothingPassedBy, StreamIInv, StreamTypes, Reads
<1>6. WakeOnItsWay'
  BY DEF StartsAtNewest, StreamIInv, StreamTypes, Reads, WakeOnItsWay
<1> QED
  BY <1>1, <1>2, <1>3, <1>5, <1>6 DEF StreamIInv

\* With the end told and nothing answered, the cursor is past the end, unless
\* an end stored since outran the read.
LEMMA ReadTellsEnd == StreamIInv /\ TellsEnd => StreamIInv'
<1> SUFFICES ASSUME StreamIInv, TellsEnd PROVE StreamIInv'
  OBVIOUS
<1> USE DEF asked
<1>0. read' = [read EXCEPT !.at = "answered", !.ended = scoped /\ Ended] /\ read.at = "ending"
  BY DEF TellsEnd
<1>1. StreamTypes'
  <2>1. read' \in Reads
    BY <1>0 DEF StreamIInv, StreamTypes, Reads, Ended
  <2>2. outrun' \in BOOLEAN
    BY DEF TellsEnd, StreamIInv, StreamTypes, Reads
  <2> QED
    BY <2>1, <2>2 DEF StreamIInv, StreamTypes, Reads, TellsEnd
<1>2. Positions'
  BY DEF TellsEnd, StreamIInv, StreamTypes, Reads, Positions, Ended
<1>3. ReadOfTheWatch' /\ NotStarted' /\ PrintedInOrder'
  BY DEF TellsEnd, StreamIInv, StreamTypes, Reads, ReadOfTheWatch, NotStarted, PrintedInOrder
<1>4. Owed' = Owed /\ TheEnd' = TheEnd /\ Ended' = Ended /\ \A i : IsPrinted(i)' = IsPrinted(i)
  BY DEF TellsEnd, Owed, TheEnd, Ended, IsPrinted, InScope, Passes
<1>5. NothingPassedBy'
  <2> SUFFICES ASSUME ~overtaken', ~blind', ~outrun' PROVE NothingPassedBy'
    BY DEF NothingPassedBy
  <2>1. ~overtaken /\ ~blind /\ ~outrun /\ UNCHANGED <<log, watch, cursor, told>>
    BY DEF TellsEnd
  <2>2. read'.passing = {} /\ (told \/ read'.ended) =>
          \E e \in DOMAIN log : log[e] = "end" /\ e <= read.cursor
    <3> SUFFICES ASSUME read'.passing = {}, told \/ read'.ended
                 PROVE  \E e \in DOMAIN log : log[e] = "end" /\ e <= read.cursor
      OBVIOUS
    <3>1. scoped /\ Ended /\ read.passing = {}
      BY <1>0 DEF StreamIInv, StreamTypes, Reads, Positions
    <3>2. PICK e \in DOMAIN log : log[e] = "end"
      BY <3>1 DEF Ended
    <3>3. ~IsAfter(read.cursor, e)
      BY <3>1, <3>2 DEF TellsEnd
    <3>4. e \in Nat /\ e >= 1 /\ read.cursor \in Nat /\ e \in 1 .. e
      BY <3>2 DEF StreamIInv, StreamTypes, Reads
    <3>5. read.cursor # Nowhere
      BY <3>2, <3>3, <3>4 DEF IsAfter, Own
    <3> QED
      BY <3>2, <3>3, <3>4, <3>5 DEF IsAfter
  <2> QED
    BY <1>0, <1>4, <2>1, <2>2 DEF StreamIInv, StreamTypes, Reads, NothingPassedBy
<1>6. WakeOnItsWay'
  BY <1>0 DEF StreamIInv, StreamTypes, Reads, WakeOnItsWay
<1> QED
  BY <1>1, <1>2, <1>3, <1>5, <1>6 DEF StreamIInv
-----------------------------------------------------------------------------
LEMMA WatchIsBegun ==
  ASSUME StreamIInv, NEW a \in {Nowhere} \union DOMAIN log, WatchBegins(a)
  PROVE  StreamIInv'
<1> USE DEF excuses
<1>0. Len(log) \in Nat /\ a \in 0 .. Len(log) /\ watch = "new" /\ read = NoRead
  BY DEF StreamIInv, StreamTypes, Reads, ReadOfTheWatch, Nowhere, WatchBegins
<1>1. StreamTypes'
  BY <1>0 DEF WatchBegins, StreamIInv, StreamTypes, Reads
<1>2. Positions'
  BY <1>0 DEF WatchBegins, StreamIInv, StreamTypes, Reads, Positions, Ended
<1>3. ReadOfTheWatch' /\ NotStarted' /\ PrintedInOrder'
  BY <1>0 DEF WatchBegins, StreamIInv, StreamTypes, Reads, ReadOfTheWatch, NotStarted, PrintedInOrder, NoRead
<1>4. \A i \in Owed' : i > cursor'
  <2>1. CASE a # Nowhere
    BY <1>0, <2>1 DEF Owed, WatchBegins
  <2>2. CASE a = Nowhere
    BY <1>0, <2>2 DEF Owed, WatchBegins, StreamIInv, StreamTypes, Reads, Nowhere
  <2> QED
    BY <2>1, <2>2
<1>5. NothingPassedBy'
  <2>1. \A i \in Owed' : i \in Nat
    BY <1>0 DEF Owed, StreamIInv, StreamTypes, Reads, WatchBegins
  <2>2. cursor' \in Nat /\ watch' = "asking" /\ read'.at = "none"
    BY <1>0 DEF WatchBegins, Nowhere, NoRead
  <2> QED
    BY <1>4, <2>1, <2>2 DEF NothingPassedBy
<1>6. WakeOnItsWay'
  BY <1>0 DEF WatchBegins, WakeOnItsWay, NoRead
<1> QED
  BY <1>1, <1>2, <1>3, <1>5, <1>6 DEF StreamIInv

LEMMA WatchAsks == StreamIInv /\ Asks => StreamIInv'
<1> SUFFICES ASSUME StreamIInv, Asks PROVE StreamIInv'
  OBVIOUS
<1> USE DEF asked, excuses
<1>0. read' = [at |-> "starting", cursor |-> cursor, passing |-> {}, ended |-> FALSE] /\ read.at = "none"
  BY DEF Asks, NoRead, StreamIInv, ReadOfTheWatch
<1>1. StreamTypes'
  <2>1. read' \in Reads
    BY <1>0 DEF StreamIInv, StreamTypes, Reads
  <2> QED
    BY <2>1 DEF StreamIInv, StreamTypes, Reads, Asks
<1>7. /\ read'.at = "starting" /\ read'.cursor = cursor /\ read'.passing = {} /\ ~read'.ended
      /\ watch = "asking" /\ watch' = "reading"
      /\ UNCHANGED <<log, scoped, after, cursor, told, printed, first, blind>>
  <2>1. read'.at = "starting" /\ read'.cursor = cursor /\ read'.passing = {} /\ ~read'.ended
    BY <1>0
  <2> QED
    BY <2>1 DEF Asks
<1>2. Positions'
  BY <1>7 DEF StreamIInv, StreamTypes, Reads, Positions, Ended
<1>3. ReadOfTheWatch' /\ NotStarted' /\ PrintedInOrder'
  BY <1>7 DEF StreamIInv, StreamTypes, Reads, ReadOfTheWatch, NotStarted, PrintedInOrder
<1>4. Owed' = Owed /\ \A i : IsPrinted(i)' = IsPrinted(i)
  BY DEF Asks, Owed, IsPrinted, InScope, Passes
<1>5. NothingPassedBy'
  BY <1>0, <1>4 DEF Asks, StreamIInv, StreamTypes, Reads, NothingPassedBy
<1>6. WakeOnItsWay'
  BY <1>0 DEF WakeOnItsWay
<1> QED
  BY <1>1, <1>2, <1>3, <1>5, <1>6 DEF StreamIInv

LEMMA WatchRetriesOrGivesUp == StreamIInv /\ RetriesOrGivesUp => StreamIInv'
<1> SUFFICES ASSUME StreamIInv, RetriesOrGivesUp PROVE StreamIInv'
  OBVIOUS
<1> USE DEF asked, excuses
<1>0. read = NoRead
  BY DEF RetriesOrGivesUp, StreamIInv, ReadOfTheWatch
<1>1. StreamTypes' /\ Positions'
  BY DEF RetriesOrGivesUp, StreamIInv, StreamTypes, Reads, Positions, Ended
<1>2. ReadOfTheWatch' /\ NotStarted' /\ PrintedInOrder'
  BY <1>0 DEF RetriesOrGivesUp, StreamIInv, ReadOfTheWatch, NotStarted, PrintedInOrder, NoRead
<1>3. Owed' = Owed /\ \A i : IsPrinted(i)' = IsPrinted(i)
  BY DEF RetriesOrGivesUp, Owed, IsPrinted, InScope, Passes
<1>4. NothingPassedBy'
  BY <1>0, <1>3 DEF RetriesOrGivesUp, StreamIInv, NothingPassedBy, NoRead
<1>5. WakeOnItsWay'
  BY <1>0 DEF RetriesOrGivesUp, WakeOnItsWay, NoRead
<1> QED
  BY <1>1, <1>2, <1>4, <1>5 DEF StreamIInv

\* A watch that has no cursor when its read is lost begins anew: it has printed
\* nothing, and is owed nothing until it is started again.
LEMMA AnswerIsLost == StreamIInv /\ ReadIsLost => StreamIInv'
<1> SUFFICES ASSUME StreamIInv, ReadIsLost PROVE StreamIInv'
  OBVIOUS
<1> USE DEF asked, excuses
<1>0. read' = NoRead /\ read'.at = "none" /\ read'.cursor = 0 /\ read'.passing = {} /\ read'.ended = FALSE
  BY DEF ReadIsLost, NoRead, Nowhere
<1>1. StreamTypes'
  <2>1. read' \in Reads
    BY <1>0 DEF NoRead, Nowhere, Reads
  <2>2. first' \in Int
    BY DEF ReadIsLost, StreamIInv, StreamTypes, Reads
  <2> QED
    BY <2>1, <2>2 DEF StreamIInv, StreamTypes, Reads, ReadIsLost
<1>2. Positions'
  BY <1>0 DEF ReadIsLost, StreamIInv, StreamTypes, Reads, Positions, Ended
<1>3. ReadOfTheWatch' /\ NotStarted' /\ PrintedInOrder'
  BY <1>0 DEF ReadIsLost, StreamIInv, StreamTypes, Reads, ReadOfTheWatch, NotStarted, PrintedInOrder
<1>4. \A i \in Owed' : i <= cursor => i \in Owed
  BY DEF ReadIsLost, StreamIInv, StreamTypes, Reads, Owed, InScope, Passes, Nowhere
<1>5. \A i : IsPrinted(i)' = IsPrinted(i)
  BY DEF ReadIsLost, IsPrinted
<1>6. NothingPassedBy'
  BY <1>0, <1>4, <1>5 DEF ReadIsLost, StreamIInv, NothingPassedBy
<1>7. WakeOnItsWay'
  BY <1>0 DEF WakeOnItsWay
<1> QED
  BY <1>1, <1>2, <1>3, <1>6, <1>7 DEF StreamIInv
-----------------------------------------------------------------------------
(* The positions of events, in the order stored *)

LEMMA CountIsBounded ==
  ASSUME NEW n \in Nat, NEW S \in SUBSET (1 .. n)
  PROVE  IsFiniteSet(S) /\ Cardinality(S) \in Nat
<1>1. IsFiniteSet(1 .. n)
  BY FS_Interval
<1>2. IsFiniteSet(S)
  BY <1>1, FS_Subset
<1> QED
  BY <1>2, FS_CardinalityType

\* A set of positions that is not empty has a least and a greatest.
LEMMA LeastOf ==
  ASSUME NEW S \in SUBSET Nat, S # {}
  PROVE  \E m \in S : \A i \in S : m <= i
<1>1. IsWellFoundedOn(OpToRel(<, Nat), Nat)
  BY NatLessThanWellFounded
<1>2. PICK m \in S : \A i \in S : <<i, m>> \notin OpToRel(<, Nat)
  BY <1>1, WFMin, Zenon
<1>3. \A i \in S : ~(i < m)
  BY <1>2 DEF OpToRel
<1> QED
  BY <1>3

LEMMA GreatestOf ==
  ASSUME NEW n \in Nat, NEW S \in SUBSET (1 .. n), S # {}
  PROVE  Newest(S) \in S /\ \A i \in S : i <= Newest(S)
<1> DEFINE Bounds == {b \in Nat : \A i \in S : i <= b}
<1>1. n \in Bounds
  OBVIOUS
<1>2. PICK b \in Bounds : \A c \in Bounds : b <= c
  <2> HIDE DEF Bounds
  <2>1. Bounds \in SUBSET Nat
    BY DEF Bounds
  <2> QED
    BY <1>1, <2>1, LeastOf
<1>3. b \in S
  <2> SUFFICES ASSUME b \notin S PROVE FALSE
    OBVIOUS
  <2>1. b - 1 \in Nat /\ \A i \in S : i <= b - 1
    <3>1. b \in Nat /\ \A i \in S : i \in Nat /\ 1 <= i /\ i <= b /\ i # b
      OBVIOUS
    <3>2. PICK i \in S : TRUE
      OBVIOUS
    <3> HIDE DEF Bounds
    <3> QED
      BY <3>1, <3>2
  <2>2. b - 1 \in Bounds
    BY <2>1
  <2> QED
    BY <1>2, <2>2
<1> QED
  BY <1>2, <1>3 DEF Newest

\* Events up to a later one are more than those up to an earlier one.
LEMMA MoreUpToALater ==
  ASSUME NEW n \in Nat, NEW S \in SUBSET (1 .. n), NEW i \in S, NEW j \in S, i < j
  PROVE  Cardinality({k \in S : k <= i}) < Cardinality({k \in S : k <= j})
<1> DEFINE A == {k \in S : k <= i}
           B == {k \in S : k <= j}
<1>0. \A k \in S : k \in Int
  OBVIOUS
<1>1. A \in SUBSET B /\ A # B /\ B \in SUBSET (1 .. n)
  <2>1. j \in B /\ j \notin A
    BY <1>0
  <2>2. ASSUME NEW k \in A PROVE k \in B
    BY <1>0, <2>2
  <2> QED
    BY <2>1, <2>2
<1> HIDE DEF A, B
<1>2. IsFiniteSet(B)
  BY <1>1, CountIsBounded
<1>3. Cardinality(A) < Cardinality(B)
  <2>1. IsFiniteSet(A) /\ Cardinality(A) <= Cardinality(B) /\ Cardinality(A) # Cardinality(B)
    BY <1>1, <1>2, FS_Subset
  <2>2. Cardinality(A) \in Nat /\ Cardinality(B) \in Nat
    BY <1>2, <2>1, FS_CardinalityType
  <2> QED
    BY <2>1, <2>2
<1> QED
  BY <1>3 DEF A, B

\* For each number up to their count there is an event with as many up to it.
LEMMA EachRankIsTaken ==
  ASSUME NEW n \in Nat, NEW S \in SUBSET (1 .. n)
  PROVE  \A r \in 1 .. Cardinality(S) : \E i \in S : Cardinality({k \in S : k <= i}) = r
<1> DEFINE UpTo(i) == {k \in S : k <= i}
           Bad == {r \in 1 .. Cardinality(S) : ~\E i \in S : Cardinality(UpTo(i)) = r}
<1>1. IsFiniteSet(S) /\ Cardinality(S) \in Nat
  BY CountIsBounded
<1> SUFFICES ASSUME Bad # {} PROVE FALSE
  OBVIOUS
<1>2. Bad \in SUBSET Nat
  BY <1>1
<1>3. PICK r \in Bad : \A q \in Bad : r <= q
  <2> HIDE DEF Bad
  <2> QED
    BY <1>2, LeastOf
<1>4. r \in 1 .. Cardinality(S) /\ ~\E i \in S : Cardinality(UpTo(i)) = r
  OBVIOUS
\* The events up to the one before: none, or up to the event with the rank before.
<1>5. \E B \in SUBSET S : /\ Cardinality(B) = r - 1
                         /\ \A i \in B, j \in S \ B : i < j
  <2>1. CASE r = 1
    <3>1. {} \in SUBSET S /\ Cardinality({}) = 0
      BY FS_EmptySet
    <3> QED
      BY <2>1, <3>1
  <2>2. CASE r # 1
    <3>1. r - 1 \in 1 .. Cardinality(S) /\ r - 1 \notin Bad
      BY <1>1, <1>3, <1>4, <2>2
    <3>2. PICK i \in S : Cardinality(UpTo(i)) = r - 1
      BY <3>1
    <3>3. UpTo(i) \in SUBSET S /\ \A k \in UpTo(i), j \in S \ UpTo(i) : k < j
      OBVIOUS
    <3> QED
      BY <3>2, <3>3
  <2> QED
    BY <2>1, <2>2
<1>6. PICK B \in SUBSET S : Cardinality(B) = r - 1 /\ \A i \in B, j \in S \ B : i < j
  BY <1>5
<1>7. S \ B # {}
  <2> SUFFICES ASSUME S \ B = {} PROVE FALSE
    OBVIOUS
  <2>1. B = S
    OBVIOUS
  <2> QED
    BY <1>1, <1>4, <1>6, <2>1
<1>8. PICK m \in S \ B : \A j \in S \ B : m <= j
  <2>1. S \ B \in SUBSET Nat
    OBVIOUS
  <2> QED
    BY <1>7, <2>1, LeastOf
<1>9. UpTo(m) = B \union {m} /\ m \notin B
  <2>1. \A k \in S : k \in Int
    OBVIOUS
  <2>2. \A k \in S : k <= m <=> k \in B \/ k = m
    BY <1>6, <1>8, <2>1
  <2> QED
    BY <1>8, <2>2
<1>10. Cardinality(B \union {m}) = r
  <2>1. IsFiniteSet(B)
    BY <1>1, FS_Subset
  <2>2. Cardinality(B \union {m}) = Cardinality(B) + 1
    BY <1>9, <2>1, FS_AddElement
  <2> QED
    BY <1>4, <1>6, <2>2
<1> QED
  BY <1>4, <1>8, <1>9, <1>10

\* Positions come in an order that rises and holds each of them (`take` prints
\* what it was answered in the order it was).
LEMMA StoredOrderRises ==
  ASSUME NEW n \in Nat, NEW S \in SUBSET (1 .. n)
  PROVE  /\ InStoredOrder(S) \in Seq(Nat)
         /\ \A k, l \in DOMAIN InStoredOrder(S) : k < l => InStoredOrder(S)[k] < InStoredOrder(S)[l]
         /\ \A k \in DOMAIN InStoredOrder(S) : InStoredOrder(S)[k] \in S
         /\ \A i \in S : \E k \in DOMAIN InStoredOrder(S) : InStoredOrder(S)[k] = i
<1> DEFINE N == Cardinality(S)
           Rises(s) == \A k, l \in DOMAIN s : k < l => s[k] < s[l]
           At(r) == CHOOSE i \in S : Cardinality({k \in S : k <= i}) = r
           w == [r \in 1 .. N |-> At(r)]
<1>0. \A i \in S : i \in Nat
  OBVIOUS
<1>1. IsFiniteSet(S) /\ N \in Nat
  BY CountIsBounded
<1>2. \A r \in 1 .. N : At(r) \in S /\ Cardinality({k \in S : k <= At(r)}) = r
  <2> SUFFICES ASSUME NEW r \in 1 .. N PROVE At(r) \in S /\ Cardinality({k \in S : k <= At(r)}) = r
    OBVIOUS
  <2>1. \E i \in S : Cardinality({k \in S : k <= i}) = r
    BY EachRankIsTaken
  <2> QED
    BY <2>1
<1> HIDE DEF At
<1>3. w \in [1 .. N -> S] /\ Rises(w)
  <2>1. w \in [1 .. N -> S]
    BY <1>2
  <2>2. ASSUME NEW q \in 1 .. N, NEW r \in 1 .. N, q < r PROVE At(q) < At(r)
    <3>0. Cardinality({k \in S : k <= At(q)}) = q /\ Cardinality({k \in S : k <= At(r)}) = r
          /\ At(q) \in S /\ At(r) \in S
      <4> HIDE DEF N
      <4> QED
        BY <1>2
    <3>1. At(q) \in S /\ At(r) \in S /\ At(q) \in Nat /\ At(r) \in Nat
      BY <1>0, <3>0
    <3>2. At(q) # At(r)
      <4> SUFFICES ASSUME At(q) = At(r) PROVE FALSE
        OBVIOUS
      <4>1. q = r
        BY <3>0
      <4> QED
        BY <1>1, <2>2, <4>1
    <3>3. ~(At(r) < At(q))
      <4> SUFFICES ASSUME At(r) < At(q) PROVE FALSE
        OBVIOUS
      <4>1. Cardinality({k \in S : k <= At(r)}) < Cardinality({k \in S : k <= At(q)})
        BY <3>1, MoreUpToALater
      <4> QED
        BY <1>1, <2>2, <3>0, <4>1
    <3> QED
      BY <3>1, <3>2, <3>3
  <2>3. ASSUME NEW q \in DOMAIN w, NEW r \in DOMAIN w, q < r PROVE w[q] < w[r]
    BY <2>2, <2>3
  <2> QED
    BY <2>1, <2>3
<1> DEFINE o == InStoredOrder(S)
<1>4. o \in [1 .. N -> S] /\ Rises(o)
  <2> HIDE DEF w
  <2> QED
    BY <1>3 DEF InStoredOrder
<1> HIDE DEF o, w, N
<1>5. \A k, l \in 1 .. N : k # l => o[k] # o[l]
  <2> SUFFICES ASSUME NEW k \in 1 .. N, NEW l \in 1 .. N, k # l PROVE o[k] # o[l]
    OBVIOUS
  <2>0. o[k] \in S /\ o[l] \in S /\ DOMAIN o = 1 .. N
    BY <1>4
  <2>1. k \in Int /\ l \in Int /\ o[k] \in Int /\ o[l] \in Int /\ DOMAIN o = 1 .. N
    <3>1. k \in Int /\ l \in Int
      BY <1>1
    <3>2. o[k] \in Nat /\ o[l] \in Nat
      BY <1>0, <2>0, Zenon
    <3> QED
      BY <2>0, <3>1, <3>2
  <2>2. k < l \/ l < k
    BY <2>1
  <2> QED
    BY <1>4, <2>1, <2>2
<1>6. \A i \in S : \E k \in 1 .. N : o[k] = i
  <2> DEFINE H == {o[k] : k \in 1 .. N}
  <2>1. H \subseteq S
    BY <1>4
  <2>2. Cardinality(H) = N
    <3>1. o \in Bijection(1 .. N, H)
      BY <1>4, <1>5, Zenon DEF Bijection, Injection, Surjection, IsInjective
    <3>2. IsFiniteSet(1 .. N) /\ Cardinality(1 .. N) = N
      BY <1>1, FS_Interval
    <3>3. ExistsBijection(1 .. N, H)
      BY <3>1 DEF ExistsBijection
    <3> QED
      BY <3>2, <3>3, FS_Bijection
  <2>3. H = S
    <3> HIDE DEF H
    <3> QED
      BY <1>1, <2>1, <2>2, FS_Subset DEF N
  <2> QED
    BY <2>3
<1>7. o \in Seq(Nat) /\ DOMAIN o = 1 .. N
  <2>1. o \in [1 .. N -> Nat]
    BY <1>0, <1>4
  <2> QED
    BY <1>1, <2>1
<1> QED
  BY <1>4, <1>6, <1>7 DEF o
-----------------------------------------------------------------------------
(* A piece of the log examined *)

\* What is taken of what a read finds leaves nothing out before it; and a read
\* that has examined what there is, with nothing to answer, has taken all of it.
LEMMA ExamineTakes ==
  ASSUME StreamIInv, Examine
  PROVE  \E taken \in SUBSET StoredAfter(read.cursor) :
           /\ \A i \in taken : \A j \in StoredAfter(read.cursor) : j <= i => j \in taken
           /\ read' = [read EXCEPT !.passing = read.passing \union {i \in taken : Passes(i)},
                                   !.cursor = IF taken = {} THEN read.cursor ELSE Newest(taken),
                                   !.at = read'.at]
           /\ read'.at \in {"examining", "examined"}
           /\ read'.at = "examined" /\ read'.passing = {} => taken = StoredAfter(read.cursor)
<1> DEFINE found == StoredAfter(read.cursor)
           piece == Leading(Piece, found)
           passing(i) == read.passing \union {j \in piece : j <= i /\ Passes(j)}
           filling == {i \in piece : Cardinality(passing(i)) = Limit}
           taken == {i \in piece : \A f \in filling : i <= f}
<1>1. Len(log) \in Nat /\ found \in SUBSET (1 .. Len(log)) /\ \A i \in found : i \in Nat
  BY DEF StreamIInv, StreamTypes, Reads, StoredAfter
<1>2. Piece \in Nat /\ Limit \in Nat /\ Limit # 0
  BY StreamConstants
<1>3. /\ read.at = "examining"
      /\ read' = [read EXCEPT !.passing = read.passing \union {i \in taken : Passes(i)},
                              !.cursor = IF taken = {} THEN read.cursor ELSE Newest(taken),
                              !.at = IF filling # {} \/ Cardinality(found) < Piece THEN "examined" ELSE @]
  BY DEF Examine
<1>4. \A i \in piece : \A j \in found : j <= i => j \in piece
  <2> SUFFICES ASSUME NEW i \in piece, NEW j \in found, j <= i PROVE j \in piece
    OBVIOUS
  <2> DEFINE UpTo(k) == {l \in found : l <= k}
  <2>1. i \in found /\ Cardinality(UpTo(i)) <= Piece
    BY DEF Leading
  <2>2. Cardinality(UpTo(j)) <= Cardinality(UpTo(i))
    <3> HIDE DEF found, piece
    <3>0. UpTo(i) \in SUBSET (1 .. Len(log))
      BY <1>1
    <3>1. Cardinality(UpTo(i)) \in Nat
      BY <1>1, <3>0, CountIsBounded
    <3>2. CASE i = j
      BY <3>1, <3>2
    <3>3. CASE i # j
      <4>0. j < i
        BY <1>1, <2>1, <3>3
      <4>1. Cardinality(UpTo(j)) < Cardinality(UpTo(i))
        BY <1>1, <2>1, <4>0, MoreUpToALater
      <4>2. UpTo(j) \in SUBSET (1 .. Len(log))
        BY <1>1
      <4>3. Cardinality(UpTo(j)) \in Nat
        BY <1>1, <4>2, CountIsBounded
      <4> QED
        BY <3>1, <4>1, <4>3
    <3> QED
      BY <3>2, <3>3
  <2>3. Cardinality(UpTo(j)) \in Nat /\ Cardinality(UpTo(i)) \in Nat
    <3> HIDE DEF found, piece
    <3>1. UpTo(i) \in SUBSET (1 .. Len(log)) /\ UpTo(j) \in SUBSET (1 .. Len(log))
      BY <1>1
    <3> QED
      BY <1>1, <3>1, CountIsBounded
  <2>4. Cardinality(UpTo(j)) <= Piece
    <3> HIDE DEF UpTo
    <3> QED
      BY <1>2, <2>1, <2>2, <2>3
  <2> QED
    BY <2>4 DEF Leading
<1>5. piece \in SUBSET found /\ taken \in SUBSET piece /\ filling \in SUBSET piece
  BY DEF Leading
<1>6. Cardinality(found) < Piece => piece = found
  <2> SUFFICES ASSUME Cardinality(found) < Piece, NEW i \in found PROVE i \in piece
    BY <1>5
  <2> DEFINE U == {l \in found : l <= i}
  <2>1. Cardinality(U) <= Piece
    <3> HIDE DEF found, piece
    <3>1. U \in SUBSET found
      OBVIOUS
    <3> HIDE DEF U
    <3>2. IsFiniteSet(found) /\ Cardinality(found) \in Nat
      BY <1>1, CountIsBounded
    <3>3. IsFiniteSet(U) /\ Cardinality(U) <= Cardinality(found)
      BY <3>1, <3>2, FS_Subset
    <3>4. Cardinality(U) \in Nat
      BY <3>3, FS_CardinalityType
    <3> QED
      BY <1>2, <3>2, <3>3, <3>4
  <2> QED
    BY <2>1 DEF Leading
<1>7. filling # {} => read.passing \union {i \in taken : Passes(i)} # {}
  <2> SUFFICES ASSUME filling # {}, read.passing = {} PROVE {i \in taken : Passes(i)} # {}
    OBVIOUS
  <2>1. filling \in SUBSET Nat
    BY <1>1, <1>5
  <2>2. PICK m \in filling : \A f \in filling : m <= f
    <3> HIDE DEF filling
    <3> QED
      BY <2>1, LeastOf
  <2>3. Cardinality(passing(m)) = Limit
    OBVIOUS
  <2>4. passing(m) # {}
    <3> HIDE DEF passing
    <3> QED
      BY <1>2, <2>3, FS_EmptySet
  <2>5. PICK j \in piece : j <= m /\ Passes(j)
    BY <2>4
  <2>6. \A f \in filling : j <= f
    <3> HIDE DEF filling, piece, found
    <3>1. \A f \in filling : f \in Nat
      BY <2>1
    <3>2. j \in Nat
      BY <1>1, <1>5
    <3> QED
      BY <2>1, <2>2, <2>5, <3>1, <3>2
  <2> QED
    BY <2>5, <2>6
<1>8. \A i \in taken : \A j \in found : j <= i => j \in taken
  <2> SUFFICES ASSUME NEW i \in taken, NEW j \in found, j <= i PROVE j \in taken
    OBVIOUS
  <2>1. j \in piece
    BY <1>4, <1>5
  <2>2. \A f \in filling : i <= f
    OBVIOUS
  <2>3. \A f \in filling : j <= f
    <3> HIDE DEF filling, piece, found, taken
    <3>1. \A f \in filling : f \in Nat
      BY <1>1, <1>5
    <3>2. i \in Nat /\ j \in Nat
      BY <1>1, <1>5
    <3> QED
      BY <2>2, <3>1, <3>2
  <2> QED
    BY <2>1, <2>3
<1>9. filling = {} => taken = piece
  OBVIOUS
<1> HIDE DEF found, piece, passing, filling, taken
<1>10. read.at = "examining" /\ read \in Reads
  BY <1>3 DEF StreamIInv, StreamTypes, Reads
<1>11. read'.at \in {"examining", "examined"}
  BY <1>3, <1>10
<1>12. read'.passing = read.passing \union {i \in taken : Passes(i)}
  BY <1>3, <1>10
<1>13. read'.at = "examined" /\ read'.passing = {} => taken = found
  BY <1>3, <1>6, <1>7, <1>9, <1>10, <1>12
<1>14. taken \in SUBSET found
  BY <1>5
<1>15. read' = [read EXCEPT !.passing = read.passing \union {i \in taken : Passes(i)},
                           !.cursor = IF taken = {} THEN read.cursor ELSE Newest(taken),
                           !.at = read'.at]
  BY <1>3, <1>10
<1> QED
  BY <1>8, <1>11, <1>13, <1>14, <1>15 DEF found
LEMMA ReadExamines == StreamIInv /\ Examine => StreamIInv'
<1> SUFFICES ASSUME StreamIInv, Examine PROVE StreamIInv'
  OBVIOUS
<1> USE DEF asked, excuses
<1> DEFINE found == StoredAfter(read.cursor)
<1>0. PICK taken \in SUBSET found :
        /\ \A i \in taken : \A j \in found : j <= i => j \in taken
        /\ read' = [read EXCEPT !.passing = read.passing \union {i \in taken : Passes(i)},
                                !.cursor = IF taken = {} THEN read.cursor ELSE Newest(taken),
                                !.at = read'.at]
        /\ read'.at \in {"examining", "examined"}
        /\ read'.at = "examined" /\ read'.passing = {} => taken = found
  BY ExamineTakes
<1>1. /\ UNCHANGED <<log, raising, unseen, scoped, after, watch, cursor, told, printed, late, lost, first,
                     overtaken, blind, outrun>>
      /\ read.at = "examining" /\ watch = "reading"
  BY DEF Examine, StreamIInv, ReadOfTheWatch
<1>2. /\ Len(log) \in Nat /\ DOMAIN log = 1 .. Len(log) /\ found \in SUBSET (1 .. Len(log))
      /\ read.cursor \in Nat /\ read.cursor <= Len(log) /\ cursor \in Nat /\ after \in Nat
      /\ read \in Reads
      /\ scoped \in BOOLEAN
  BY DEF StreamIInv, StreamTypes, Reads, Positions, StoredAfter
<1>3. \A i \in found : i \in Nat /\ read.cursor < i
  BY <1>2 DEF StoredAfter, IsAfter, Nowhere
<1>4. taken # {} => Newest(taken) \in taken /\ \A i \in taken : i <= Newest(taken)
  BY <1>0, <1>2, GreatestOf
<1> HIDE DEF found
<1>5. /\ read'.passing = read.passing \union {i \in taken : Passes(i)}
      /\ read'.cursor = IF taken = {} THEN read.cursor ELSE Newest(taken)
      /\ read'.ended = read.ended /\ read'.at \in {"examining", "examined"}
  BY <1>0, <1>2 DEF Reads
<1>6. /\ read'.cursor \in Nat /\ read.cursor <= read'.cursor /\ read'.cursor <= Len(log)
      /\ \A i \in taken : i \in Nat /\ read.cursor < i /\ i <= read'.cursor
      /\ \A i \in found : i <= read'.cursor => i \in taken
  <2>1. CASE taken = {}
    BY <1>2, <1>3, <1>5, <2>1
  <2>2. CASE taken # {}
    <3>1. read'.cursor \in taken /\ read'.cursor = Newest(taken)
      BY <1>4, <1>5, <2>2
    <3> QED
      BY <1>0, <1>2, <1>3, <1>4, <3>1
  <2> QED
    BY <2>1, <2>2
<1>7. read' \in Reads
  <2>1. read'.passing \in SUBSET Nat
    BY <1>2, <1>5, <1>6 DEF Reads
  <2>2. read' = [at |-> read'.at, cursor |-> read'.cursor, passing |-> read'.passing, ended |-> read.ended]
    BY <1>0, <1>2 DEF Reads
  <2> QED
    BY <1>2, <1>5, <1>6, <2>1, <2>2 DEF Reads
<1>8. StreamTypes'
  BY <1>1, <1>7 DEF StreamIInv, StreamTypes, Reads
<1>9. Positions'
  BY <1>1, <1>5, <1>6 DEF StreamIInv, Positions, Ended
<1>10. ReadOfTheWatch'
  <2>1. cursor <= read'.cursor
    BY <1>1, <1>2, <1>6 DEF StreamIInv, ReadOfTheWatch
  <2>2. \A i \in read'.passing : cursor < i /\ i <= read'.cursor
    <3>1. \A i \in read.passing : i \in Nat /\ cursor < i /\ i <= read.cursor
      BY <1>2 DEF StreamIInv, ReadOfTheWatch, Reads
    <3>2. cursor <= read.cursor
      BY <1>1 DEF StreamIInv, ReadOfTheWatch
    <3> QED
      <4> SUFFICES ASSUME NEW i \in read'.passing PROVE cursor < i /\ i <= read'.cursor
        OBVIOUS
      <4>1. CASE i \in read.passing
        BY <1>2, <1>6, <3>1, <4>1
      <4>2. CASE i \in taken
        BY <1>2, <1>6, <3>2, <4>2
      <4> QED
        BY <1>5, <4>1, <4>2
  <2> QED
    BY <1>1, <1>5, <2>1, <2>2 DEF StreamIInv, ReadOfTheWatch
<1>11. NotStarted' /\ PrintedInOrder'
  BY <1>1, <1>5 DEF StreamIInv, NotStarted, PrintedInOrder
<1>12. Owed' = Owed /\ TheEnd' = TheEnd /\ Ended' = Ended /\ \A i : IsPrinted(i)' = IsPrinted(i)
  BY <1>1 DEF Owed, TheEnd, Ended, IsPrinted, InScope, Passes
<1>13. NothingPassedBy'
  <2> SUFFICES ASSUME ~overtaken /\ ~blind /\ ~outrun PROVE NothingPassedBy'
    BY <1>1 DEF NothingPassedBy
  <2>1. \A i \in Owed : i \in DOMAIN log /\ InScope(i) /\ Passes(i)
    BY DEF Owed
  <2>2. ASSUME NEW i \in Owed, i <= read'.cursor PROVE IsPrinted(i) \/ i \in read'.passing
    <3>0. i \in Nat /\ i >= 1
      BY <1>2, <2>1
    <3>1. CASE i <= read.cursor
      BY <1>1, <1>5, <3>1 DEF StreamIInv, NothingPassedBy
    <3>2. CASE read.cursor < i
      <4>1. IsAfter(read.cursor, i)
        <5>1. CASE read.cursor # Nowhere
          BY <3>2, <5>1 DEF IsAfter
        <5>2. CASE read.cursor = Nowhere
          <6>1. after = Nowhere
            BY <1>1, <1>2, <5>2 DEF StreamIInv, ReadOfTheWatch, Nowhere
          <6>2. scoped => \E j \in 1 .. i : log[j] \in Own
            BY <6>1 DEF Owed
          <6> QED
            BY <5>2, <6>2 DEF IsAfter
        <5> QED
          BY <5>1, <5>2
      <4>2. i \in found
        BY <2>1, <4>1 DEF found, StoredAfter
      <4>3. i \in taken
        BY <1>6, <2>2, <4>2
      <4> QED
        BY <1>5, <2>1, <4>3
    <3> QED
      BY <1>2, <3>0, <3>1, <3>2
  <2> QED
    BY <1>1, <1>5, <1>12, <2>2 DEF StreamIInv, NothingPassedBy
<1>14. WakeOnItsWay'
  <2> SUFFICES ASSUME read'.at = "examined", read'.passing = {}, NEW i \in StoredAfter(read.cursor)'
               PROVE  ~Passes(i)
    BY <1>1, <1>5 DEF WakeOnItsWay, Passes
  <2>1. taken = found /\ \A j \in found : ~Passes(j)
    BY <1>0, <1>5
  <2>2. i \in DOMAIN log /\ InScope(i) /\ IsAfter(read'.cursor, i)
    BY <1>1 DEF StoredAfter, InScope, IsAfter
  <2>3. i \in Nat /\ i >= 1
    BY <1>2, <2>2
  <2>4. CASE taken = {}
    BY <1>5, <2>1, <2>2, <2>4 DEF found, StoredAfter
  <2>5. CASE taken # {}
    <3>1. read'.cursor \in found /\ read.cursor < read'.cursor
      BY <1>3, <1>4, <1>5, <2>1, <2>5
    <3>2. i > read'.cursor
      BY <1>2, <2>2, <3>1 DEF IsAfter, Nowhere
    <3>3. IsAfter(read.cursor, read'.cursor)
      BY <3>1 DEF found, StoredAfter
    <3>4. IsAfter(read.cursor, i)
      <4>1. CASE read.cursor # Nowhere
        BY <1>2, <1>6, <2>3, <3>1, <3>2, <4>1 DEF IsAfter
      <4>2. CASE read.cursor = Nowhere
        <5>1. scoped => \E j \in 1 .. read'.cursor : log[j] \in Own
          BY <3>3, <4>2 DEF IsAfter
        <5>2. \A j \in 1 .. read'.cursor : j \in 1 .. i
          BY <1>6, <2>3, <3>2
        <5> QED
          BY <4>2, <5>1, <5>2 DEF IsAfter
      <4> QED
        BY <4>1, <4>2
    <3>5. i \in found
      BY <2>2, <3>4 DEF found, StoredAfter
    <3> QED
      BY <2>1, <3>5
  <2> QED
    BY <2>4, <2>5
<1> QED
  BY <1>8, <1>9, <1>10, <1>11, <1>13, <1>14 DEF StreamIInv
-----------------------------------------------------------------------------
\* An answer taken is printed in its order after what was printed before, as far
\* as the print's end; the end then ends the watch.
LEMMA WatchTakesAnswer == StreamIInv /\ TakesAnswer => StreamIInv'
<1> SUFFICES ASSUME StreamIInv, TakesAnswer PROVE StreamIInv'
  OBVIOUS
<1> USE DEF asked
<1> DEFINE shown == Shown(read.passing)
           o == InStoredOrder(shown)
           L == Len(printed)
<1>1. /\ watch = "reading" /\ read.at = "answered" /\ printed' = printed \o o
      /\ told' = (told \/ read.ended) /\ cursor' = (IF read.cursor = Nowhere THEN cursor ELSE read.cursor)
      /\ blind' = (blind \/ (cursor' = Nowhere /\ ~scoped))
      /\ watch' = (IF EndsWith THEN "print_ended" ELSE "asking")
      /\ read' = NoRead
      /\ UNCHANGED <<log, raising, unseen, scoped, after, lost, first, overtaken, outrun>> /\ late' = FALSE
  BY DEF TakesAnswer
<1>2. /\ Len(log) \in Nat /\ DOMAIN log = 1 .. Len(log) /\ printed \in Seq(Nat) /\ L \in Nat
      /\ DOMAIN printed = 1 .. L
      /\ cursor \in Nat /\ read.cursor \in Nat /\ read.passing \in SUBSET Nat /\ after \in Nat
      /\ cursor <= read.cursor /\ read.cursor <= Len(log) /\ after <= cursor
      /\ scoped \in BOOLEAN /\ blind \in BOOLEAN /\ told \in BOOLEAN /\ read.ended \in BOOLEAN
  BY <1>1 DEF StreamIInv, StreamTypes, Reads, Positions, ReadOfTheWatch
<1>3. \A i \in read.passing : i \in 1 .. Len(log) /\ cursor < i /\ i <= read.cursor /\ i \in Nat
  BY <1>2 DEF StreamIInv, ReadOfTheWatch
<1>4. cursor' = read.cursor
  BY <1>1, <1>2 DEF Nowhere
<1>5. shown \in SUBSET read.passing /\ shown \in SUBSET (1 .. Len(log))
  BY <1>3 DEF Shown
<1>6. /\ o \in Seq(Nat)
      /\ \A k, l \in DOMAIN o : k < l => o[k] < o[l]
      /\ \A k \in DOMAIN o : o[k] \in shown
      /\ \A i \in shown : \E k \in DOMAIN o : o[k] = i
  <2>1. ASSUME NEW S \in SUBSET (1 .. Len(log))
        PROVE  /\ InStoredOrder(S) \in Seq(Nat)
               /\ \A k, l \in DOMAIN InStoredOrder(S) : k < l => InStoredOrder(S)[k] < InStoredOrder(S)[l]
               /\ \A k \in DOMAIN InStoredOrder(S) : InStoredOrder(S)[k] \in S
               /\ \A i \in S : \E k \in DOMAIN InStoredOrder(S) : InStoredOrder(S)[k] = i
    <3>1. Len(log) \in Nat
      BY <1>2
    <3> HIDE DEF L, o
    <3> QED
      BY <3>1, <2>1, StoredOrderRises, Zenon
  <2> HIDE DEF shown
  <2> QED
    BY <1>5, <2>1
<1> HIDE DEF o, L, shown
<1>7. Len(o) \in Nat /\ DOMAIN o = 1 .. Len(o)
  BY <1>6
<1>8. /\ printed' \in Seq(Nat) /\ Len(printed') = L + Len(o) /\ DOMAIN printed' = 1 .. L + Len(o)
      /\ \A k \in 1 .. L : printed'[k] = printed[k]
      /\ \A k \in DOMAIN printed' : k > L => k - L \in DOMAIN o /\ printed'[k] = o[k - L]
      /\ \A k \in DOMAIN o : L + k \in DOMAIN printed' /\ printed'[L + k] = o[k]
  <2>1. printed' \in Seq(Nat) /\ Len(printed') = L + Len(o) /\ DOMAIN printed' = 1 .. L + Len(o)
    BY <1>1, <1>2, <1>6, <1>7 DEF L
  <2>2. ASSUME NEW k \in 1 .. L PROVE printed'[k] = printed[k]
    BY <1>1, <1>2, <1>6, <1>7, <2>2 DEF L
  <2>3. ASSUME NEW k \in DOMAIN printed', k > L PROVE k - L \in DOMAIN o /\ printed'[k] = o[k - L]
    <3>1. k \in 1 .. L + Len(o) /\ k \in Int /\ L \in Int /\ Len(o) \in Int
      BY <1>2, <1>7, <2>1
    <3>2. k - L \in DOMAIN o
      BY <1>7, <2>3, <3>1
    <3>3. printed'[k] = o[k - L]
      BY <1>1, <1>2, <1>6, <2>3, <3>1 DEF L
    <3> QED
      BY <3>2, <3>3
  <2>4. ASSUME NEW k \in DOMAIN o PROVE L + k \in DOMAIN printed' /\ printed'[L + k] = o[k]
    <3>1. k \in Int /\ 1 <= k /\ k <= Len(o) /\ L \in Nat /\ Len(o) \in Nat
      BY <1>2, <1>7, <2>4
    <3>2. L + k \in 1 .. L + Len(o) /\ L + k > L /\ (L + k) - L = k
      BY <3>1
    <3> QED
      BY <2>1, <2>3, <3>2
  <2> QED
    BY <2>1, <2>2, <2>3, <2>4
<1>21. \A k \in DOMAIN printed' : k \in Int /\ 1 <= k /\ k <= L + Len(o)
  BY <1>2, <1>7, <1>8
<1>9. /\ read'.at = "none" /\ read'.cursor = 0 /\ read'.passing = {} /\ read'.ended = FALSE
      /\ read' \in Reads
  BY <1>1 DEF NoRead, Nowhere, Reads
<1>10. StreamTypes'
  <2>1. watch' \in {"new", "asking", "reading", "failed", "print_ended", "unreachable"}
    BY <1>1
  <2>2. told' \in BOOLEAN /\ blind' \in BOOLEAN /\ cursor' \in Nat
    BY <1>1, <1>2, <1>4
  <2> QED
    BY <1>1, <1>8, <1>9, <2>1, <2>2 DEF StreamIInv, StreamTypes, Reads
<1>11. Positions'
  BY <1>1, <1>2, <1>4, <1>9 DEF StreamIInv, Positions, Ended
<1>12. ReadOfTheWatch' /\ NotStarted'
  <2>1. watch' \in {"asking", "print_ended"}
    BY <1>1
  <2>2. ReadOfTheWatch'
    BY <1>1, <1>2, <1>4, <1>9, <2>1 DEF ReadOfTheWatch
  <2>3. NotStarted'
    BY <1>1 DEF NotStarted
  <2> QED
    BY <2>2, <2>3
<1>13. \A i, j \in DOMAIN log : log[i] = "end" /\ log[j] = "end" => i = j
  BY DEF StreamIInv, Positions
<1>14. \A k \in DOMAIN printed : /\ printed[k] \in DOMAIN log /\ printed[k] \in Nat /\ printed[k] <= cursor
                                /\ (scoped => log[printed[k]] # "end")
  BY <1>1, <1>2 DEF StreamIInv, PrintedInOrder
<1>15. PrintedInOrder'
  <2>1. ASSUME NEW k \in DOMAIN printed', NEW l \in DOMAIN printed', k < l
        PROVE  printed'[k] < printed'[l]
    <3>0. k \in Int /\ l \in Int /\ 1 <= k /\ 1 <= l /\ L \in Int
      BY <1>2, <1>21
    <3>1. CASE l <= L
      <4>1. k \in 1 .. L /\ l \in 1 .. L
        BY <2>1, <3>0, <3>1
      <4> QED
        BY <1>2, <1>8, <2>1, <4>1 DEF StreamIInv, PrintedInOrder
    <3>2. CASE k <= L /\ l > L
      <4>1. printed'[k] = printed[k] /\ printed[k] <= cursor /\ printed[k] \in Nat
        <5>1. k \in 1 .. L
          BY <3>0, <3>2
        <5> QED
          BY <1>2, <1>8, <1>14, <5>1
      <4>2. printed'[l] \in shown
        BY <1>6, <1>8, <3>2
      <4>3. printed'[l] \in Nat /\ cursor < printed'[l]
        BY <1>3, <1>5, <4>2
      <4> QED
        BY <1>2, <4>1, <4>3
    <3>3. CASE k > L
      <4>1. l > L /\ k - L < l - L
        BY <2>1, <3>0, <3>3
      <4>2. k - L \in DOMAIN o /\ printed'[k] = o[k - L] /\ l - L \in DOMAIN o /\ printed'[l] = o[l - L]
        BY <1>8, <3>3, <4>1
      <4> QED
        BY <1>6, <4>1, <4>2
    <3> QED
      BY <3>0, <3>1, <3>2, <3>3
  <2>2. ASSUME NEW k \in DOMAIN printed'
        PROVE  /\ printed'[k] \in DOMAIN log'
               /\ scoped' /\ after' = Nowhere /\ log'[printed'[k]] = "end" => k = Len(printed')
               /\ watch' # "print_ended" => printed'[k] <= cursor' /\ (scoped' => log'[printed'[k]] # "end")
    <3>1. CASE k <= L
      <4>1. printed'[k] = printed[k] /\ k \in 1 .. L
        BY <1>8, <1>21, <3>1
      <4>2. printed[k] \in DOMAIN log /\ printed[k] \in Nat /\ printed[k] <= cursor
            /\ (scoped => log[printed[k]] # "end")
        BY <1>2, <1>14, <4>1
      <4>3. printed[k] <= cursor'
        BY <1>2, <1>4, <4>2
      <4> QED
        BY <1>1, <4>1, <4>2, <4>3
    <3>2. CASE k > L
      <4>1. printed'[k] \in shown /\ printed'[k] \in read.passing /\ k - L \in DOMAIN o /\ printed'[k] = o[k - L]
        BY <1>5, <1>6, <1>8, <3>2
      <4>2. printed'[k] \in DOMAIN log /\ printed'[k] <= read.cursor /\ printed'[k] \in Nat
        BY <1>2, <1>3, <4>1
      <4>3. ASSUME scoped, log[printed'[k]] = "end" PROVE k = Len(printed') /\ watch' = "print_ended"
        <5>1. EndIsIn(read.passing)
          BY <4>1, <4>3 DEF EndIsIn
        <5>2. watch' = "print_ended"
          BY <1>1, <5>1 DEF EndsWith
        <5>3. \A i \in shown : i <= printed'[k]
          BY <1>2, <1>3, <1>13, <4>1, <4>2, <4>3, <5>1 DEF shown, Shown
        <5>4. ~(k < L + Len(o))
          <6> SUFFICES ASSUME k < L + Len(o) PROVE FALSE
            OBVIOUS
          <6>1. k - L + 1 \in DOMAIN o /\ k - L < k - L + 1
            BY <1>2, <1>7, <1>21, <3>2
          <6>2. o[k - L] < o[k - L + 1] /\ o[k - L + 1] \in shown /\ o[k - L + 1] \in Nat
            BY <1>3, <1>5, <1>6, <4>1, <6>1
          <6> QED
            BY <4>1, <4>2, <5>3, <6>2
        <5> QED
          BY <1>2, <1>7, <1>8, <5>2, <5>4
      <4> QED
        BY <1>1, <1>4, <4>2, <4>3
    <3> QED
      BY <1>2, <1>7, <1>8, <3>1, <3>2
  <2> QED
    BY <2>1, <2>2 DEF PrintedInOrder
<1>16. ASSUME NEW i PROVE IsPrinted(i)' <=> IsPrinted(i) \/ i \in shown
  <2>1. IsPrinted(i) => IsPrinted(i)'
    <3> SUFFICES ASSUME NEW k \in DOMAIN printed, printed[k] = i PROVE IsPrinted(i)'
      BY DEF IsPrinted
    <3>1. k \in DOMAIN printed' /\ printed'[k] = i
      BY <1>2, <1>7, <1>8
    <3> QED
      BY <3>1 DEF IsPrinted
  <2>2. i \in shown => IsPrinted(i)'
    BY <1>6, <1>8 DEF IsPrinted
  <2>3. IsPrinted(i)' => IsPrinted(i) \/ i \in shown
    <3> SUFFICES ASSUME NEW k \in DOMAIN printed', printed'[k] = i PROVE IsPrinted(i) \/ i \in shown
      BY DEF IsPrinted
    <3>1. CASE k <= L
      BY <1>2, <1>7, <1>8, <3>1 DEF IsPrinted
    <3>2. CASE k > L
      BY <1>6, <1>8, <3>2
    <3> QED
      BY <1>2, <1>7, <1>8, <3>1, <3>2
  <2> QED
    BY <2>1, <2>2, <2>3
<1>17. Owed' = Owed /\ TheEnd' = TheEnd /\ Ended' = Ended
  BY <1>1 DEF Owed, TheEnd, Ended, InScope, Passes
<1>18. \A i \in Owed : i \in DOMAIN log /\ i \in Nat
  BY <1>2 DEF Owed
<1>19. NothingPassedBy'
  <2> SUFFICES ASSUME ~overtaken', ~blind', ~outrun' PROVE NothingPassedBy'
    BY DEF NothingPassedBy
  <2>0. ~overtaken /\ ~blind /\ ~outrun
    BY <1>1
  <2>1. \A i \in Owed : i <= read.cursor => IsPrinted(i) \/ i \in read.passing
    BY <1>1, <2>0 DEF StreamIInv, NothingPassedBy
  <2>2. ASSUME watch' = "asking" PROVE \A i \in Owed : i <= read.cursor => IsPrinted(i) \/ i \in shown
    <3>1. ~EndIsIn(read.passing)
      BY <1>1, <2>2 DEF EndsWith
    <3>2. shown = read.passing
      BY <3>1 DEF shown, Shown
    <3> QED
      BY <2>1, <3>2
  <2>3. ASSUME watch' = "print_ended"
        PROVE  Ended /\ \A i \in Owed : i <= TheEnd => IsPrinted(i) \/ i \in shown
    <3>1. EndsWith
      BY <1>1, <2>3
    <3>2. CASE EndIsIn(read.passing)
      <4>1. PICK e \in read.passing : log[e] = "end"
        BY <3>2 DEF EndIsIn
      <4>2. e \in DOMAIN log /\ e <= read.cursor /\ e \in Nat
        BY <1>2, <1>3
      <4>3. Ended /\ TheEnd = e
        BY <1>13, <4>1, <4>2 DEF Ended, TheEnd
      <4>4. \A i \in read.passing : i <= e => i \in shown
        BY <4>1 DEF shown, Shown
      <4> QED
        BY <1>2, <1>18, <2>1, <4>2, <4>3, <4>4
    <3>3. CASE ~EndIsIn(read.passing)
      <4>1. (told \/ read.ended) /\ read.passing = {}
        BY <3>1, <3>3 DEF EndsWith
      <4>2. PICK e \in DOMAIN log : log[e] = "end" /\ e <= read.cursor
        BY <1>1, <2>0, <4>1 DEF StreamIInv, NothingPassedBy
      <4>3. Ended /\ TheEnd = e /\ e \in Nat
        BY <1>2, <1>13, <4>2 DEF Ended, TheEnd
      <4> QED
        BY <1>2, <1>18, <2>1, <4>1, <4>2, <4>3
    <3> QED
      BY <3>2, <3>3
  <2> QED
    BY <1>1, <1>4, <1>9, <1>16, <1>17, <2>2, <2>3 DEF NothingPassedBy
<1>20. WakeOnItsWay'
  BY <1>9 DEF WakeOnItsWay
<1> QED
  BY <1>10, <1>11, <1>12, <1>15, <1>19, <1>20 DEF StreamIInv

LEMMA StreamIsKept == StreamIInv /\ [StreamNext]_stream => StreamIInv'
<1> SUFFICES ASSUME StreamIInv, [StreamNext]_stream PROVE StreamIInv'
  OBVIOUS
<1>1. CASE UNCHANGED stream
  <2> USE <1>1 DEF stream, asked
  <2>1. StreamTypes' /\ Positions' /\ ReadOfTheWatch' /\ NotStarted' /\ PrintedInOrder'
    BY DEF StreamIInv, StreamTypes, Reads, Positions, ReadOfTheWatch, NotStarted, PrintedInOrder, Ended
  <2>2. Owed' = Owed /\ TheEnd' = TheEnd /\ Ended' = Ended /\ \A i : IsPrinted(i)' = IsPrinted(i)
    BY DEF Owed, TheEnd, Ended, IsPrinted, InScope, Passes
  <2>3. NothingPassedBy'
    BY <2>2 DEF StreamIInv, NothingPassedBy
  <2>4. WakeOnItsWay'
    BY DEF StreamIInv, WakeOnItsWay, StoredAfter, IsAfter, InScope, Passes
  <2> QED
    BY <2>1, <2>3, <2>4 DEF StreamIInv
<1>2. CASE StreamNext
  BY <1>2, EventIsStored, SignalIsRaised, ReadStarts, ReadStartsAtNewest, ReadMarksSeen, ReadExamines,
     ReadAnswersOrWaits, ReadWakes, ReadTellsEnd, TimePasses, WatchIsBegun, WatchAsks, WatchTakesAnswer,
     WatchRetriesOrGivesUp, AnswerIsLost DEF StreamNext, Serve, Follow
<1> QED
  BY <1>1, <1>2

LEMMA NothingIsPassedBy == StreamIInv => StreamInv
<1> SUFFICES ASSUME StreamIInv PROVE StreamInv
  OBVIOUS
<1>1. Len(printed) \in Nat /\ DOMAIN printed = 1 .. Len(printed)
  BY DEF StreamIInv, StreamTypes, Reads
<1>2. \A k \in 1 .. Len(printed) - 1 : printed[k] < printed[k + 1]
  BY <1>1 DEF StreamIInv, PrintedInOrder
<1>3. ~overtaken /\ ~blind /\ ~outrun /\ watch \in {"asking", "print_ended"} =>
        PrintedTo(IF watch = "asking" THEN cursor ELSE TheEnd)
  BY DEF StreamIInv, NothingPassedBy, PrintedTo, IsPrinted
<1>4. scoped /\ after = Nowhere => \A k \in DOMAIN printed : log[printed[k]] = "end" => k = Len(printed)
  BY DEF StreamIInv, PrintedInOrder
<1>5. NoMissedWake
  BY DEF StreamIInv, ReadOfTheWatch, WakeOnItsWay, NoMissedWake
<1> QED
  BY <1>2, <1>3, <1>4, <1>5 DEF StreamInv, NothingSkipped

\* The inductive invariant holds of every behaviour: between the watch's cursor
\* and its read's, what is owed is in the answer (events.rs, `follow` and
\* `examine`; the command's watch.rs, `take`).
THEOREM StreamInvariance == StreamSpec => []StreamIInv
<1> QED
  BY StreamStarts, StreamIsKept, PTL DEF StreamSpec

\* A watch prints what it owes up to its cursor, once and in the order stored,
\* and a read that waits is woken for what it has not examined (events.rs: "an
\* event stored between the read and the wait is one the wait wakes for").
THEOREM NoEventIsPassedBy == StreamSpec => []StreamInv
<1> QED
  BY StreamInvariance, NothingIsPassedBy, PTL
=============================================================================
