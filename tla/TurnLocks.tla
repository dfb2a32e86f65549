----------------------------- MODULE TurnLocks -----------------------------
(***************************************************************************)
(* The asynchronous per-print lock of printobserver-core/src/turn_lock.rs, *)
(* the one lock type behind the supervisor's `turns`, `resolving`,         *)
(* `expiring` and `spool_writes`.                                          *)
(*                                                                         *)
(* A queue is a flag and the wakers registered since the flag was last     *)
(* cleared.  Each of the code's critical sections under the std mutex      *)
(* (`poll`, `try_acquire`, the first half of `release`) is one action; the *)
(* wakes, which happen after that mutex is released, are actions of their  *)
(* own, so polls and new acquisitions interleave with them.                *)
(*                                                                         *)
(* `waiting` is a Vec of wakers in the code.  Every release takes all of   *)
(* them and wakes all of them, and waking a task twice is waking it once,  *)
(* so a set says the same.                                                 *)
(***************************************************************************)
CONSTANTS Callers,  \* the tasks that acquire turns
          Prints    \* the prints there is a queue for

VARIABLES
  held,     \* held[p]: Queue.held
  waiting,  \* waiting[p]: Queue.waiting, the callers whose waker is registered
  pc,       \* where each caller is
  about,    \* about[c]: the print c's Acquire or TurnGuard names
  woken     \* woken[c]: the wakers c's release took and has not woken yet

vars == <<held, waiting, pc, about, woken>>

Where == {"out",      \* holds nothing and wants nothing
          "polling",  \* its Acquire is about to be polled
          "parked",   \* its Acquire answered Pending
          "holding",  \* it has a TurnGuard
          "waking"}   \* its guard was dropped and it is waking the others

TypeOK ==
  /\ held \in [Prints -> BOOLEAN]
  /\ waiting \in [Prints -> SUBSET Callers]
  /\ pc \in [Callers -> Where]
  /\ about \in [Callers -> Prints]
  /\ woken \in [Callers -> SUBSET Callers]

Init ==
  /\ held = [p \in Prints |-> FALSE]
  /\ waiting = [p \in Prints |-> {}]
  /\ pc = [c \in Callers |-> "out"]
  /\ about \in [Callers -> Prints]
  /\ woken = [c \in Callers |-> {}]

-----------------------------------------------------------------------------
\* `acquire` makes a future that has yet to be polled.
Acquire(c, p) ==
  /\ pc[c] = "out"
  /\ pc' = [pc EXCEPT ![c] = "polling"]
  /\ about' = [about EXCEPT ![c] = p]
  /\ UNCHANGED <<held, waiting, woken>>

\* MUTANT of PollReady: `poll` takes the queue without looking at its flag.
PollReadyUnchecked(c) ==
  /\ pc[c] = "polling"
  /\ held' = [held EXCEPT ![about[c]] = TRUE]
  /\ pc' = [pc EXCEPT ![c] = "holding"]
  /\ UNCHANGED <<waiting, about, woken>>

\* `poll` of a queue nobody holds takes it.
PollReady(c) ==
  /\ pc[c] = "polling"
  /\ ~held[about[c]]
  /\ held' = [held EXCEPT ![about[c]] = TRUE]
  /\ pc' = [pc EXCEPT ![c] = "holding"]
  /\ UNCHANGED <<waiting, about, woken>>

\* MUTANT of PollPending: `poll` answers Pending and registers no waker.
PollPendingUnregistered(c) ==
  /\ pc[c] = "polling"
  /\ held[about[c]]
  /\ pc' = [pc EXCEPT ![c] = "parked"]
  /\ UNCHANGED <<held, waiting, about, woken>>

\* `poll` of a held queue registers the waker and answers Pending.
PollPending(c) ==
  /\ pc[c] = "polling"
  /\ held[about[c]]
  /\ waiting' = [waiting EXCEPT ![about[c]] = @ \union {c}]
  /\ pc' = [pc EXCEPT ![c] = "parked"]
  /\ UNCHANGED <<held, about, woken>>

\* `try_acquire` takes a free queue at once and never waits for a held one;
\* refused, it changes nothing.
TryAcquire(c, p) ==
  /\ pc[c] = "out"
  /\ ~held[p]
  /\ held' = [held EXCEPT ![p] = TRUE]
  /\ pc' = [pc EXCEPT ![c] = "holding"]
  /\ about' = [about EXCEPT ![c] = p]
  /\ UNCHANGED <<waiting, woken>>

\* MUTANT of Release: every waker is taken and one of them is woken.
ReleaseWakesOne(c) ==
  /\ pc[c] = "holding"
  /\ held' = [held EXCEPT ![about[c]] = FALSE]
  /\ woken' = [woken EXCEPT ![c] =
       IF waiting[about[c]] = {} THEN {} ELSE {CHOOSE w \in waiting[about[c]] : TRUE}]
  /\ waiting' = [waiting EXCEPT ![about[c]] = {}]
  /\ pc' = [pc EXCEPT ![c] = "waking"]
  /\ UNCHANGED about

\* Dropping the guard clears the flag and takes every waker.
Release(c) ==
  /\ pc[c] = "holding"
  /\ held' = [held EXCEPT ![about[c]] = FALSE]
  /\ woken' = [woken EXCEPT ![c] = waiting[about[c]]]
  /\ waiting' = [waiting EXCEPT ![about[c]] = {}]
  /\ pc' = [pc EXCEPT ![c] = "waking"]
  /\ UNCHANGED about

\* The releaser wakes one of the tasks whose waker it took; a task that is not
\* parked any more is woken to no effect.
Wake(c, w) ==
  /\ pc[c] = "waking"
  /\ w \in woken[c]
  /\ woken' = [woken EXCEPT ![c] = @ \ {w}]
  /\ pc' = IF pc[w] = "parked" THEN [pc EXCEPT ![w] = "polling"] ELSE pc
  /\ UNCHANGED <<held, waiting, about>>

\* With every waker woken, the drop of the guard returns.
Woke(c) ==
  /\ pc[c] = "waking"
  /\ woken[c] = {}
  /\ pc' = [pc EXCEPT ![c] = "out"]
  /\ UNCHANGED <<held, waiting, about, woken>>

\* A future waiting for a turn may be dropped, its waker staying registered.
Abandon(c) ==
  /\ pc[c] \in {"polling", "parked"}
  /\ pc' = [pc EXCEPT ![c] = "out"]
  /\ UNCHANGED <<held, waiting, about, woken>>

\* An executor may poll a pending future for a reason of its own.
Spurious(c) ==
  /\ pc[c] = "parked"
  /\ pc' = [pc EXCEPT ![c] = "polling"]
  /\ UNCHANGED <<held, waiting, about, woken>>

Next ==
  \E c \in Callers :
    \/ \E p \in Prints : Acquire(c, p) \/ TryAcquire(c, p)
    \/ PollReady(c) \/ PollPending(c)
    \/ Release(c) \/ Woke(c)
    \/ \E w \in Callers : Wake(c, w)
    \/ Abandon(c) \/ Spurious(c)

\* A runnable task is polled, a guard is dropped in the end, and a drop runs
\* to its end.  Nothing obliges a task to acquire, to abandon, or to be polled
\* without having been woken.
Fairness ==
  \A c \in Callers :
    /\ WF_vars(PollReady(c) \/ PollPending(c))
    /\ WF_vars(Release(c))
    /\ WF_vars(Woke(c) \/ \E w \in Callers : Wake(c, w))

Spec == Init /\ [][Next]_vars
FairSpec == Spec /\ Fairness

-----------------------------------------------------------------------------
Holders(p) == {c \in Callers : pc[c] = "holding" /\ about[c] = p}

\* turn_lock.rs 1-5, "one supervision turn per print at a time": two callers
\* holding a guard of one print are one caller.
MutualExclusion ==
  \A p \in Prints : \A c, d \in Holders(p) : c = d

\* A queue's flag says whether some caller holds a guard of it: a guard is
\* never dropped without clearing it, and it is never cleared under a guard.
HeldByItsHolder ==
  \A p \in Prints : held[p] <=> Holders(p) # {}

\* Wakers are registered only with a queue somebody holds, so there is always a
\* release to come that takes them.
WaitersHaveAHolder ==
  \A p \in Prints : waiting[p] # {} => held[p]

\* No wakeup is lost: the waker of a caller parked on a queue is registered
\* with that queue or in the hands of a release that is waking it.
NoLostWakeup ==
  \A c \in Callers : pc[c] = "parked" =>
    \/ c \in waiting[about[c]]
    \/ \E d \in Callers : pc[d] = "waking" /\ c \in woken[d]

\* What the four say together, which is inductive.
IInv ==
  /\ TypeOK
  /\ MutualExclusion
  /\ HeldByItsHolder
  /\ WaitersHaveAHolder
  /\ NoLostWakeup

\* turn_lock.rs 10-11, the wakers "make a queued caller resume the moment the
\* turn ahead of it returns": a parked caller does not stay parked, whoever
\* releases, barges in or goes away meanwhile.
ParkedIsPolledAgain ==
  \A c \in Callers : (pc[c] = "parked") ~> (pc[c] # "parked")

-----------------------------------------------------------------------------
\* The lock implements the mutex, a print's turn being owned by the callers
\* holding a guard of it.
Abstract == INSTANCE Mutex WITH owner <- [p \in Prints |-> Holders(p)]
ImplementsMutex == Abstract!Spec
=============================================================================
