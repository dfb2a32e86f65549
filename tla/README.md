# printobserver in TLA+

TLA+ models of printobserver, the TLC runs that check them on small instances,
and theorems that TLAPS checks for every instance. The reference is the source
under `src/`; `PROJECT.json` maps each definition to the lines it stands for, and
lists the hazards, findings and theorems.

## The system

printobserver supervises a 3D printer. A failure detector (Obico) posts alerts,
a printer host (OctoPrint) is read, commanded and listened to, and an agent (run
through oneharness) is given *turns* on what happens to a print. Everything goes
through one `Supervisor` (`printobserver-core`), whose methods run as concurrent
futures of a server's tasks, plus one expiry thread of its own. There is no
global lock: what two methods may do at once is settled by a few small
structures, most of them in memory.

| Part | State it keeps | Operations | Interacts through |
|---|---|---|---|
| Turn locks (`turn_lock.rs`) | a flag and a list of wakers per print | acquire, try_acquire, poll, drop | used for `turns`, `expiring`, `resolving`, `spool_writes` |
| Bounded interventions (`actions.rs`, `expiry.rs`) | intervention rows; `Deadlines` in memory; the machine's values | request, open, supersede, sweep, expire, settle | store, printer port, the `expiring` lock of a print |
| Close of a print (`events.rs`, `closing.rs`) | print row, session row | close-out by a turn or a read, close by an operator | the print's turn; expires interventions first; `follow_up_end` |
| Startup (`reconcile.rs`, `server.rs`) | what was due before the supervisor existed | settle with the printer, adopt, expire, account unseen prints | runs beside the expiry thread |
| Inbox (`inbox.rs`) | busy flag and arrivals of a print | claim or hand over, claim if idle, next or release, take, put back, release | alerts, observations, looks, ends, drivers |
| Supervision (`events.rs`) | driver tasks, the arrival each is on | receive, drive, run a turn, close | inbox, turn lock, agent port |
| Observation, look (`observation.rs`, `look.rs`) | none | observe, take a look | inbox |
| Agent's sessions (`oneharness`: `turn.rs`, `ledger.rs`) | one file per print; the store's session row | read, run, write whole, close | turns, close-outs, operator's close |
| Turn credentials (`turns.rs`, `turn_access.rs`) | registry of live credentials, `closed` of a turn | open, issue, close, revoke | the turn's holder and its runs, which may outlive it |
| Print listing (`listing.rs`) | print rows, what was seen of a job | settle, adopt, sight, open | `resolving` lock, try_acquire of turns |
| Printer watch (core `watch.rs`) | pushes taken, unattended window, what is kept for the next round | watch, follow up, catch up | inbox, listing, close-outs |
| Push channel (octoprint `push.rs`, server `watch.rs`) | socket, queue and waker, the probe's lines | read frames, poll, note, reopen, probe | one thread, one task, the probe, core |
| Detector pause (`detector.rs`) | pauses held, the resumes they earned | note, resume when due or at a turn's end, forget | turns, requests, expiry thread |
| Policy (`decision.rs`, `bounds.rs`, `supervisor.rs`) | the agent's last change and when | decide | every request; restarts; the clocks |
| Recovery (`recovery.rs`) | trust in Z, whether the head moved under a pause | recover, trust, distrust | requests, starts, pushes, restarts |
| Accounting, spools (`accounting.rs`, `spools.rs`, `ledger.rs`) | segments, pends, marks, figures | signal, close a segment, settle, spool commands | `spool_writes` lock, close-outs, the printer's signals |
| Prints nobody watched (`unobserved.rs`) | tallies last accounted | account at a start | the printer's own tallies, settlements |
| Ingress (server `ingress.rs`) | bounded channel, the worker's hand, what it counts | take a post, refuse it, write a body down, run its turn apart | the detector's posts, `receive_event`, the server's stop |
| Event log and its watch (server `events.rs`, client `watch.rs`) | log, signal, cursor | append, read after, wait, follow | store writers, the print's end |
| Store (`printobserver-store-sqlite`) | all rows | once-only settlement, newest open print | everything |
| Adapters, API, SDKs, command line | little | conversion and I/O | ports |

What makes it hard: a request reads the printer, changes it and writes its
intervention down in separate awaits while others do the same; three tasks
expire interventions; prints end under turns, requests and looks; what waits for
an agent, what the printer pushed and what the watch owes are kept in memory
while several tasks claim, drain and release them; a job is recognised only by
its file, its start and how long it printed; and a server may die between any
two steps.

What each part owes, and how far that is established (C checked by TLC, P proved
as well):

| Part | Owed |
|---|---|
| Locks | exclusion, no lost wakeup (P); a parked waiter is polled again (C) |
| Interventions | one expiry of a print at a time, settled once, put back at most once in a server's life, superseded ones' prior values carried, expired before their print is ended (P); all settled in the end across restarts (C) |
| Supervision | one agent per print, under its turn, on no ended print but on its end, each arrival delivered once and in order (P); no alert stranded, no inbox left claimed (C) |
| Sessions | closed ones stay closed, in order, readable after a death (P) |
| Credentials | none outlives its turn, one per print (P) |
| Listing | one open print per job, no live print ended, two jobs told apart, an alert finds its print (P) |
| Watch | a reset reaches its print, what the store refused is written later (P) |
| Push channel | a loss leaves a gap, the task never waits for what has come, every push once and in order, no reply answered twice (P) |
| Detector pause | resumed once for what was adjusted, not when left alone (P); the resume comes, an ended print's pause is forgotten (C) |
| Policy | the agent's interval is kept across restarts and stepped clocks (P) |
| Recovery | Z trusted only for cause, no resume over a displaced head (P) |
| Filament | nothing charged twice, an unmarked figure is true, a settlement is final, unseen prints found once, none missed (P) |
| Ingress | what is taken is written down once and in order beside any turn, no place of the channel lost (P); every post answered (C) |
| Event watch | nothing skipped, no missed wake (P); the end ends it (C) |

## The modules

| Module | Models | Code |
|---|---|---|
| `Mutex` | what a lock promises | — |
| `TurnLocks` | the lock, poll by poll and wake by wake | `turn_lock.rs` |
| `BoundedChanges` | what interventions promise | — |
| `Interventions` | requests, expiries, close-outs, restarts, on one adjustable of one printer | `actions.rs`, `expiry.rs`, `closing.rs`, `events.rs`, `reconcile.rs`, `memory.rs` |
| `AgentSessions` | the ledger of a print's conversations, the store's row and its history | oneharness `turn.rs`, `ledger.rs`; core `events.rs`, `closing.rs` |
| `Supervision` | inbox, drivers, observation, look, close-out and follow-up of one print | `events.rs`, `inbox.rs`, `observation.rs`, `look.rs`, `listing.rs`, `watch.rs` |
| `TurnCredentials` | scopes and the credentials of their runs | server `turns.rs`, `turn_access.rs` |
| `EventStream` | the log, the server's read of it and the client's watch | server `events.rs`, store, client `watch.rs` |
| `Ingress` | the endpoint alerts are posted to, its channel and its worker | server `ingress.rs` |
| `ActionPolicy` | `decide` and `effective_bounds` as operators | `decision.rs`, `bounds.rs` |
| `AgentPacing` | the interval between an agent's changes, under two clocks | `supervisor.rs`, `clock.rs`, `decision.rs` |
| `DetectorPause` | a detector's pause and the resume it earns, each request decided by `ActionPolicy` | `detector.rs`, `actions.rs`, `events.rs`, `supervisor.rs` |
| `Recovery` | recoveries, trust in Z and the resume's check | `recovery.rs`, `supervisor.rs`, `watch.rs` |
| `PrintEnding` | how a print ended and the rule it is charged by, as operators | `accounting.rs` |
| `FilamentLedger` | what one write does to a print's segments, pends and marks | `ledger.rs`, `accounting.rs`, `filament.rs` |
| `Filament` | signals, spool commands, close-outs and crashes over that ledger | `accounting.rs`, `spools.rs`, `closing.rs` |
| `UnobservedPrints` | the tallies compared at a start | `unobserved.rs`, `reconcile.rs` |
| `PrintListing` | which print the printer's job is | `listing.rs`, `events.rs`, `actions.rs`, `closing.rs` |
| `PrinterWatch` | what the watch holds between reads | core `watch.rs`, `events.rs` |
| `PushChannel` | the push channel from its socket to core | octoprint `push.rs`, server and core `watch.rs` |
| `MCServer`, `MCInterventions`, `MCSupervision`, `MCActions`, `MCPrinter`, `MCFilament` | the small instances TLC checks | — |
| `*_proofs` | the theorems | — |

`TurnLocks` is shown to implement `Mutex`, and the other modules use a lock in
that form: one step takes a free lock, one gives it back. `Interventions` is
shown to implement `BoundedChanges`, with an intervention's outcome as the
abstract outcome. `Filament` extends `FilamentLedger`, which extends
`PrintEnding`; `DetectorPause` and `AgentPacing` extend `ActionPolicy`.

### How state and steps correspond

*TurnLocks.* `held` and `waiting` are `Queue.held` and `Queue.waiting`. Each
critical section under the std mutex is a step. `release` clears the flag and
takes the wakers in one (`Release`) and wakes them one by one after it has let
the mutex go (`Wake`, `Woke`). `Abandon` drops a waiting future, whose waker
stays registered; `Spurious` polls one that nobody woke.

*Interventions.* `prints`, `ivs` are the store's rows, `running`, `value` the
machine, `counting`, `adopted` are `Deadlines`, `expiring` the lock. `req[r].pc`
is where a request is between two awaits: reads and decision (`Accept`), the row
(`Record`), the printer (`Change`), the list of what it supersedes (`Gather`),
the intervention (`OpenIntervention`), its countdown, then one settlement for
each superseded one. A task of `exp` is the driver's sweep, a close-out, a start
or an operator's close; the first three go through `Lock`, `Check`, `Restore`,
`Settle`. A crash keeps the rows and the machine (`Gone`). An intervention is
named by its request; `by`, `listed` and `putBack` are history variables.

*AgentSessions.* `disk` is the ledger's file: whole, blank (the moment after
`fs::write` emptied it) or torn by a death there. A turn reads it, runs on the
open session or a new one, reports to the store and the history with the print's
turn let go, and writes the file whole. A close-out closes under the turn, an
operator's close under none. `identity` may differ after a death, when the
harness refuses the old session.

*Supervision.* `busy` and `pending` are the inbox, `holder` the print's turn. A
driver is named by the arrival that claimed the inbox: `on[t]` is what its turn
is on, the last being the arrival itself (`left.pop()`). `Reader` is any read
that finds the print over. `End` is the `print_ended` event, which becomes an
arrival only through `FollowUp` or `CatchUp`.

*TurnCredentials.* `held` is the registry, `closed` the flag of each scope and
`lock` that flag's mutex, which `issue_drawn` holds across its insertion.
`scope` and `turn` are where `supervise` is, and the print's turn it holds.

*EventStream.* A writer commits an event and then raises the signal, in two
steps. The server's read chooses where to start in up to two reads, marks the
signal seen, looks through `Piece` events at a time, waits, and asks last of all
whether the print ended. The watch prints what it was answered and asks again
from its cursor; an answer may be lost and asked for again.

*Ingress.* A post gets a place of the channel or waits for one, first come
first; it then sends its body, gives up as its bound passes, or goes away with
its poster. The places are tokio's: one let go belongs to the first that waits,
from before it sends, and one it leaves goes to the next. The worker has one body
in hand at a time, and the turns it claimed run beside it. `Sticks` is a writing
that never comes back; `Stops` is the end of the process, which loses what the
channel holds.

*AgentPacing.* `time` is what nothing steps, `time + wall` what the wall clock
reads. A change is made at the machine, requested in the history and noted in
memory in three steps, and a restart forgets the last and finds the second.

*DetectorPause.* `pause` is the entry of `detector_pauses`. An asker of `ask`
reads a snapshot, is decided by `decide`, is issued, and is followed only once
written down, so its effect on the pause may come late. Two takers remove the
pause and then ask for the resume: the driver at its turn's end and the expiry
thread when the grace runs out.

*Recovery.* A recovery reads the printer, reads the trust, is decided, is carried
out at the machine, is written down and is noted, all apart. `trust` is `z_trust`, `moved`
the in-memory note, `written` and `counted` what the store holds of this server's
and earlier ones' recoveries. `placed`, `untold` and `overtaken` say what is true
of Z beside what is believed.

*Filament.* `feeder` says which spool truly fed each unit and `ledger` what the
store holds. Each write of the ledger reads it under `spool_writes` and is one
step; what was read before the lock (the position, the settlement, the job) is a
step before. A crash forgets `seen` and whatever was in flight. What a segment
extruded is its exact length or unknown: the estimate by the share of the file
(`accounting.rs` 803-823) is not told apart from the exact one.

*UnobservedPrints.* A start settles the open print, reads the tallies and writes
every unseen print in one. `made` and `watched` are what is true. The window of
an accounting is kept as the counts at its two ends where `unobserved.rs` 102-119
compares times.

*PrintListing.* A read, an alert, a start and an operator's close go through
resolution (`ops`), a turn's close through none. `jobs` are the printer's jobs
with their true history; `prints` the records with the job each was really opened
for (`job`), from which the properties judge what the code decided by file, start
and printing time.

*PrinterWatch.* `wire` holds pushed resets not yet taken, `reset` is
`PushFacts.reset`, `window` the unattended window, `pending_resets` and
`pending_ends` what a refusal left for the next round. `closing` has the awaits
of a close-out, which reads the flags, ends the print, and forgets them in its
follow-up.

*PushChannel.* The thread reads `frames` (a message whole or in two, pings
between) into `queue` and wakes `waker` if there is one; the task opens, polls,
parks, takes a push and notes it; `hand` is the push between the two. `lines` is
what the task keeps for the probe, which sends a command and waits for a line.
`channel` and `gap` are core's.

## The runs

Each run checks two to four modules that share no variable and no lock (or, for
`filament`, run at different times: unseen prints are accounted before a start
lets anything else run), beside one another: a variable `part` says which moves,
all along, so a run is the union of their behaviours and not their product. The
properties of a part that
does not move hold of its initial state. Under fairness that is sound because no
action that is fair can be taken in a part's initial state, so a part at rest
owes no step. Composing the parts
fully would add no interleaving that could matter, since a step of one changes
nothing the other reads.

| Run | Shows | Bounds |
|---|---|---|
| `interventions` | prior values carried, expiries apart, a close-out before the end, `BoundedChanges` implemented; sessions in order on disk, closed ones closed | 2 overlapping requests, 1 print, no crash; 3 turns, 2 identities, 1 death, 1 refused write. Symmetric in requests and identities; safety only, so symmetry is sound |
| `supervision` | one driver, under the turn, once, in order; nothing stranded, the inbox comes free; every change settled across crashes | 2 alerts, 1 observation, 1 look, 1 end, 2 store failures; 1 request, 2 prints, 2 crashes, the second of which may fall into the recovery from the first |
| `agent_actions` | a detector's pause resumed once and only while held; the agent's interval; trust in Z and the resume's check | 2 requests, 2 detector pauses, 1 other turn; 4 seconds, a clock stepped by 2, 1 restart; 2 recoveries, 1 loss, 1 restart |
| `filament` | nothing charged twice, unmarked figures true, settlement final, unseen prints once | 2 units, 2 changes, 2 spools, 2 commands, 1 crash; 3 prints, 1 reset of the tally, 3 starts |
| `printer` | one print per job, no live print ended; resets reach their print, what was refused is written; pushes in order, losses told, replies not answered twice | 2 files, 2 jobs, 2 prints, 3 instants; 2 prints, 1 idle reset, 1 refusal, 1 restart; 3 pushes, 1 end of the socket, 2 probes, 1 kept line |
| `server_tasks` | the mutex without lost wakeups; credentials; the watch; posts answered and written down | 3 tasks, 2 prints; 3 turns, 2 of one print, 4 runs; 3 events, 2 to an answer and to a piece, 1 lost answer; 4 posts, a channel of 2, so that two may wait while two race to send |
| `prior_value`, `refused_start`, `lost_end`, `reloaded_spool`, `lost_event`, `lost_close` | *violated*: see below | as small as shows it |

The bounds are named constants. Two of anything that meets its own kind are
enough for what one may do to another, since every request, recovery or turn
runs the same code and the properties relate pairs; a third lock task is the one
that barges in between a wake and its poll. Each fault happens often enough to
fall into the handling of another: the second crash into a recovery from the
first, a store failure into what follows another. `CHECK_DEADLOCK FALSE` is set
where everything bounded may be over.

Every property has a mutant: a changed form of one mapped operator, defined
beside it and marked `MUTANT`, under which TLC finds the property violated.

Several properties hold only where a history variable says nothing excused them
(`excused`, `misread`, `blurred`, `overtaken`, `crossed`, `givenUp`, ...). Each
excuse is a case where the code does not promise the property; they are set out
under "Known edges".

### Fairness

Weak fairness, and only of what is begun: a runnable task is polled, a guard is
dropped in the end, a listed expiry goes on, an agent's turn returns (the adapter
bounds it with a timeout), a process that died is started again (the service
manager does that), the expiry thread polls, a grace that runs is over in the
end, a read of the log has a deadline and its client asks again, a post's bound passes,
a body in the channel is read. Nothing obliges
an alert to come, a job to end, anybody to ask, or a step to fail. The locks give
no more than "polled again": waiters are not ordered, and a woken task can be
overtaken each time, so no property says that a given waiter gets the turn while
others keep taking it.

## What disagrees with the documentation

1. `prior_value`: `actions.rs` 483-486 and the intervention policy (158-160) say
   that restoring reaches the value the print started from. Two requests that
   overlap can make it an intermediate one: the second reads the printer after
   the first one's change and lists what it supersedes before the first one's
   intervention is written.
2. `lost_end`: `inbox.rs` 6-8 and `watch.rs` 18-19 say nothing that arrived is
   lost and that a failed end gives the agent a turn. The end is lost when a
   read closes the print between a driver's claim and its turn: the end is
   handed to that driver's inbox, and the driver, finding its print ended,
   releases the inbox.
3. `refused_start`: `reconcile.rs` 220-222 says that an intervention that could
   not be expired does not fail the reconciliation. The `?` at 276 does fail it,
   for an intervention that stands on an ended print with no print open.
4. `reloaded_spool`: `records/spool.rs` 220-221 says that a change mark means
   nobody has said which spool is loaded. A spool taken off after an unconfirmed
   change and loaded again keeps the mark, and what it feeds goes on being held.
   So does one marked at a position nobody could read, whose mark no swap clears,
   put back in the place of another spool.
5. `lost_event`: the client's `watch.rs` 24-25 says every passing event stored
   before the end is printed before the ending. The server's read looks through
   the log and then asks for the end; both stored in between make an answer that
   tells the end alone, and the watch stops on it. The property leaves out a
   watch whose start was overtaken, which is another edge (below).
6. `lost_close`: the command surface (527) says a closed print's session reads
   back closed. A turn answered as the operator closes writes its session into
   the store as open, over the close.

## Known edges

What the models show the code does, that no document denies, and that the
properties except:

- *Sessions.* After `SessionHarnessConflict` with no open session recorded,
  `name_after_current` gives the same name again, so the retry and every later
  turn of that print fails (`turn.rs` 311-333). A torn or blank ledger is refused
  for ever. A death or refusal between `end_print` and `close_session_of`, or a
  close beside a turn's last writes, leaves the store's session open. A turn on a
  failed print's end opens a session nobody closes.
- *Listing.* An alert first delivered after its job opens or attaches wrongly (not
  modelled); a turn's stale close can end a running job's print.
- *Watch.* A follow-up the store refused and a later round retries forgets the
  next print's pushes and reopens the window for the old print; a window replaced
  while an activity is written gets the mark of the old one.
- *Push channel.* What is lost between a start's read and the first report on the
  channel leaves no gap, because the channel opens with none. The late reply of a
  command given up on, or a line read off the socket and not yet kept, is taken
  for the next command's (server `watch.rs` 120). A connection that dies without
  an end is never noticed (no read timeout).
- *Ingress.* A body that was answered as taken is lost if the process ends before
  the worker reads it, and every later one if a writing never comes back. A post
  without the secret is written down before its answer, and the bound put around
  that writing (`ingress.rs` 249) cannot cut it short: the SQLite store appends
  inside one poll, waiting up to `LOCK_TIMEOUT` (5 s) for another writer, so such
  an answer can come after the bound. Two posts that were given places in turn
  may send in the other order.
- *Inbox.* Two looks whose turns fail at a time put their events back each ahead
  of what waits, so the later failure's events, which may be the newer, come
  first (`inbox.rs` 106-120), against "oldest first" (36, 94); a single failed
  look puts its own back in order.
- *Event watch.* A print's first event stored between the two reads that choose
  where to start is skipped (`overtaken`); an unscoped watch over an empty log
  has no cursor until an answer gives it one (`blind`).
- *Detector pause.* A resume is followed only once written down, so it may forget
  a newer pause (`actions.rs` 193).
- *Recovery.* A home or start answered before, and followed after, a reset was
  noted sets the trust all the same; a second outage between two reads of the
  watch is taken for the first; a failed lift whose record the store refuses keeps
  the trust; a resume accepted between a recovery's execution and its note, and a
  recovery decided on a paused snapshot and executed after a resume, are carried
  out.
- *Filament.* A signal written after the settlement or after the operator's load
  marks the wrong spool or none; a spool that still has its mark and is loaded again
  has what it feeds charged to the next one loaded (`MarkedBack`); a correction with a print unsettled is debited
  beside what the segment later charges; a start whose job read fails but whose
  tallies are read charges a print twice.
- *Locks.* Nothing orders waiters.

## What is proved

For any values of the constants, from the assumptions named in the modules:

- `Server_proofs`. The lock: exclusion (`OneTurnPerPrint`), no lost wakeup
  (`WakeupsAreKept`), the refinement (`LockRefinesMutex`). Exclusion needs
  `HeldByItsHolder` beside it, since what `poll` looks at is the flag and not the
  holders; the wakeups need `WaitersHaveAHolder`, so that there is a release to
  take what is registered. The credentials: `CredentialsDieWithTheirTurn` and
  `OneForEachPrint`. The property itself is not inductive: a run past the check of
  `closed` is going to insert whatever happens, so the invariant says that the
  scope's mutex waits for it, and that a scope with its mutex held has not begun
  to close. The ingress: what a poster was told is taken was sent, is written down
  once and in the order sent; no place of the channel is lost or given twice; a body
  is counted when its turn is over (`IngressKeepsItsOrder`). `OnePlaceEach` is what
  makes it inductive: a post that is not answered waits once, or has a place, or is
  being refused, so it is not sent twice and a place let go is not given to one that
  has it; and since each is sent once, a body in hand has no turn yet. The watch of
  the log: it prints what it owes up to its cursor, once and in the order stored,
  and a read that waits is woken for what it has not examined
  (`NoEventIsPassedBy`). Between the watch's cursor and its read's, what is owed
  is in the answer (`NothingPassedBy`); what a piece takes of what it finds leaves
  out nothing before it (`ExamineTakes`), so the last event taken is a cursor
  nothing lies behind. A read that examined everything and has nothing to answer
  still has the signal unseen or yet to be raised if more was stored
  (`WakeOnItsWay`), because it marked the signal seen before it looked.
- `Interventions_proofs`: type correctness and the exclusion of expiries
  (`Invariance`, `OneExpiryPerPrint`). The exclusion is about the print of the
  intervention a task is concerned with, so the invariant adds that such an
  intervention is opened, that an opened one's print and prior value never
  change (`SettlingKeepsTheRest`), and that a request opens its own only once.
  What is being put back is a value because `Check` has seen one, which is why
  the invariant carries that too. On it rest three more. A superseded
  intervention's prior value lives in one that was in force before it
  (`PriorValuesAreCarriedForward`): each request either has found what it
  supersedes and carries the oldest prior value of that, or supersedes nothing,
  at every step between reading the list and settling the last of it. A close-out
  has expired what it listed (`CloseOutsExpireFirst`): each intervention it found
  is settled, is one it has still to do, or is the one in hand. And the whole
  implements `BoundedChanges` step by step (`RefinesBoundedChanges`): an action
  settles at most one intervention, and only one whose outcome was not decided.
- `Supervision_proofs`: one task drives a print's turns, the inbox is claimed
  exactly while it does, and whoever runs the agent or ends the print holds its
  turn (`OneDriverOneTurn`); no agent runs for an ended print but on its end, and
  no print ends under an agent (`AgentsRunOnOpenPrints`). A claim on an idle inbox
  is alone because `busy` says so; the end's own claim needs `EndOnce`: the event
  of the end is new until a print that was open has been ended, and only one task
  can be following that up, since it still holds the turn. The refusal of the
  second property rests on the first: `EndPrint` is taken by the turn's holder,
  who is then not an agent's driver. Whatever arrives is given once and in order
  (`DeliveredOnceInOrder`): the inbox, each driver's batch and each look are
  *keepers*, and an arrival that has come and was not given is at one place of
  one keeper. Each step moves arrivals between two keepers in one of five ways
  (nothing moves, one enters, all are taken, they are put back ahead, they are
  given), each a lemma about any keepers. The order is that of the places in the
  inbox after what the driver holds.
- `Actions_proofs`. The detector's pause: an adjustment earns one resume at most
  (`OneResumeForWhatAdjusted`), and a pause left alone stays until the detector
  pauses anew (`WhatIsLeftAloneStays`). The invariant adds that a request under
  way is one of those it may be, and that a pause left alone is no longer held.
  The agent's interval (`AgentsAreHeldForTheInterval`): what memory holds makes
  the last change no older than it is and no younger than when it was noted;
  between a change and its note memory may hold nothing of it, but then the
  history does, or will, by the other clock (`KnownIsSound`, `RecordIsSound`).
  Recoveries: Z is trusted for cause (`ZIsTrustedForCause`) and no resume is
  accepted over a recovery that displaced the head (`NoResumeOverARecovery`). A
  home or start about to be trusted is still good or known to be overtaken
  (`PlacedInv`); a recovery that displaced the head is written down before it is
  noted, for this server and the next (`DisplacedInv`).
- `Printer_proofs`. The push channel: a push lost during a print is told as a gap
  (`LossLeavesAGap`) and the task never waits while something is there
  (`NoPushWaitsUnseen`). `Reported` ties what core was told to the socket: what
  was reported down left a gap, and what was reported open, or is being opened,
  has had its socket since. What the socket delivers is noted once and in order
  (`PushesAreNotedInOrder`): the frames on it make whole messages, so a push is
  the last frame of its own (`Framed`), a reading that ended left no frame
  (`Ending`), and what was noted, is in the task's hand and is queued comes before
  what is on the frames. No reply answers two probes (`RepliesAreNotTakenTwice`):
  the printer replies in the order of its commands, so a reply kept, or answered
  with, is older than any push not yet noted (`LinesInOrder`, `AnswersInOrder`).
  The watch: a reset reaches the print it stopped
  (`ResetsAreAttributed`) and what the store refuses is kept until it is written
  (`RefusedWritesAreKept`). Until a print is settled its reset is the flag's or on
  the wire (`ResetsInv`), which a settlement reads; a close-out is of a print whose
  record is as far as the close-out (`CloseInv`), so no print settles twice; and an
  end is owed, in a round's hands or in a close-out's, one of them and once
  (`OneCloser`), so a print's end is claimed once.
- `AgentSessions_proofs`: a ledger written whole is one every build reads, a
  session's close is written once, and a session shown closed stays closed
  (`SessionsAreKept`). Every worker that has read the ledger writes back what it
  read, so what each holds is a good ledger too (`AllGood`) and no longer than the
  turns so far allow, which is what makes a new session's name new (`NotTooLong`,
  `TurnsSession`); until a close has run beside a turn one task has the sessions
  to itself (`OneAtATime`), and the close the history counts is one the ledger or
  the task in hand already shows (`CloseCounted`, `ShutIsKept`).
- `Filament_proofs`. A print is charged what it fed (`PrintsAreChargedAsTheyFed`),
  and its settlement is final (`SettlementsAreFinal`). That nothing is charged twice
  is inductive with the bounds on what was read; that an unmarked spool was debited
  for what it fed is a statement about the end, and the invariant says what leads
  there. While the print is unsettled and nothing excused it, each spool's figure,
  with what is held for the one on the tool, is what it fed of the part accounted
  (`ChargedAsFed`), and what is still open was fed by one spool: the one the ledger
  shows if no change left it in doubt (`Trusted`), the one truly on the tool if a
  change did (`InDoubt`), and nobody if there is neither (`Unjudged`). That is what
  each charge goes by, so each keeps it (`ChargesCount`). `Trusted` is where the
  printer's waiting is used: a swap happens between a signal and the printing on, so
  the spool in no doubt fed up to where the signal was read. The settlement turns
  `ChargedAsFed` into a bound from each side (`Settlement`), which late signals,
  takes of what was held and corrections keep. Under these are lemmas about sums
  over segments (`SummedNat`, `SummedAppended`: by the least counterexample, since a
  sum is a recursive function), about what one write does to a ledger (`OpenCharged`, `OpenPended`, `HeldTaken`),
  and about counting what a spool fed (`FedByOne`).
  The prints nobody watched: no print of a file is accounted twice
  (`UnseenPrintsAreFoundOnce`), and each is written under a new key, with none
  missed while the file was never replaced (`UnseenPrintsAreAllFound`). Beside
  what is accounted, the invariant bounds by what was made what the next
  accounting would add (`Window`): the tally's growth beyond the settlements of
  the window, and, once the tally went down, the whole of the tally if nothing was
  settled. `UnseenAre` counts the keys of an accounting, one for each ordinal of
  an interval, and `Keyed` puts them above those of their generation.
- `Listing_proofs`: a job has one open print (`AJobHasOneOpenPrint`), no read and no
  operator's close that could read the printer ends the print of the job still running
  (`NoReadEndsALivePrint`), and no later job's read or alert takes an earlier one's
  print (`LaterJobsTakeNoPrint`). The code tells jobs apart by file, start and
  printing time, so the invariant says what these are worth. What an open print
  recorded of a running job exceeds what the job has printed by a pause at most
  (`Agrees`), which the tolerance covers by `PausingIsTolerated`: that is what the
  constant's comment says it is for. What is known of a print was seen between its start
  and any later job's (`Recorded`). A print no job is known of is the only open one of
  its file (`OneEach`), so whatever gives it a job cannot give it one another print has.
  A report in hand stays true of its job and of every later one as time passes, jobs
  end and begin, and a turn closes its print (`Reported`, `SeenOf`): the resolution of
  prints is one actor's (`OneInFlight`), and every other write waits for it. That the
  newest of some prints exists (`NewestIs`) rests on the natural numbers being well
  founded.

Every invariant, action property and refinement that a passing run checks is a
theorem. Only model-checked: the eight properties under fairness (liveness and
`ENABLED` are out of the prover's reach), and what `PrintEnding` and `ActionPolicy` compute, which is
checked through the modules that use them. The inductive invariant of `Filament` was
model-checked before it was proved, with two spools unconstrained and with three
spools, three changes and five commands where nothing is excused.

## Not modelled

Preflight and upgrade (checks of one request against one reading, no state); the
Obico adapter, OctoPrint's requests over HTTP, the ports and most of the API, the
command line and the SDKs (conversion and I/O); SQL, migrations and the state
directory's hold; the agent's prompt, permissions, sign-in and assessment; image
storage and camera retries; grams, several tools, registration of spools; heights
in recoveries; the detector's health, connection changes and the turns that an
activity claims; store failures in `Interventions` and adjustments with no
duration. The larger part of the implementation's lines is of these kinds: wire
types, configuration, generated clients and stand-ins, which keep no state that
steps of two actors could disagree about.

## The plan

1. The inbox as an abstract specification that `Supervision` implements.
2. `PrinterWatch`: activities and the turns they claim, the detector's health;
   `Interventions` with store failures.
