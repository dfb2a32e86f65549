------------------------------ MODULE Recovery ------------------------------
(***************************************************************************)
(* Moving the printer after a print fails, and whether Z is trusted        *)
(* (printobserver-core: recovery.rs, `issue_decided_action` of             *)
(* supervisor.rs, the resume's check of actions.rs, and what distrusts Z   *)
(* in watch.rs).                                                           *)
(*                                                                         *)
(* Recoveries hold no lock: each reads the printer, is decided, is carried *)
(* out, is written down and is noted against the paused print in steps     *)
(* that those of others, a start, a resume, the printer's own losses and a *)
(* restart come between.  Heights are left out: whether the nozzle is      *)
(* measured clear of the part is either answer.                            *)
(***************************************************************************)
EXTENDS Naturals

CONSTANTS
  Moves,             \* the recoveries asked
  MayMove,           \* MayMove[class]: the recoveries an actor may ask for
  MaxLosses,         \* how often the printer loses its place
  MaxServerRestarts  \* of the server

\* Homing Z; lifting the nozzle; what needs it clear of the part (a heat, a
\* park, an XY home); and what needs nothing (cooling, a fan).
MoveKinds == {"home_z", "lift", "sweep", "cool"}
Movers == {"operator", "agent"}

ASSUME RecoveryConstants ==
  /\ MayMove \in [Movers -> SUBSET MoveKinds]
  /\ {MaxLosses, MaxServerRestarts} \subseteq Nat /\ Moves \intersect {"reset", "down", "failed"} = {}

VARIABLES
  printer,  \* what the printer does: "down", "idle", "printing" or "paused"
  trust,    \* z_trust: whether Z is trusted since some instant
  wasDown,  \* whether the watch's last read found the printer down
  moves,    \* moves[m]: how far a recovery has come, and what it read
  start,    \* a start the printer took and the server follows
  resume,   \* a resume that was accepted and is about to be sent
  open,     \* whether the print is open,
  moved,    \* noted in moved_while_paused,
  written, \* and has a recovery written down since it opened,
  counted,  \* which an earlier server wrote down
  servers
VARIABLES \* history
  placed,     \* Z is where the server's last home or start put it
  untold,    \* what lost Z and the server has not been told of
  overtaken, \* Z is trusted by a home or a start that a loss overtook
  displaced, \* the recoveries in flight that moved the head under its pause
  kept,      \* one that did was noted, or was written down when the server died
  losses

place == <<placed, untold, overtaken, losses>>
record == <<open, moved, written, counted, displaced, kept>>
recovery == <<printer, trust, wasDown, moves, start, resume, servers, record, place>>

NewMove == [at |-> "new", seen |-> "unread", trusted |-> FALSE, overtaken |-> FALSE]
Done == [NewMove EXCEPT !.at = "done"]
RecoveryInit ==
  /\ printer = "idle" /\ trust = FALSE /\ wasDown = FALSE /\ servers = 0
  /\ moves = [m \in Moves |-> NewMove] /\ start = "none" /\ resume = "none"
  /\ open = FALSE /\ moved = FALSE /\ written = FALSE /\ counted = FALSE /\ displaced = {} /\ kept = FALSE
  /\ placed = FALSE /\ untold = {} /\ overtaken = FALSE /\ losses = 0

-----------------------------------------------------------------------------
(* The printer *)

\* A home or a start the printer has taken and the server has yet to trust Z for
\* is overtaken by whatever loses Z meanwhile.
Overtaken == [m \in Moves |-> [moves[m] EXCEPT !.overtaken = @ \/ moves[m].at = "homed"]]
StartOvertaken == start' = IF start = "none" THEN start ELSE "overtaken"

Loses(how) ==
  /\ losses < MaxLosses /\ losses' = losses + 1
  /\ placed' = FALSE /\ untold' = untold \union {how} /\ UNCHANGED overtaken
  /\ moves' = Overtaken /\ StartOvertaken

Resets ==
  /\ Loses("reset") /\ printer # "down" /\ printer' = "idle"
  /\ UNCHANGED <<trust, wasDown, resume, servers, record>>

GoesDown ==
  /\ printer # "down" /\ Loses("down") /\ printer' = "down"
  /\ UNCHANGED <<trust, wasDown, resume, servers, record>>

PrintFails ==
  /\ open /\ printer \in {"printing", "paused"} /\ Loses("failed") /\ printer' = "idle"
  /\ UNCHANGED <<trust, wasDown, resume, servers, record>>

ComesBackFinishesOrPauses ==
  /\ \/ printer = "down" /\ printer' = "idle"
     \/ printer = "printing" /\ printer' \in {"idle", "paused"}
     \/ printer = "paused" /\ printer' = "idle"
  /\ UNCHANGED <<trust, wasDown, moves, start, resume, servers, record, place>>

-----------------------------------------------------------------------------
(* What the server is told of the printer *)

Distrust(how) ==
  /\ trust' = FALSE /\ overtaken' = FALSE /\ untold' = untold \ how /\ UNCHANGED <<placed, losses>>

\* MUTANT of NotePush: the reset is recorded and Z stays trusted.
NotePushAlone ==
  /\ "reset" \in untold /\ untold' = untold \ {"reset"}
  /\ UNCHANGED <<printer, trust, wasDown, moves, start, resume, servers, record, placed, overtaken, losses>>

NotePush ==
  /\ "reset" \in untold /\ Distrust({"reset"})
  /\ UNCHANGED <<printer, wasDown, moves, start, resume, servers, record>>

\* The watch's read: a printer found down that the read before did not.
NoteConnection ==
  /\ wasDown # (printer = "down") /\ wasDown' = (printer = "down")
  /\ IF wasDown' THEN Distrust({"down"}) ELSE UNCHANGED <<trust, place>>
  /\ UNCHANGED <<printer, moves, start, resume, servers, record>>

\* The print's end: a failed or an interrupted one distrusts Z.
PrintEnds ==
  /\ open /\ printer \in {"idle", "down"} /\ start = "none"
  /\ IF untold \intersect {"failed", "reset", "down"} # {} THEN Distrust({"failed"})
     ELSE UNCHANGED <<trust, place>>
  /\ open' = FALSE /\ moved' = FALSE /\ written' = FALSE /\ counted' = FALSE /\ displaced' = {} /\ kept' = FALSE
  /\ UNCHANGED <<printer, wasDown, moves, start, resume, servers>>

-----------------------------------------------------------------------------
(* A recovery *)

\* `facts`: the printer's state, which may be found down or not be read at all,
\* then whether Z is trusted, however the printer fares in between.  Which
\* recovery is asked tells only once it is decided.
ReadState(m) ==
  /\ moves[m].at = "new"
  /\ \E seen \in {printer, "unread"} :
       moves' = [moves EXCEPT ![m] = [NewMove EXCEPT !.at = "asked", !.seen = seen]]
  /\ UNCHANGED <<printer, trust, wasDown, start, resume, servers, record, place>>

ReadFacts(m) ==
  /\ moves[m].at = "asked"
  /\ moves' = [moves EXCEPT ![m].at = "read", ![m].trusted = trust /\ moves[m].seen # "down"]
  /\ \/ moves[m].seen = "down" /\ Distrust({"down"})
     \/ moves[m].seen # "down" /\ UNCHANGED <<trust, place>>
  /\ UNCHANGED <<printer, wasDown, start, resume, servers, record>>

\* `decide`: who may ask, a printer that can be read and runs no print, the
\* operator's word -- an agent's never counts -- and Z trusted and clear of the
\* part.
Admitted(move, kind) ==
  /\ move.seen \in {"idle", "paused"}
  /\ \E class \in Movers, word, clear \in BOOLEAN :
       /\ kind \in MayMove[class]
       /\ kind = "home_z" => word /\ class = "operator"
       /\ kind = "sweep" => move.trusted /\ ((word /\ class = "operator") \/ clear)

\* Refused, for one of these reasons, for its bounds, or since the printer cannot
\* make the first of its calls.
Refused(m) ==
  /\ moves[m].at = "read"
  /\ moves' = [moves EXCEPT ![m] = Done]
  /\ UNCHANGED <<printer, trust, wasDown, start, resume, servers, record, place>>

\* The printer takes the recovery's calls, or fails them, a home or a lift
\* part-way.
CarriedOut(m) ==
  /\ moves[m].at = "read"
  /\ \E kind \in {k \in MoveKinds : Admitted(moves[m], k)}, taken \in BOOLEAN :
       LET lost == ~taken /\ kind \in {"home_z", "lift"}
           homed == taken /\ kind = "home_z" IN
       /\ taken => printer # "down"
       /\ moves' = [IF lost THEN Overtaken ELSE moves EXCEPT
            ![m] = [NewMove EXCEPT !.at = IF homed THEN "homed" ELSE IF lost THEN "lost" ELSE "moved",
                                   !.seen = moves[m].seen]]
       /\ IF lost THEN StartOvertaken ELSE UNCHANGED start
       /\ placed' = ((placed \/ homed) /\ ~lost)
       /\ untold' = IF lost THEN untold \union {m} ELSE untold
  /\ displaced' = IF open /\ printer = "paused" /\ moves[m].seen = "paused"
                  THEN displaced \union {m} ELSE displaced
  /\ UNCHANGED <<printer, trust, wasDown, resume, servers, open, moved, written, counted,
                 kept, overtaken, losses>>

\* `recovery_settled`, once it is written down.
Settle(m) ==
  /\ moves[m].at \in {"homed", "lost", "moved"}
  /\ moves' = [moves EXCEPT ![m] =
       IF moves[m].seen = "paused" THEN [NewMove EXCEPT !.at = "settled"] ELSE Done]
  /\ written' = (written \/ open)
  /\ \/ moves[m].at = "homed" /\ trust' = TRUE /\ overtaken' = (overtaken \/ moves[m].overtaken)
        /\ UNCHANGED <<placed, untold, losses>>
     \/ moves[m].at = "lost" /\ Distrust({m})
     \/ moves[m].at = "moved" /\ UNCHANGED <<trust, place>>
  /\ UNCHANGED <<printer, wasDown, start, resume, servers, open, moved, counted, displaced, kept>>

\* The open print can no longer be resumed.
NoteMoved(m) ==
  /\ moves[m].at = "settled" /\ moves' = [moves EXCEPT ![m] = Done]
  /\ moved' = open /\ kept' = (kept \/ m \in displaced) /\ displaced' = displaced \ {m}
  /\ UNCHANGED <<printer, trust, wasDown, start, resume, servers, open, written, counted, place>>

\* The store refuses the record, or what the note reads.
StoreRefuses(m) ==
  /\ moves[m].at \in {"homed", "lost", "moved", "settled"} /\ moves' = [moves EXCEPT ![m] = Done]
  /\ displaced' = displaced \ {m}
  /\ UNCHANGED <<printer, trust, wasDown, start, resume, servers, open, moved, written, counted, kept,
                 place>>

-----------------------------------------------------------------------------
(* Starts and resumes *)

StartTaken ==
  /\ ~open /\ printer = "idle" /\ start = "none"
  /\ start' = "taken" /\ printer' = "printing" /\ open' = TRUE /\ placed' = TRUE
  /\ UNCHANGED <<trust, wasDown, moves, resume, servers, moved, written, counted, displaced, kept,
                 untold, overtaken, losses>>

FollowTheStart ==
  /\ start # "none" /\ start' = "none" /\ trust' = TRUE
  /\ overtaken' = (overtaken \/ start = "overtaken")
  /\ UNCHANGED <<printer, wasDown, moves, resume, servers, record, placed, untold, losses>>

\* MUTANT of RecoveryWhileOpen: what an earlier server recorded is not asked for.
RecoveryThisServerNoted == moved
\* `recovery_while_open`: one this server noted, or one written down between
\* the print's opening and this server's start.
RecoveryWhileOpen == moved \/ counted

AcceptResume ==
  /\ open /\ printer = "paused" /\ resume = "none" /\ ~RecoveryWhileOpen
  /\ resume' = "accepted"
  /\ UNCHANGED <<printer, trust, wasDown, moves, start, servers, record, place>>

SendResume ==
  /\ resume = "accepted" /\ resume' = "none"
  /\ printer' = IF printer = "paused" THEN "printing" ELSE printer
  /\ UNCHANGED <<trust, wasDown, moves, start, servers, record, place>>

ServerRestarts ==
  /\ servers < MaxServerRestarts /\ servers' = servers + 1
  /\ trust' = FALSE /\ wasDown' = FALSE /\ moved' = FALSE /\ counted' = written
  /\ moves' = [m \in Moves |-> IF moves[m].at = "new" THEN NewMove ELSE Done]
  /\ start' = "none" /\ resume' = "none" /\ untold' = {} /\ overtaken' = FALSE
  /\ kept' = (kept \/ \E m \in displaced : moves[m].at = "settled") /\ displaced' = {}
  /\ UNCHANGED <<printer, open, written, placed, losses>>

RecoveryNext ==
  \/ Resets \/ GoesDown \/ PrintFails \/ ComesBackFinishesOrPauses
  \/ NotePush \/ NoteConnection \/ PrintEnds
  \/ \E m \in Moves : ReadState(m) \/ ReadFacts(m) \/ Refused(m) \/ CarriedOut(m)
                      \/ Settle(m) \/ NoteMoved(m) \/ StoreRefuses(m)
  \/ StartTaken \/ FollowTheStart \/ AcceptResume \/ SendResume \/ ServerRestarts

RecoverySpec == RecoveryInit /\ [][RecoveryNext]_recovery

-----------------------------------------------------------------------------
(* Properties *)

\* recovery.rs 34-38: while Z is trusted it is where a home or a start of the
\* server's put it, whatever was in flight as the printer lost its place or the
\* server restarted -- but for a loss the server has not been told of, and one
\* that overtook the home or the start between the printer's taking it and the
\* server's trusting Z for it.
TrustIsEarned == trust => placed \/ untold # {} \/ overtaken

\* recovery.rs 17-19: a resume is not accepted once a recovery that moved the
\* head under the print's pause has been noted, or written down when the server
\* died, whichever server asks.
DisplacedIsNotResumed ==
  [][resume' = "accepted" => resume = "accepted" \/ ~kept]_recovery
=============================================================================
