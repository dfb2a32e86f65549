--------------------------- MODULE TurnCredentials ---------------------------
(***************************************************************************)
(* The credentials a supervision turn's runs authenticate with             *)
(* (printobserver-server: turns.rs; printobserver-core: turn_access.rs and *)
(* `supervise` of events.rs).                                              *)
(*                                                                         *)
(* A turn opens a scope while it holds its print's turn, its runs are each *)
(* issued a credential by the scope, and closing the scope revokes them    *)
(* before the print's turn is let go -- as the turn returns, or as it is   *)
(* abandoned, when a run may live on and ask still.  A credential is       *)
(* identified by the run it was drawn for.                                 *)
(***************************************************************************)
CONSTANTS
  Scopes,  \* the turns
  Runs,
  PrintOf, \* PrintOf[s]: the print turn s is about
  ScopeOf, \* ScopeOf[r]: the turn run r belongs to
  None

ASSUME CredentialsConstants ==
  /\ PrintOf = [s \in Scopes |-> PrintOf[s]] /\ ScopeOf \in [Runs -> Scopes]
  /\ None \notin Scopes /\ None \notin Runs

VARIABLES
  turn,   \* turn[p]: the scope of the turn that holds print p's turn
  scope,  \* scope[s]: how far a turn has come
  closed, \* the scopes whose `closed` is set: they issue no more
  lock,   \* lock[s]: the run that holds the mutex of Scope.closed
  live,   \* Registry.held: the live credentials
  run     \* run[r]: how far the issue of a credential to r has come

credentials == <<turn, scope, closed, lock, live, run>>

\* The prints the turns are about.
Supervised == {PrintOf[s] : s \in Scopes}

Of(s) == {r \in Runs : ScopeOf[r] = s}

CredentialsInit ==
  /\ turn = [p \in Supervised |-> None]
  /\ scope = [s \in Scopes |-> "new"]
  /\ closed = {}
  /\ lock = [s \in Scopes |-> None]
  /\ live = {}
  /\ run = [r \in Runs |-> "new"]

\* `TurnAuthority::open`, with the print's turn held.
Open(s) ==
  /\ scope[s] = "new" /\ turn[PrintOf[s]] = None
  /\ turn' = [turn EXCEPT ![PrintOf[s]] = s]
  /\ scope' = [scope EXCEPT ![s] = "open"]
  /\ UNCHANGED <<closed, lock, live, run>>

\* A run asks, and a credential is drawn for it or the random source refuses.
Draw(r) ==
  /\ run[r] = "new" /\ scope[ScopeOf[r]] # "new"
  /\ \E got \in {"drawn", "refused"} : run' = [run EXCEPT ![r] = got]
  /\ UNCHANGED <<turn, scope, closed, lock, live>>

\* MUTANT of Check: the mutex is let go once `closed` has been read.
CheckAndLetGo(r) ==
  /\ run[r] = "drawn" /\ lock[ScopeOf[r]] = None
  /\ run' = [run EXCEPT ![r] = IF ScopeOf[r] \in closed THEN "refused" ELSE "checked"]
  /\ UNCHANGED <<turn, scope, closed, lock, live>>

\* `closed` is read, and its mutex held on while the turn has not returned.
Check(r) ==
  LET s == ScopeOf[r] IN
  /\ run[r] = "drawn" /\ lock[s] = None
  /\ \/ s \in closed /\ run' = [run EXCEPT ![r] = "refused"] /\ UNCHANGED lock
     \/ /\ s \notin closed /\ run' = [run EXCEPT ![r] = "checked"]
        /\ lock' = [lock EXCEPT ![s] = r]
  /\ UNCHANGED <<turn, scope, closed, live>>

\* MUTANT of Insert: what the scope issued before stays live.
InsertBeside(r) ==
  /\ run[r] = "checked"
  /\ live' = live \union {r}
  /\ lock' = [lock EXCEPT ![ScopeOf[r]] = None]
  /\ run' = [run EXCEPT ![r] = "issued"]
  /\ UNCHANGED <<turn, scope, closed>>

\* The credential takes the place of whatever the scope issued before.
Insert(r) ==
  /\ run[r] = "checked"
  /\ live' = (live \ Of(ScopeOf[r])) \union {r}
  /\ lock' = [lock EXCEPT ![ScopeOf[r]] = None]
  /\ run' = [run EXCEPT ![r] = "issued"]
  /\ UNCHANGED <<turn, scope, closed>>

\* `Scope::close`: no more is issued,
Close(s) ==
  /\ scope[s] = "open" /\ lock[s] = None
  /\ closed' = closed \union {s}
  /\ scope' = [scope EXCEPT ![s] = "closing"]
  /\ UNCHANGED <<turn, lock, live, run>>

\* and what was issued is forgotten.
Revoke(s) ==
  /\ scope[s] = "closing"
  /\ live' = live \ Of(s)
  /\ scope' = [scope EXCEPT ![s] = "revoked"]
  /\ UNCHANGED <<turn, closed, lock, run>>

\* The print's turn is let go.
Return(s) ==
  /\ scope[s] = "revoked" /\ turn[PrintOf[s]] = s
  /\ turn' = [turn EXCEPT ![PrintOf[s]] = None]
  /\ UNCHANGED <<scope, closed, lock, live, run>>

CredentialsNext ==
  \/ \E s \in Scopes : Open(s) \/ Close(s) \/ Revoke(s) \/ Return(s)
  \/ \E r \in Runs : Draw(r) \/ Check(r) \/ Insert(r)

CredentialsSpec == CredentialsInit /\ [][CredentialsNext]_credentials

-----------------------------------------------------------------------------
\* turns.rs 152 and 194-195, "a turn that returns while a run is being
\* issued its credential leaves nothing live behind it": a credential is live
\* only while the turn it belongs to has its print, whichever of its runs ask
\* as it returns or after.
NothingOutlivesItsTurn ==
  \A r \in live : turn[PrintOf[ScopeOf[r]]] = ScopeOf[r] /\ scope[ScopeOf[r]] # "revoked"

\* turns.rs 3-13: one credential at most is admitted for a print at any time,
\* whatever turns and runs follow one another on it.
OneCredentialPerPrint ==
  \A q, r \in live : PrintOf[ScopeOf[q]] = PrintOf[ScopeOf[r]] => q = r

CredentialsTypeOK ==
  /\ turn \in [Supervised -> Scopes \union {None}]
  /\ scope \in [Scopes -> {"new", "open", "closing", "revoked"}]
  /\ closed \subseteq Scopes
  /\ lock \in [Scopes -> Runs \union {None}]
  /\ live \subseteq Runs
  /\ run \in [Runs -> {"new", "drawn", "checked", "issued", "refused"}]

\* A run asks once its turn is open; one past its check is the one its scope's
\* mutex waits for; a scope closes once nobody is past it; and a turn that has
\* not returned has its print.
CredentialsInv ==
  /\ CredentialsTypeOK
  /\ \A r \in Runs : run[r] # "new" => scope[ScopeOf[r]] # "new"
  /\ \A r \in Runs : run[r] = "checked" => lock[ScopeOf[r]] = r
  /\ \A s \in Scopes : lock[s] # None => scope[s] = "open"
  /\ \A s \in Scopes : (s \in closed) <=> scope[s] \in {"closing", "revoked"}
  /\ \A s \in Scopes : scope[s] \in {"open", "closing"} => turn[PrintOf[s]] = s
  /\ \A q, r \in live : ScopeOf[q] = ScopeOf[r] => q = r
  /\ \A r \in live : scope[ScopeOf[r]] \in {"open", "closing"}
=============================================================================
