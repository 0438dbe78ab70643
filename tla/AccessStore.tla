----------------------------- MODULE AccessStore -----------------------------
(***************************************************************************)
(* The roster of access users (server/internal/admin/accessusers.go): an   *)
(* in-memory map behind a mutex, re-saved to a JSON file on every change   *)
(* and loaded from it at startup, with the admin API handlers that change  *)
(* it and the server start-up that falls back to a memory-only store.      *)
(*                                                                         *)
(* A user's id and token are drawn at random and its deadline is fixed at  *)
(* creation, so a user is identified with its id; Expires gives the        *)
(* deadline it will carry.                                                 *)
(***************************************************************************)
EXTENDS Naturals, FiniteSets

CONSTANTS
    Users,      \* the users that may be created
    Expires,    \* Expires[u]: u's deadline, or Never
    Never,
    Handlers,   \* the goroutines serving admin requests
    MaxTime,    \* bound on the clock
    Missing, Damaged,
    None        \* no handler, no user

ASSUME DeadlinesAssumption == Expires \in [Users -> Nat \cup {Never}]
ASSUME SentinelAssumption ==
    /\ Never \notin Nat
    /\ None \notin Users \cup Handlers
    /\ \A S \in SUBSET Users : S # Missing /\ S # Damaged
    /\ Missing # Damaged

VARIABLES
    up,         \* the process is running
    users,      \* AccessStore.users
    onDisk,     \* AccessStore.path is not ""
    file, tmp,  \* the roster file and its ".tmp"
    mu,         \* the handler holding AccessStore.mu, or None
    pc,         \* where each handler is: idle, lock, write or rename
    op, arg,    \* what it does to which user
    now,
    issued,     \* history: users that have been in the map
    revoked,    \* history: users whose deletion was answered
    stale       \* history: the last save failed

store == <<users, onDisk, file, tmp>>
handlers == <<mu, pc, op, arg>>
history == <<issued, revoked, stale>>
vars == <<up, store, handlers, now, history>>

File == INSTANCE AtomicFile

\* A missing file is an empty store.
Roster(f) == IF f \in {Missing, Damaged} THEN {} ELSE f

\* Mutant: the comparison is the wrong way round.
ExpiredBeforeDeadline(u) == Expires[u] # Never /\ now < Expires[u]
Expired(u) == Expires[u] # Never /\ now > Expires[u]

\* Whether the proxy's gate lets u's token through.
Authorized(u) == u \in users /\ ~Expired(u)

TypeOK ==
    /\ up \in BOOLEAN /\ onDisk \in BOOLEAN /\ stale \in BOOLEAN
    /\ users \notin {Missing, Damaged} /\ users \subseteq Users
    /\ file \in {Missing, Damaged} \cup SUBSET Users
    /\ tmp \in {Missing, Damaged} \cup SUBSET Users
    /\ mu \in Handlers \cup {None}
    /\ pc \in [Handlers -> {"idle", "lock", "write", "rename"}]
    /\ op \in [Handlers -> {"create", "delete", "none"}]
    /\ arg \in [Handlers -> Users \cup {None}]
    /\ now \in Nat
    /\ issued \subseteq Users /\ revoked \subseteq Users

-----------------------------------------------------------------------------
Init ==
    /\ up = TRUE
    /\ users = {} /\ onDisk = TRUE
    /\ file = Missing /\ tmp = Missing
    /\ mu = None
    /\ pc = [h \in Handlers |-> "idle"]
    /\ op = [h \in Handlers |-> "none"]
    /\ arg = [h \in Handlers |-> None]
    /\ now = 0
    /\ issued = {} /\ revoked = {} /\ stale = FALSE

Goto(h, label) == pc' = [pc EXCEPT ![h] = label]

\* A handler starts on user u and makes for the lock.
Begin(h, what, u) ==
    /\ up
    /\ pc[h] = "idle"
    /\ Goto(h, "lock")
    /\ op' = [op EXCEPT ![h] = what]
    /\ arg' = [arg EXCEPT ![h] = u]
    /\ UNCHANGED <<up, store, mu, now, history>>

\* apiCreateUser up to the lock: the deadline lies ahead of the clock, and the
\* random id and token are new. A refused body or a failed read of randomness
\* changes nothing.
BeginCreate(h, u) ==
    /\ u \notin issued
    /\ \A g \in Handlers : arg[g] # u
    /\ Expires[u] # Never => Expires[u] > now
    /\ Begin(h, "create", u)

\* apiDeleteUser up to the lock. An id is known once it has been in the map.
BeginDelete(h, u) ==
    /\ u \in issued
    /\ Begin(h, "delete", u)

\* The mutex is taken and the map changed; save follows under the same lock.
Lock(h) ==
    /\ pc[h] = "lock"
    /\ mu = None
    /\ mu' = h
    /\ Goto(h, "write")

Create(h) ==
    /\ op[h] = "create"
    /\ Lock(h)
    /\ users' = users \cup {arg[h]}
    /\ issued' = issued \cup {arg[h]}
    /\ UNCHANGED <<up, onDisk, file, tmp, op, arg, now, revoked, stale>>

\* Mutant: Delete changes and saves the map without the mutex.
DeleteWithoutLock(h) ==
    /\ op[h] = "delete"
    /\ pc[h] = "lock"
    /\ Goto(h, "write")
    /\ users' = users \ {arg[h]}
    /\ UNCHANGED <<up, onDisk, file, tmp, mu, op, arg, now, history>>

Delete(h) ==
    /\ op[h] = "delete"
    /\ Lock(h)
    /\ users' = users \ {arg[h]}
    /\ UNCHANGED <<up, onDisk, file, tmp, op, arg, now, history>>

\* Mutant: the error path returns with the mutex held.
UnlockOnlyIfSaved(h, saved) ==
    /\ mu' = IF saved THEN None ELSE mu
    /\ Goto(h, "idle")
    /\ op' = [op EXCEPT ![h] = "none"]
    /\ arg' = [arg EXCEPT ![h] = None]
    /\ revoked' = IF op[h] = "delete" THEN revoked \cup {arg[h]} ELSE revoked
    /\ stale' = ~saved

\* save is over and the handler answers: a deletion is reported as done
\* whether or not it reached the disk.
Unlock(h, saved) ==
    /\ mu' = None
    /\ Goto(h, "idle")
    /\ op' = [op EXCEPT ![h] = "none"]
    /\ arg' = [arg EXCEPT ![h] = None]
    /\ revoked' = IF op[h] = "delete" THEN revoked \cup {arg[h]} ELSE revoked
    /\ stale' = ~saved

WriteRoster(h) ==
    /\ pc[h] = "write" /\ onDisk
    /\ File!WriteTemp(users)
    /\ Goto(h, "rename")
    /\ UNCHANGED <<up, users, onDisk, mu, op, arg, now, history>>

WriteRosterFails(h) ==
    /\ pc[h] = "write" /\ onDisk
    /\ File!WriteTempFails
    /\ Unlock(h, FALSE)
    /\ UNCHANGED <<up, users, onDisk, now, issued>>

RenameRoster(h) ==
    /\ pc[h] = "rename"
    /\ File!RenameTemp
    /\ Unlock(h, TRUE)
    /\ UNCHANGED <<up, users, onDisk, now, issued>>

RenameRosterFails(h) ==
    /\ pc[h] = "rename"
    /\ File!RenameTempFails
    /\ Unlock(h, FALSE)
    /\ UNCHANGED <<up, users, onDisk, now, issued>>

\* A memory-only store has nothing to save, and says so by succeeding.
SaveNowhere(h) ==
    /\ pc[h] = "write" /\ ~onDisk
    /\ Unlock(h, TRUE)
    /\ UNCHANGED <<up, store, now, issued>>

-----------------------------------------------------------------------------
\* The process ends, at any point: a crash, or a shutdown between requests.
Die ==
    /\ up
    /\ up' = FALSE
    /\ users' = {}
    /\ IF onDisk /\ \E h \in Handlers : pc[h] = "write"
         THEN File!DieWriting(users)
         ELSE UNCHANGED <<file, tmp>>
    /\ mu' = None
    /\ pc' = [h \in Handlers |-> "idle"]
    /\ op' = [h \in Handlers |-> "none"]
    /\ arg' = [h \in Handlers |-> None]
    /\ stale' = FALSE
    /\ UNCHANGED <<onDisk, now, issued, revoked>>

\* Mutant: load does not single out a missing file.
StartNoMissingCase ==
    /\ ~up
    /\ file # Damaged
    /\ up' = TRUE
    /\ users' = file
    /\ onDisk' = TRUE
    /\ UNCHANGED <<file, tmp, handlers, now, history>>

\* Mutant: a leftover ".tmp" is taken for the newer roster.
StartFromLeftover ==
    /\ ~up
    /\ file # Damaged
    /\ up' = TRUE
    /\ users' = Roster(IF tmp \in {Missing, Damaged} THEN file ELSE tmp)
    /\ onDisk' = TRUE
    /\ UNCHANGED <<file, tmp, handlers, now, history>>

\* NewAccessStore loads the roster ...
Start ==
    /\ ~up
    /\ file # Damaged
    /\ up' = TRUE
    /\ users' = Roster(file)
    /\ onDisk' = TRUE
    /\ UNCHANGED <<file, tmp, handlers, now, history>>

\* Mutant: the fallback store keeps the path.
StartInMemoryOnDisk ==
    /\ ~up
    /\ up' = TRUE
    /\ users' = {}
    /\ onDisk' = TRUE
    /\ UNCHANGED <<file, tmp, handlers, now, history>>

\* ... or cannot, because it does not decode or cannot be read just now, and
\* the server runs on an empty store without a path; which is also what it runs
\* on when the configuration names none (ACCESS_STORE_PATH set to nothing).
StartInMemory ==
    /\ ~up
    /\ up' = TRUE
    /\ users' = {}
    /\ onDisk' = FALSE
    /\ UNCHANGED <<file, tmp, handlers, now, history>>

\* The operator's edit of the file, made while the server is down, goes wrong.
OperatorDamages ==
    /\ ~up
    /\ file' = Damaged
    /\ UNCHANGED <<up, users, onDisk, tmp, handlers, now, history>>

Tick ==
    /\ now < MaxTime
    /\ now' = now + 1
    /\ UNCHANGED <<up, store, handlers, history>>

Save(h) ==
    \/ WriteRoster(h)
    \/ WriteRosterFails(h)
    \/ RenameRoster(h)
    \/ RenameRosterFails(h)
    \/ SaveNowhere(h)

Next ==
    \/ \E h \in Handlers, u \in Users : BeginCreate(h, u) \/ BeginDelete(h, u)
    \/ \E h \in Handlers : Create(h) \/ Delete(h) \/ Save(h)
    \/ Die
    \/ Start
    \/ StartInMemory
    \/ OperatorDamages
    \/ Tick

\* A handler that runs finishes its save, and sync.RWMutex starves nobody.
Fairness ==
    \A h \in Handlers : WF_vars(Save(h)) /\ SF_vars(Create(h) \/ Delete(h))

Spec == Init /\ [][Next]_vars
FairSpec == Spec /\ Fairness

-----------------------------------------------------------------------------
\* Unless a save has failed, an unlocked store and its file agree: what a
\* restart would load is what is being served (Create, Delete and save change
\* both under one lock).
FileAgreesWithMemory ==
    up /\ onDisk /\ mu = None /\ ~stale => Roster(file) = users

\* A deleted user that has left the file and the map never comes back: not
\* from a save that another handler had under way, nor from a restart.
GoneStaysGone ==
    \A u \in revoked : u \notin users \cup Roster(file)
        => u \notin users' \cup Roster(file')
RevocationIsFinal == [][GoneStaysGone]_vars

\* Users leave the file only by being deleted: a roster that could not be
\* loaded is never overwritten with the empty one the server runs on instead.
\* (The operator may lose it, while the server is down.)
Deleting(u) == \E h \in Handlers : mu = h /\ op[h] = "delete" /\ arg[h] = u
LeavesByDeletion ==
    up => \A u \in Roster(file) \ Roster(file') : u \in revoked \/ Deleting(u)
OnlyDeletedUsersLeaveTheFile == [][LeavesByDeletion]_vars

\* No step of the server leaves a file that does not decode, and none touches
\* one the operator has yet to repair.
WholeStaysWhole == up => (file = Damaged <=> file' = Damaged)
FileStaysWhole == [][WholeStaysWhole]_vars

\* While the server runs, a token it refuses (deleted, expired) stays refused.
RefusalKept == \A u \in issued : up /\ ~Authorized(u) => ~Authorized(u)'
RefusedStaysRefused == [][RefusalKept]_vars

\* Every create or delete that begins is answered, whatever the disk does.
EveryRequestReturns ==
    \A h \in Handlers : pc[h] # "idle" ~> pc[h] = "idle"

\* The roster without files, locks and handlers.
Durable == INSTANCE DurableRoster WITH live <- users, durable <- Roster(file)
ImplementsDurableRoster == Durable!Spec
=============================================================================
