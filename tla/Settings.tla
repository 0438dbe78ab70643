------------------------------ MODULE Settings ------------------------------
(***************************************************************************)
(* The live settings (server/internal/settings/settings.go): seeded from   *)
(* the configuration, overlaid at startup with the file a previous process *)
(* saved, changed by the panel (admin.go, apiPutSettings) while requests   *)
(* read them, and saved by every change under the mutex that guards them.  *)
(* A save that fails is logged and nothing else.  Without a path the       *)
(* settings live in memory only: nothing is read and nothing is written.   *)
(***************************************************************************)
EXTENDS Naturals

CONSTANTS
    Modules,    \* knownModules
    Generic,    \* the one that is implemented
    Unknown,    \* a module name that is not known
    Handlers,   \* the goroutines serving admin requests
    Boot,       \* the goroutine running server.New
    Requests,   \* the snapshots the panel or another client may send
    Missing, Damaged,
    None

ASSUME ModulesAssumption == Generic \in Modules /\ Unknown \notin Modules
ASSUME ActorsAssumption ==
    Boot \notin Handlers /\ None \notin Handlers \cup {Boot}

\* What a caller may send: a snapshot may leave modules out, or misname one.
Partial == UNION {[names -> BOOLEAN] : names \in SUBSET (Modules \cup {Unknown})}
Snapshot == [proxyEnabled : BOOLEAN, accessLog : BOOLEAN, modules : Partial]

\* What the process holds and the file stores: a value for every known module.
Complete ==
    [proxyEnabled : BOOLEAN, accessLog : BOOLEAN, modules : [Modules -> BOOLEAN]]

ASSUME RequestsAssumption == Requests \subseteq Snapshot
ASSUME ContentsAssumption == \A s \in Complete : s \notin {Missing, Damaged}

VARIABLES
    up,         \* the process is running
    settings,   \* the fields of Settings
    onDisk,     \* Settings.path is not ""
    file, tmp,  \* settings.json and its ".tmp"
    mu,         \* the goroutine holding Settings.mu, or None
    pc,         \* where each goroutine is: idle, lock, write or rename
    change,     \* the snapshot a goroutine applies
    stale       \* history: file and settings may differ since a save or the
                \* read at startup failed

vars == <<up, settings, onDisk, file, tmp, mu, pc, change, stale>>

Actors == Handlers \cup {Boot}
File == INSTANCE AtomicFile

\* settings.New
Seeded(proxyEnabled, accessLog) ==
    [proxyEnabled |-> proxyEnabled,
     accessLog |-> accessLog,
     modules |-> [m \in Modules |-> m = Generic /\ proxyEnabled]]

\* settings.Validate
Valid(snap) == DOMAIN snap.modules \subseteq Modules

\* Mutant: the snapshot's module map replaces the old one.
AppliedMapWhole(s, snap) ==
    [proxyEnabled |-> snap.proxyEnabled,
     accessLog |-> snap.accessLog,
     modules |-> snap.modules]

\* Mutant: the access log is left as it was.
AppliedLogForgotten(s, snap) ==
    [proxyEnabled |-> snap.proxyEnabled,
     accessLog |-> s.accessLog,
     modules |-> [m \in Modules |->
         IF m \in DOMAIN snap.modules THEN snap.modules[m]
         ELSE IF m = Generic THEN snap.proxyEnabled
         ELSE s.modules[m]]]

\* The fields after Settings.Apply: modules the snapshot leaves out keep their
\* value, except that generic first follows proxyEnabled.
Applied(s, snap) ==
    [proxyEnabled |-> snap.proxyEnabled,
     accessLog |-> snap.accessLog,
     modules |-> [m \in Modules |->
         IF m \in DOMAIN snap.modules THEN snap.modules[m]
         ELSE IF m = Generic THEN snap.proxyEnabled
         ELSE s.modules[m]]]

TypeOK ==
    /\ up \in BOOLEAN /\ stale \in BOOLEAN /\ onDisk \in BOOLEAN
    /\ settings \in Complete
    /\ file \in {Missing, Damaged} \cup Complete
    /\ tmp \in {Missing, Damaged} \cup Complete
    /\ mu \in Actors \cup {None}
    /\ pc \in [Actors -> {"idle", "lock", "write", "rename"}]
    /\ change \in [Actors -> {None} \cup Snapshot]

-----------------------------------------------------------------------------
Init ==
    /\ up = TRUE
    /\ settings \in {Seeded(p, l) : p, l \in BOOLEAN}
    /\ onDisk \in BOOLEAN
    /\ file = Missing /\ tmp = Missing
    /\ mu = None
    /\ pc = [a \in Actors |-> "idle"]
    /\ change = [a \in Actors |-> None]
    /\ stale = TRUE

Goto(a, label) == pc' = [pc EXCEPT ![a] = label]

\* apiPutSettings up to Apply; a snapshot Validate refuses gets 400. The
\* listeners are not open until server.New has returned.
BeginChange(h, snap) ==
    /\ up
    /\ pc[Boot] = "idle"
    /\ pc[h] = "idle"
    /\ Valid(snap)
    /\ Goto(h, "lock")
    /\ change' = [change EXCEPT ![h] = snap]
    /\ UNCHANGED <<up, settings, onDisk, file, tmp, mu, stale>>

\* Mutant: Apply assigns and saves without the mutex.
ApplyWithoutLock(a) ==
    /\ pc[a] = "lock"
    /\ settings' = Applied(settings, change[a])
    /\ Goto(a, "write")
    /\ UNCHANGED <<up, onDisk, file, tmp, mu, change, stale>>

\* Settings.Apply takes the mutex and assigns every field; save follows.
Apply(a) ==
    /\ pc[a] = "lock"
    /\ mu = None
    /\ mu' = a
    /\ settings' = Applied(settings, change[a])
    /\ Goto(a, "write")
    /\ UNCHANGED <<up, onDisk, file, tmp, change, stale>>

\* Mutant: save returns early on an error, past the unlock.
UnlockOnlyIfSaved(a, saved) ==
    /\ mu' = IF saved THEN None ELSE mu
    /\ Goto(a, "idle")
    /\ change' = [change EXCEPT ![a] = None]
    /\ stale' = ~saved

\* save is over; the panel is told 200 either way.
Unlock(a, saved) ==
    /\ mu' = None
    /\ Goto(a, "idle")
    /\ change' = [change EXCEPT ![a] = None]
    /\ stale' = ~saved

WriteSettings(a) ==
    /\ pc[a] = "write" /\ onDisk
    /\ File!WriteTemp(settings)
    /\ Goto(a, "rename")
    /\ UNCHANGED <<up, settings, onDisk, mu, change, stale>>

WriteSettingsFails(a) ==
    /\ pc[a] = "write" /\ onDisk
    /\ File!WriteTempFails
    /\ Unlock(a, FALSE)
    /\ UNCHANGED <<up, settings, onDisk>>

RenameSettings(a) ==
    /\ pc[a] = "rename"
    /\ File!RenameTemp
    /\ Unlock(a, TRUE)
    /\ UNCHANGED <<up, settings, onDisk>>

RenameSettingsFails(a) ==
    /\ pc[a] = "rename"
    /\ File!RenameTempFails
    /\ Unlock(a, FALSE)
    /\ UNCHANGED <<up, settings, onDisk>>

\* save without a path writes nothing, and has nothing to complain about.
SaveNowhere(a) ==
    /\ pc[a] = "write" /\ ~onDisk
    /\ Unlock(a, TRUE)
    /\ UNCHANGED <<up, settings, onDisk, file, tmp>>

Save(a) ==
    \/ WriteSettings(a)
    \/ WriteSettingsFails(a)
    \/ RenameSettings(a)
    \/ RenameSettingsFails(a)
    \/ SaveNowhere(a)

-----------------------------------------------------------------------------
\* The process ends, at any point.
Die ==
    /\ up
    /\ up' = FALSE
    /\ IF onDisk /\ \E a \in Actors : pc[a] = "write"
         THEN File!DieWriting(settings)
         ELSE UNCHANGED <<file, tmp>>
    /\ mu' = None
    /\ pc' = [a \in Actors |-> "idle"]
    /\ change' = [a \in Actors |-> None]
    /\ UNCHANGED <<settings, onDisk, stale>>

\* server.New: the fields are seeded from a configuration that may have been
\* edited since, and Persist, if it is given a path, applies the saved file, if it
\* can read one.
Start(proxyEnabled, accessLog, named) ==
    /\ ~up
    /\ up' = TRUE
    /\ settings' = Seeded(proxyEnabled, accessLog)
    /\ onDisk' = named
    /\ \/ /\ named /\ file \notin {Missing, Damaged}
          /\ Goto(Boot, "lock")
          /\ change' = [change EXCEPT ![Boot] = file]
          /\ UNCHANGED stale
       \/ \* missing, undecodable, or not readable just now
          /\ named
          /\ UNCHANGED <<pc, change>>
          /\ stale' = TRUE
       \/ /\ ~named
          /\ UNCHANGED <<pc, change>>
          /\ stale' = FALSE
    /\ UNCHANGED <<file, tmp, mu>>

\* The operator's edit of the file, made while the server is down, goes wrong.
OperatorDamages ==
    /\ ~up
    /\ file' = Damaged
    /\ UNCHANGED <<up, settings, onDisk, tmp, mu, pc, change, stale>>

Next ==
    \/ \E h \in Handlers, snap \in Requests : BeginChange(h, snap)
    \/ \E a \in Actors : Apply(a) \/ Save(a)
    \/ Die
    \/ \E p, l, n \in BOOLEAN : Start(p, l, n)
    \/ OperatorDamages

\* A goroutine that runs finishes its save, and sync.RWMutex starves nobody.
Fairness == \A a \in Actors : WF_vars(Save(a)) /\ SF_vars(Apply(a))

Spec == Init /\ [][Next]_vars
FairSpec == Spec /\ Fairness

-----------------------------------------------------------------------------
\* Of settings that have a path: unless the last save or the read at startup
\* failed, a restart with that path would bring back exactly those in force.
\* (Without a path, none does: the next start begins with the configuration.)
FileAgreesWithSettings ==
    up /\ onDisk /\ pc[Boot] = "idle" /\ mu = None /\ ~stale => file = settings

\* What a restart with a path brings back is the saved file to the letter, whatever
\* the configuration now says: Persist seeds first and overlays after.  A process
\* without a path leaves an earlier process's file as it is.
BootRestores ==
    /\ pc[Boot] = "lock" /\ pc'[Boot] = "write" => settings' = file
    /\ up /\ ~onDisk => UNCHANGED <<file, tmp>>
BootRestoresFile == [][BootRestores]_vars

\* Every change the panel sends is answered, whatever the disk does.
EveryChangeReturns == \A a \in Actors : pc[a] # "idle" ~> pc[a] = "idle"
=============================================================================
