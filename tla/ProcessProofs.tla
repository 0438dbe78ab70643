------------------------------ MODULE ProcessProofs ------------------------------
(***************************************************************************)
(* Theorems about the process, from its start to its end: about Startup    *)
(* (and the Settings and Config it is made of) for any modules, handlers,  *)
(* snapshots and environments, and about ServerLifecycle.                  *)
(* The argument for the first: a goroutine inside the critical section     *)
(* holds the mutex, so what it renames into place is the settings in       *)
(* force; while Persist overlays the saved file no handler exists to       *)
(* change either; and no process runs on an environment that does not      *)
(* load.  For the second: at each call of the shutdown the servers closed  *)
(* so far are the ones before it, a server that is closed takes no new     *)
(* request, and what Run waits for at the end is every goroutine it        *)
(* started.  (Tunnels are not among what it waits for.)                    *)
(***************************************************************************)
EXTENDS Startup, ServerLifecycle, TLAPS

\* A goroutine between the request and the reply has a valid snapshot, and is
\* past Apply exactly when it holds the mutex; a rename takes a path.
ActorInv ==
    \A a \in Actors :
        /\ pc[a] # "idle" => up
        /\ pc[a] = "rename" => onDisk
        /\ pc[a] = "lock" => change[a] \in Snapshot /\ Valid(change[a])
        /\ pc[a] \in {"write", "rename"} <=> mu = a

\* While server.New restores the file there is nobody else, and what it holds
\* is the file.
BootInv ==
    /\ pc[Boot] # "idle" => \A h \in Handlers : pc[h] = "idle"
    /\ pc[Boot] = "lock" => file \in Complete /\ change[Boot] = file

\* A complete ".tmp" about to be renamed holds the settings in force.
SnapshotInv == \A a \in Actors : pc[a] = "rename" => tmp = settings

\* The inductive invariant of the settings.
IInv ==
    /\ TypeOK
    /\ ActorInv
    /\ BootInv
    /\ SnapshotInv
    /\ FileAgreesWithSettings

-----------------------------------------------------------------------------
\* What the file stores is a snapshot, a valid one.
LEMMA CompleteIsSnapshot ==
    ASSUME NEW s \in Complete PROVE s \in Snapshot /\ Valid(s)
<1>1. Modules \in SUBSET (Modules \cup {Unknown})
  OBVIOUS
<1>2. s.modules \in Partial
  BY <1>1 DEF Complete, Partial
<1>3. s \in Snapshot
  BY <1>2 DEF Complete, Snapshot
<1>4. Valid(s)
  BY DEF Complete, Valid
<1>. QED
  BY <1>3, <1>4

\* Apply leaves a value for every known module, whatever a snapshot leaves out.
LEMMA AppliedIsComplete ==
    ASSUME NEW s \in Complete, NEW snap \in Snapshot, Valid(snap)
    PROVE  Applied(s, snap) \in Complete
<1>1. PICK names \in SUBSET (Modules \cup {Unknown}) :
        snap.modules \in [names -> BOOLEAN]
  BY DEF Snapshot, Partial
<1>2. ASSUME NEW m \in Modules
      PROVE  (IF m \in DOMAIN snap.modules THEN snap.modules[m]
              ELSE IF m = Generic THEN snap.proxyEnabled ELSE s.modules[m])
             \in BOOLEAN
  BY <1>1 DEF Snapshot, Complete
<1>3. snap.proxyEnabled \in BOOLEAN /\ snap.accessLog \in BOOLEAN
  BY DEF Snapshot
<1>. QED
  BY <1>2, <1>3 DEF Applied, Complete

\* Applying a saved file, which has them all, gives the file back.
LEMMA AppliedRestores ==
    ASSUME NEW s \in Complete, NEW saved \in Complete
    PROVE  Applied(s, saved) = saved
<1>1. DOMAIN saved.modules = Modules
  BY DEF Complete
<1>2. saved.modules = [m \in Modules |-> saved.modules[m]]
  BY DEF Complete
<1>3. saved = [proxyEnabled |-> saved.proxyEnabled, accessLog |-> saved.accessLog,
               modules |-> saved.modules]
  BY DEF Complete
<1>4. [m \in Modules |->
         IF m \in DOMAIN saved.modules THEN saved.modules[m]
         ELSE IF m = Generic THEN saved.proxyEnabled ELSE s.modules[m]]
      = saved.modules
  BY <1>1, <1>2
<1>. QED
  BY <1>3, <1>4 DEF Applied

\* What the configuration seeds is complete.
LEMMA SeededIsComplete ==
    ASSUME NEW p \in BOOLEAN, NEW l \in BOOLEAN PROVE Seeded(p, l) \in Complete
BY DEF Seeded, Complete

\* The invariant holds at first boot.
LEMMA InitIInv == Init => IInv
<1> SUFFICES ASSUME Init PROVE IInv
  OBVIOUS
<1> USE ActorsAssumption DEF Init, Actors
<1>1. TypeOK
  BY SeededIsComplete DEF TypeOK
<1>2. ActorInv /\ BootInv /\ SnapshotInv
  BY DEF ActorInv, BootInv, SnapshotInv
<1>3. FileAgreesWithSettings
  BY DEF FileAgreesWithSettings
<1>. QED
  BY <1>1, <1>2, <1>3 DEF IInv

\* Every step keeps the types.
LEMMA NextType ==
    ASSUME TypeOK, ActorInv, [Next]_vars PROVE TypeOK'
<1> USE ActorsAssumption, ContentsAssumption DEF TypeOK, ActorInv, Actors
<1>1. ASSUME NEW h \in Handlers, NEW snap \in Requests, BeginChange(h, snap)
      PROVE  TypeOK'
  BY <1>1, RequestsAssumption DEF BeginChange, Goto
<1>2. ASSUME NEW a \in Actors, Apply(a) PROVE TypeOK'
  BY <1>2, AppliedIsComplete DEF Apply, Goto
<1>3. ASSUME NEW a \in Actors, WriteSettings(a) PROVE TypeOK'
  BY <1>3 DEF WriteSettings, Goto, File!WriteTemp
<1>4. ASSUME NEW a \in Actors, WriteSettingsFails(a) PROVE TypeOK'
  BY <1>4 DEF WriteSettingsFails, Unlock, Goto, File!WriteTempFails
<1>5. ASSUME NEW a \in Actors, RenameSettings(a) PROVE TypeOK'
  BY <1>5 DEF RenameSettings, Unlock, Goto, File!RenameTemp
<1>6. ASSUME NEW a \in Actors, RenameSettingsFails(a) PROVE TypeOK'
  BY <1>6 DEF RenameSettingsFails, Unlock, Goto,
          File!RenameTempFails, File!fileVars
<1>7. CASE Die
  BY <1>7 DEF Die, File!DieWriting
<1>8. ASSUME NEW p \in BOOLEAN, NEW l \in BOOLEAN, NEW n \in BOOLEAN, Start(p, l, n)
      PROVE  TypeOK'
  BY <1>8, SeededIsComplete, CompleteIsSnapshot DEF Start, Goto
<1>9. CASE OperatorDamages
  BY <1>9 DEF OperatorDamages
<1>10. ASSUME NEW a \in Actors, SaveNowhere(a) PROVE TypeOK'
  BY <1>10 DEF SaveNowhere, Unlock, Goto
<1>11. CASE UNCHANGED vars
  BY <1>11 DEF vars
<1>. QED
  BY <1>1, <1>2, <1>3, <1>4, <1>5, <1>6, <1>7,
     <1>8, <1>9, <1>10, <1>11 DEF Next, Save

\* Apply waits for the mutex, and only its holder gives it back.
LEMMA NextActor ==
    ASSUME TypeOK, ActorInv, [Next]_vars PROVE ActorInv'
<1> USE ActorsAssumption, ContentsAssumption DEF TypeOK, ActorInv, Actors
<1>1. ASSUME NEW h \in Handlers, NEW snap \in Requests, BeginChange(h, snap)
      PROVE  ActorInv'
  BY <1>1, RequestsAssumption DEF BeginChange, Goto
<1>2. ASSUME NEW a \in Actors, Apply(a) PROVE ActorInv'
  BY <1>2 DEF Apply, Goto
<1>3. ASSUME NEW a \in Actors, WriteSettings(a) PROVE ActorInv'
  BY <1>3 DEF WriteSettings, Goto, File!WriteTemp
<1>4. ASSUME NEW a \in Actors, WriteSettingsFails(a) PROVE ActorInv'
  BY <1>4 DEF WriteSettingsFails, Unlock, Goto, File!WriteTempFails
<1>5. ASSUME NEW a \in Actors, RenameSettings(a) PROVE ActorInv'
  BY <1>5 DEF RenameSettings, Unlock, Goto, File!RenameTemp
<1>6. ASSUME NEW a \in Actors, RenameSettingsFails(a) PROVE ActorInv'
  BY <1>6 DEF RenameSettingsFails, Unlock, Goto,
          File!RenameTempFails, File!fileVars
<1>7. CASE Die
  BY <1>7 DEF Die, File!DieWriting
<1>8. ASSUME NEW p \in BOOLEAN, NEW l \in BOOLEAN, NEW n \in BOOLEAN, Start(p, l, n)
      PROVE  ActorInv'
  BY <1>8, CompleteIsSnapshot DEF Start, Goto
<1>9. CASE OperatorDamages
  BY <1>9 DEF OperatorDamages
<1>10. ASSUME NEW a \in Actors, SaveNowhere(a) PROVE ActorInv'
  BY <1>10 DEF SaveNowhere, Unlock, Goto
<1>11. CASE UNCHANGED vars
  BY <1>11 DEF vars
<1>. QED
  BY <1>1, <1>2, <1>3, <1>4, <1>5, <1>6, <1>7,
     <1>8, <1>9, <1>10, <1>11 DEF Next, Save

\* The listeners open when server.New is over.
LEMMA NextBoot ==
    ASSUME TypeOK, ActorInv, BootInv, [Next]_vars PROVE BootInv'
<1> USE ActorsAssumption DEF TypeOK, ActorInv, BootInv, Actors
<1>1. ASSUME NEW h \in Handlers, NEW snap \in Requests, BeginChange(h, snap)
      PROVE  BootInv'
  BY <1>1 DEF BeginChange, Goto
<1>2. ASSUME NEW a \in Actors, Apply(a) PROVE BootInv'
  BY <1>2 DEF Apply, Goto
<1>3. ASSUME NEW a \in Actors, WriteSettings(a) PROVE BootInv'
  BY <1>3 DEF WriteSettings, Goto, File!WriteTemp
<1>4. ASSUME NEW a \in Actors, WriteSettingsFails(a) PROVE BootInv'
  BY <1>4 DEF WriteSettingsFails, Unlock, Goto, File!WriteTempFails
<1>5. ASSUME NEW a \in Actors, RenameSettings(a) PROVE BootInv'
  BY <1>5 DEF RenameSettings, Unlock, Goto, File!RenameTemp
<1>6. ASSUME NEW a \in Actors, RenameSettingsFails(a) PROVE BootInv'
  BY <1>6 DEF RenameSettingsFails, Unlock, Goto,
          File!RenameTempFails, File!fileVars
<1>7. CASE Die
  BY <1>7 DEF Die, File!DieWriting
<1>8. ASSUME NEW p \in BOOLEAN, NEW l \in BOOLEAN, NEW n \in BOOLEAN, Start(p, l, n)
      PROVE  BootInv'
  BY <1>8 DEF Start, Goto
<1>9. CASE OperatorDamages
  BY <1>9 DEF OperatorDamages
<1>10. ASSUME NEW a \in Actors, SaveNowhere(a) PROVE BootInv'
  BY <1>10 DEF SaveNowhere, Unlock, Goto
<1>11. CASE UNCHANGED vars
  BY <1>11 DEF vars
<1>. QED
  BY <1>1, <1>2, <1>3, <1>4, <1>5, <1>6, <1>7,
     <1>8, <1>9, <1>10, <1>11 DEF Next, Save

\* Nobody changes the settings or ".tmp" while a rename is pending.
LEMMA NextSnapshot ==
    ASSUME TypeOK, ActorInv, SnapshotInv, [Next]_vars PROVE SnapshotInv'
<1> USE ActorsAssumption DEF TypeOK, ActorInv, SnapshotInv, Actors
<1>1. ASSUME NEW h \in Handlers, NEW snap \in Requests, BeginChange(h, snap)
      PROVE  SnapshotInv'
  BY <1>1 DEF BeginChange, Goto
<1>2. ASSUME NEW a \in Actors, Apply(a) PROVE SnapshotInv'
  BY <1>2 DEF Apply, Goto
<1>3. ASSUME NEW a \in Actors, WriteSettings(a) PROVE SnapshotInv'
  BY <1>3 DEF WriteSettings, Goto, File!WriteTemp
<1>4. ASSUME NEW a \in Actors, WriteSettingsFails(a) PROVE SnapshotInv'
  BY <1>4 DEF WriteSettingsFails, Unlock, Goto, File!WriteTempFails
<1>5. ASSUME NEW a \in Actors, RenameSettings(a) PROVE SnapshotInv'
  BY <1>5 DEF RenameSettings, Unlock, Goto, File!RenameTemp
<1>6. ASSUME NEW a \in Actors, RenameSettingsFails(a) PROVE SnapshotInv'
  BY <1>6 DEF RenameSettingsFails, Unlock, Goto,
          File!RenameTempFails, File!fileVars
<1>7. CASE Die
  BY <1>7 DEF Die, File!DieWriting
<1>8. ASSUME NEW p \in BOOLEAN, NEW l \in BOOLEAN, NEW n \in BOOLEAN, Start(p, l, n)
      PROVE  SnapshotInv'
  BY <1>8 DEF Start, Goto
<1>9. CASE OperatorDamages
  BY <1>9 DEF OperatorDamages
<1>10. ASSUME NEW a \in Actors, SaveNowhere(a) PROVE SnapshotInv'
  BY <1>10 DEF SaveNowhere, Unlock, Goto
<1>11. CASE UNCHANGED vars
  BY <1>11 DEF vars
<1>. QED
  BY <1>1, <1>2, <1>3, <1>4, <1>5, <1>6, <1>7,
     <1>8, <1>9, <1>10, <1>11 DEF Next, Save

\* A successful save makes file and settings agree.
LEMMA NextAgrees ==
    ASSUME TypeOK, ActorInv, SnapshotInv,
           FileAgreesWithSettings, [Next]_vars PROVE FileAgreesWithSettings'
<1> USE ActorsAssumption DEF TypeOK, ActorInv, SnapshotInv,
       FileAgreesWithSettings, Actors
<1>1. ASSUME NEW h \in Handlers, NEW snap \in Requests, BeginChange(h, snap)
      PROVE  FileAgreesWithSettings'
  BY <1>1 DEF BeginChange, Goto
<1>2. ASSUME NEW a \in Actors, Apply(a) PROVE FileAgreesWithSettings'
  BY <1>2 DEF Apply, Goto
<1>3. ASSUME NEW a \in Actors, WriteSettings(a)
      PROVE  FileAgreesWithSettings'
  BY <1>3 DEF WriteSettings, Goto, File!WriteTemp
<1>4. ASSUME NEW a \in Actors, WriteSettingsFails(a)
      PROVE  FileAgreesWithSettings'
  BY <1>4 DEF WriteSettingsFails, Unlock, Goto, File!WriteTempFails
<1>5. ASSUME NEW a \in Actors, RenameSettings(a)
      PROVE  FileAgreesWithSettings'
  BY <1>5 DEF RenameSettings, Unlock, Goto, File!RenameTemp
<1>6. ASSUME NEW a \in Actors, RenameSettingsFails(a)
      PROVE  FileAgreesWithSettings'
  BY <1>6 DEF RenameSettingsFails, Unlock, Goto,
          File!RenameTempFails, File!fileVars
<1>7. CASE Die
  BY <1>7 DEF Die, File!DieWriting
<1>8. ASSUME NEW p \in BOOLEAN, NEW l \in BOOLEAN, NEW n \in BOOLEAN, Start(p, l, n)
      PROVE  FileAgreesWithSettings'
  BY <1>8 DEF Start, Goto
<1>9. CASE OperatorDamages
  BY <1>9 DEF OperatorDamages
<1>10. ASSUME NEW a \in Actors, SaveNowhere(a) PROVE FileAgreesWithSettings'
  BY <1>10 DEF SaveNowhere, Unlock, Goto
<1>11. CASE UNCHANGED vars
  BY <1>11 DEF vars
<1>. QED
  BY <1>1, <1>2, <1>3, <1>4, <1>5, <1>6, <1>7,
     <1>8, <1>9, <1>10, <1>11 DEF Next, Save

\* The conjuncts together are inductive.
LEMMA NextIInv == IInv /\ [Next]_vars => IInv'
BY NextType, NextActor, NextBoot, NextSnapshot, NextAgrees DEF IInv

\* Only server.New's own Apply takes it from the mutex to the save.
LEMMA RestoreStep == ASSUME IInv, [Next]_vars PROVE BootRestores
<1> USE ActorsAssumption DEF IInv, TypeOK, ActorInv, BootInv, Actors, BootRestores
<1>1. ASSUME NEW h \in Handlers, NEW snap \in Requests, BeginChange(h, snap)
      PROVE  BootRestores
  BY <1>1 DEF BeginChange, Goto
<1>2. ASSUME NEW a \in Actors, Apply(a)
      PROVE  BootRestores
  BY <1>2, AppliedRestores DEF Apply, Goto
<1>3. ASSUME NEW a \in Actors, WriteSettings(a)
      PROVE  BootRestores
  BY <1>3 DEF WriteSettings, Goto, File!WriteTemp
<1>4. ASSUME NEW a \in Actors, WriteSettingsFails(a)
      PROVE  BootRestores
  BY <1>4 DEF WriteSettingsFails, Unlock, Goto, File!WriteTempFails
<1>5. ASSUME NEW a \in Actors, RenameSettings(a)
      PROVE  BootRestores
  BY <1>5 DEF RenameSettings, Unlock, Goto, File!RenameTemp
<1>6. ASSUME NEW a \in Actors, RenameSettingsFails(a)
      PROVE  BootRestores
  BY <1>6 DEF RenameSettingsFails, Unlock, Goto,
          File!RenameTempFails, File!fileVars
<1>7. CASE Die
  BY <1>7 DEF Die, File!DieWriting
<1>8. ASSUME NEW p \in BOOLEAN, NEW l \in BOOLEAN, NEW n \in BOOLEAN, Start(p, l, n)
      PROVE  BootRestores
  BY <1>8 DEF Start, Goto
<1>9. CASE OperatorDamages
  BY <1>9 DEF OperatorDamages
<1>10. ASSUME NEW a \in Actors, SaveNowhere(a) PROVE BootRestores
  BY <1>10 DEF SaveNowhere, Unlock, Goto
<1>11. CASE UNCHANGED vars
  BY <1>11 DEF vars
<1>. QED
  BY <1>1, <1>2, <1>3, <1>4, <1>5, <1>6, <1>7,
     <1>8, <1>9, <1>10, <1>11 DEF Next, Save

-----------------------------------------------------------------------------
\* The environment in force is one that loads.
EnvInv == env \in Envs /\ Loads(env)

\* What Load makes of the booleans, and whether there is a path.
LEMMA LoadedBooleans ==
    \A e : /\ Loaded(e).proxyEnabled \in BOOLEAN /\ Loaded(e).accessLog \in BOOLEAN
           /\ SettingsOnDisk(e) \in BOOLEAN
BY DEF Loaded, getBool, SettingsOnDisk

\* A step of the whole is a step of the settings, or none.
LEMMA SystemStep == [SystemNext]_systemVars => [Next]_vars
<1> SUFFICES ASSUME SystemNext PROVE Next
  BY DEF systemVars
<1>1. ASSUME NEW h \in Handlers, NEW snap \in Requests, PanelChanges(h, snap)
      PROVE  Next
  BY <1>1 DEF PanelChanges, Next
<1>2. ASSUME NEW a \in Actors, SystemApply(a) \/ SystemSave(a) PROVE Next
  BY <1>2 DEF SystemApply, SystemSave, Next
<1>3. ASSUME NEW e \in Envs, SystemStart(e) PROVE Next
  BY <1>3, LoadedBooleans DEF SystemStart, Next
<1>4. CASE Die \/ OperatorDamages
  BY <1>4 DEF Next
<1>. QED
  BY <1>1, <1>2, <1>3, <1>4 DEF SystemNext

\* An environment changes only by a start, which loads it.
LEMMA EnvStep == EnvInv /\ [SystemNext]_systemVars => EnvInv'
<1> SUFFICES ASSUME EnvInv, [SystemNext]_systemVars PROVE EnvInv'
  OBVIOUS
<1> USE DEF EnvInv
<1>1. CASE env' = env
  BY <1>1
<1>2. ASSUME NEW e \in Envs, SystemStart(e) PROVE EnvInv'
  BY <1>2 DEF SystemStart
<1>. QED
  BY <1>1, <1>2 DEF SystemNext, PanelChanges, SystemApply, SystemSave, systemVars

\* The composition implements its part: under any environments the settings
\* behave as Settings says, where a configuration is any two switches and a path or
\* none.
THEOREM ImplementsSettings == SystemSpec => Spec
<1>1. SystemInit => Init
  BY DEF SystemInit
<1>. QED
  BY <1>1, SystemStep, PTL DEF SystemSpec, Spec

\* The strengthened invariants hold throughout.
LEMMA SettingsInductive == Spec => []IInv
BY InitIInv, NextIInv, PTL DEF Spec

LEMMA EnvInductive == SystemSpec => []EnvInv
<1>1. SystemInit => EnvInv
  BY DEF SystemInit, EnvInv
<1>. QED
  BY <1>1, EnvStep, PTL DEF SystemSpec

-----------------------------------------------------------------------------
\* Every variable keeps its type: a value for every known module among them,
\* whatever a snapshot leaves out.
THEOREM TypeCorrect == SystemSpec => []TypeOK
<1>1. IInv => TypeOK
  BY DEF IInv
<1>. QED
  BY <1>1, ImplementsSettings, SettingsInductive, PTL

\* Of settings with a path: unless a save or the read at startup failed, what a
\* restart with it would bring back is what is in force, for Apply and save share
\* one critical section.
THEOREM FileAgrees == SystemSpec => []FileAgreesWithSettings
<1>1. IInv => FileAgreesWithSettings
  BY DEF IInv
<1>. QED
  BY <1>1, ImplementsSettings, SettingsInductive, PTL

\* Persist, given a path, brings the saved file back to the letter, whatever else
\* the environment of this start says; and without a path nothing is written.
THEOREM BootRestoresTheFile == SystemSpec => BootRestoresFile
<1>1. IInv /\ [Next]_vars => BootRestores
  BY RestoreStep
<1>. QED
  BY <1>1, ImplementsSettings, SettingsInductive, PTL DEF Spec, BootRestoresFile

\* Tokens that were asked for are asked for, an open relay nobody acknowledged
\* came from the panel alone, and a panel that is up is one validate accepts:
\* in every state, whatever was saved before.
THEOREM ControlsAlwaysHold == SystemSpec => []ControlsHold
<1>1. EnvInv => ControlsHold
  BY DEF EnvInv, ControlsHold, OpenRelay, Listening, Loads, Parses, Bools,
         ProxyIsValid, PanelIsValid, ProxyMounted, PanelMounted, Loaded, getBool,
         getString
<1>. QED
  BY <1>1, EnvInductive, PTL

-----------------------------------------------------------------------------
\* ServerLifecycle.

\* The servers whose Shutdown comes before that of l, or of nothing.
Before(l) ==
    IF l = "main" THEN {} ELSE IF l = "metrics" THEN {"main"}
    ELSE IF l = "admin" THEN {"main", "metrics"} ELSE Built

\* A panel that was not built has nothing to run.
PanelInv == ~panel => listener["admin"] = "done"

\* What is closed where Run is.
ClosingInv ==
    /\ stage \in {"select", "selected"} => draining = "main" /\ closing = {}
    /\ stage = "shutdown" => draining \in Built /\ closing = Before(draining)
    /\ stage = "drain" =>
         draining \in Built /\ closing = Before(draining) \cup {draining}
    /\ stage \in {"wait", "returned"} => draining = "nothing" /\ closing = Built
    /\ stage = "returned" => \A l \in Listeners : listener[l] = "done"

\* A server that was waited for is idle but for tunnels, unless time ran out.
IdleInv == \A l \in closing \ {draining} : expired \/ l \notin busy

\* The inductive invariant.
RunIInv == ServerTypeOK /\ PanelInv /\ ClosingInv /\ IdleInv

-----------------------------------------------------------------------------
\* The invariant holds when Run is called.
LEMMA RunInitIInv == RunInit => RunIInv
<1> SUFFICES ASSUME RunInit PROVE RunIInv
  OBVIOUS
<1> USE DEF RunInit, Built, Listeners, ErrChCapacity
<1>1. ServerTypeOK
  <2>1. listener \in [Listeners ->
          {"new", "starting", "checked", "bound", "serving", "failed", "done"}]
    OBVIOUS
  <2>2. errCh \in Seq(Listeners) /\ Len(errCh) <= ErrChCapacity
    OBVIOUS
  <2>. QED
    BY <2>1, <2>2 DEF ServerTypeOK
<1>2. PanelInv /\ ClosingInv /\ IdleInv
  BY DEF PanelInv, ClosingInv, IdleInv
<1>. QED
  BY <1>1, <1>2 DEF RunIInv

\* Every step keeps the types.
LEMMA RunNextType ==
    ASSUME ServerTypeOK, PanelInv, ClosingInv, [RunNext]_serverVars PROVE ServerTypeOK'
<1> USE DEF ServerTypeOK, runVars, inProgress, listenerVars, Built, Listeners, ErrChCapacity,
        PanelInv, ClosingInv
<1>1. CASE SetReady
  BY <1>1 DEF SetReady, GoroutineAt
<1>2. ASSUME NEW l \in Listeners, ListenAndServe(l) PROVE ServerTypeOK'
  BY <1>2 DEF ListenAndServe, GoroutineAt
<1>3. ASSUME NEW l \in Listeners, Bind(l) PROVE ServerTypeOK'
  BY <1>3 DEF Bind, GoroutineAt
<1>4. ASSUME NEW l \in Listeners, Fails(l) PROVE ServerTypeOK'
  BY <1>4 DEF Fails, GoroutineAt
<1>5. ASSUME NEW l \in Listeners, Serve(l) PROVE ServerTypeOK'
  BY <1>5 DEF Serve, GoroutineAt
<1>6. ASSUME NEW l \in Listeners, Report(l) PROVE ServerTypeOK'
  BY <1>6 DEF Report, GoroutineAt
<1>7. ASSUME NEW l \in Listeners, Closed(l) PROVE ServerTypeOK'
  BY <1>7 DEF Closed, GoroutineAt
<1>8. ASSUME NEW l \in Listeners, Accept(l) PROVE ServerTypeOK'
  BY <1>8 DEF Accept
<1>9. ASSUME NEW l \in Listeners, Finish(l) PROVE ServerTypeOK'
  BY <1>9 DEF Finish
<1>10. CASE Signal
  BY <1>10 DEF Signal
<1>11. CASE Expire
  BY <1>11 DEF Expire
<1>12. CASE SelectSignal
  BY <1>12 DEF SelectSignal
<1>13. CASE SelectError
  BY <1>13 DEF SelectError
<1>14. CASE ClearReady
  BY <1>14 DEF ClearReady
<1>15. CASE Shutdown
  BY <1>15 DEF Shutdown
<1>16. CASE ShutdownReturns
  BY <1>16 DEF ShutdownReturns, After
<1>17. CASE Return
  BY <1>17 DEF Return
<1>18. CASE Hijack
  BY <1>18 DEF Hijack
<1>19. CASE TunnelsEnd
  BY <1>19 DEF TunnelsEnd
<1>20. CASE UNCHANGED serverVars
  BY <1>20 DEF serverVars
<1>. QED
  BY <1>1, <1>2, <1>3, <1>4, <1>5, <1>6, <1>7, <1>8, <1>9,
     <1>10, <1>11, <1>12, <1>13, <1>14, <1>15, <1>16, <1>17, <1>18,
     <1>19, <1>20 DEF RunNext, ListenerStep, RunStep

\* The listeners start once.
LEMMA RunNextPanel ==
    ASSUME ServerTypeOK, PanelInv, [RunNext]_serverVars PROVE PanelInv'
<1> USE DEF ServerTypeOK, runVars, inProgress, listenerVars, Built, Listeners, ErrChCapacity,
        PanelInv
<1>1. CASE SetReady
  BY <1>1 DEF SetReady, GoroutineAt
<1>2. ASSUME NEW l \in Listeners, ListenAndServe(l) PROVE PanelInv'
  BY <1>2 DEF ListenAndServe, GoroutineAt
<1>3. ASSUME NEW l \in Listeners, Bind(l) PROVE PanelInv'
  BY <1>3 DEF Bind, GoroutineAt
<1>4. ASSUME NEW l \in Listeners, Fails(l) PROVE PanelInv'
  BY <1>4 DEF Fails, GoroutineAt
<1>5. ASSUME NEW l \in Listeners, Serve(l) PROVE PanelInv'
  BY <1>5 DEF Serve, GoroutineAt
<1>6. ASSUME NEW l \in Listeners, Report(l) PROVE PanelInv'
  BY <1>6 DEF Report, GoroutineAt
<1>7. ASSUME NEW l \in Listeners, Closed(l) PROVE PanelInv'
  BY <1>7 DEF Closed, GoroutineAt
<1>8. ASSUME NEW l \in Listeners, Accept(l) PROVE PanelInv'
  BY <1>8 DEF Accept
<1>9. ASSUME NEW l \in Listeners, Finish(l) PROVE PanelInv'
  BY <1>9 DEF Finish
<1>10. CASE Signal
  BY <1>10 DEF Signal
<1>11. CASE Expire
  BY <1>11 DEF Expire
<1>12. CASE SelectSignal
  BY <1>12 DEF SelectSignal
<1>13. CASE SelectError
  BY <1>13 DEF SelectError
<1>14. CASE ClearReady
  BY <1>14 DEF ClearReady
<1>15. CASE Shutdown
  BY <1>15 DEF Shutdown
<1>16. CASE ShutdownReturns
  BY <1>16 DEF ShutdownReturns, After
<1>17. CASE Return
  BY <1>17 DEF Return
<1>18. CASE Hijack
  BY <1>18 DEF Hijack
<1>19. CASE TunnelsEnd
  BY <1>19 DEF TunnelsEnd
<1>20. CASE UNCHANGED serverVars
  BY <1>20 DEF serverVars
<1>. QED
  BY <1>1, <1>2, <1>3, <1>4, <1>5, <1>6, <1>7, <1>8, <1>9,
     <1>10, <1>11, <1>12, <1>13, <1>14, <1>15, <1>16, <1>17, <1>18,
     <1>19, <1>20 DEF RunNext, ListenerStep, RunStep

\* Run closes the servers one by one, and returns when all are over.
LEMMA RunNextClosing ==
    ASSUME ServerTypeOK, PanelInv, ClosingInv, [RunNext]_serverVars PROVE ClosingInv'
<1> USE DEF ServerTypeOK, runVars, inProgress, listenerVars, Built, Listeners, ErrChCapacity,
        PanelInv, ClosingInv, Before
<1>1. CASE SetReady
  BY <1>1 DEF SetReady, GoroutineAt
<1>2. ASSUME NEW l \in Listeners, ListenAndServe(l) PROVE ClosingInv'
  BY <1>2 DEF ListenAndServe, GoroutineAt
<1>3. ASSUME NEW l \in Listeners, Bind(l) PROVE ClosingInv'
  BY <1>3 DEF Bind, GoroutineAt
<1>4. ASSUME NEW l \in Listeners, Fails(l) PROVE ClosingInv'
  BY <1>4 DEF Fails, GoroutineAt
<1>5. ASSUME NEW l \in Listeners, Serve(l) PROVE ClosingInv'
  BY <1>5 DEF Serve, GoroutineAt
<1>6. ASSUME NEW l \in Listeners, Report(l) PROVE ClosingInv'
  BY <1>6 DEF Report, GoroutineAt
<1>7. ASSUME NEW l \in Listeners, Closed(l) PROVE ClosingInv'
  BY <1>7 DEF Closed, GoroutineAt
<1>8. ASSUME NEW l \in Listeners, Accept(l) PROVE ClosingInv'
  BY <1>8 DEF Accept
<1>9. ASSUME NEW l \in Listeners, Finish(l) PROVE ClosingInv'
  BY <1>9 DEF Finish
<1>10. CASE Signal
  BY <1>10 DEF Signal
<1>11. CASE Expire
  BY <1>11 DEF Expire
<1>12. CASE SelectSignal
  BY <1>12 DEF SelectSignal
<1>13. CASE SelectError
  BY <1>13 DEF SelectError
<1>14. CASE ClearReady
  BY <1>14 DEF ClearReady
<1>15. CASE Shutdown
  BY <1>15 DEF Shutdown
<1>16. CASE ShutdownReturns
  BY <1>16 DEF ShutdownReturns, After
<1>17. CASE Return
  BY <1>17 DEF Return
<1>18. CASE Hijack
  BY <1>18 DEF Hijack
<1>19. CASE TunnelsEnd
  BY <1>19 DEF TunnelsEnd
<1>20. CASE UNCHANGED serverVars
  BY <1>20 DEF serverVars
<1>. QED
  BY <1>1, <1>2, <1>3, <1>4, <1>5, <1>6, <1>7, <1>8, <1>9,
     <1>10, <1>11, <1>12, <1>13, <1>14, <1>15, <1>16, <1>17, <1>18,
     <1>19, <1>20 DEF RunNext, ListenerStep, RunStep

\* A server that is closed takes no request, and a request that becomes a tunnel
\* is one less.
LEMMA RunNextIdle ==
    ASSUME ServerTypeOK, ClosingInv, IdleInv, [RunNext]_serverVars PROVE IdleInv'
<1> USE DEF ServerTypeOK, runVars, inProgress, listenerVars, Built, Listeners, ErrChCapacity,
        ClosingInv, IdleInv, Before
<1>1. CASE SetReady
  BY <1>1 DEF SetReady, GoroutineAt
<1>2. ASSUME NEW l \in Listeners, ListenAndServe(l) PROVE IdleInv'
  BY <1>2 DEF ListenAndServe, GoroutineAt
<1>3. ASSUME NEW l \in Listeners, Bind(l) PROVE IdleInv'
  BY <1>3 DEF Bind, GoroutineAt
<1>4. ASSUME NEW l \in Listeners, Fails(l) PROVE IdleInv'
  BY <1>4 DEF Fails, GoroutineAt
<1>5. ASSUME NEW l \in Listeners, Serve(l) PROVE IdleInv'
  BY <1>5 DEF Serve, GoroutineAt
<1>6. ASSUME NEW l \in Listeners, Report(l) PROVE IdleInv'
  BY <1>6 DEF Report, GoroutineAt
<1>7. ASSUME NEW l \in Listeners, Closed(l) PROVE IdleInv'
  BY <1>7 DEF Closed, GoroutineAt
<1>8. ASSUME NEW l \in Listeners, Accept(l) PROVE IdleInv'
  BY <1>8 DEF Accept
<1>9. ASSUME NEW l \in Listeners, Finish(l) PROVE IdleInv'
  BY <1>9 DEF Finish
<1>10. CASE Signal
  BY <1>10 DEF Signal
<1>11. CASE Expire
  BY <1>11 DEF Expire
<1>12. CASE SelectSignal
  BY <1>12 DEF SelectSignal
<1>13. CASE SelectError
  BY <1>13 DEF SelectError
<1>14. CASE ClearReady
  BY <1>14 DEF ClearReady
<1>15. CASE Shutdown
  BY <1>15 DEF Shutdown
<1>16. CASE ShutdownReturns
  BY <1>16 DEF ShutdownReturns, After
<1>17. CASE Return
  BY <1>17 DEF Return
<1>18. CASE Hijack
  BY <1>18 DEF Hijack
<1>19. CASE TunnelsEnd
  BY <1>19 DEF TunnelsEnd
<1>20. CASE UNCHANGED serverVars
  BY <1>20 DEF serverVars
<1>. QED
  BY <1>1, <1>2, <1>3, <1>4, <1>5, <1>6, <1>7, <1>8, <1>9,
     <1>10, <1>11, <1>12, <1>13, <1>14, <1>15, <1>16, <1>17, <1>18,
     <1>19, <1>20 DEF RunNext, ListenerStep, RunStep

\* The conjuncts together are inductive.
LEMMA RunNextIInv == RunIInv /\ [RunNext]_serverVars => RunIInv'
BY RunNextType, RunNextPanel, RunNextClosing, RunNextIdle DEF RunIInv

\* The strengthened invariant holds throughout.
LEMMA RunInductive == RunSpec => []RunIInv
BY RunInitIInv, RunNextIInv, PTL DEF RunSpec

-----------------------------------------------------------------------------
\* Every variable keeps its type: nothing waits on a server that was not built,
\* and the channel never holds more than it was made for.
THEOREM RunTypeCorrect == RunSpec => []ServerTypeOK
<1>1. RunIInv => ServerTypeOK
  BY DEF RunIInv
<1>. QED
  BY <1>1, RunInductive, PTL

\* When Run returns every listener's goroutine is over and every server closed, and
\* no request that net/http knows of was cut off before the timeout.
THEOREM LeavesNothingBehind == RunSpec => []NothingLeftBehind
<1>1. RunIInv => NothingLeftBehind
  BY DEF RunIInv, ServerTypeOK, ClosingInv, IdleInv, NothingLeftBehind, Built
<1>. QED
  BY <1>1, RunInductive, PTL

\* The control plane drains, but for its tunnels, before the metrics, and they
\* before the panel.
THEOREM DrainsInItsOrder == RunSpec => []DrainsInOrder
<1>1. RunIInv => DrainsInOrder
  BY DEF RunIInv, ServerTypeOK, ClosingInv, IdleInv, DrainsInOrder, Before, Built
<1>. QED
  BY <1>1, RunInductive, PTL
=============================================================================
