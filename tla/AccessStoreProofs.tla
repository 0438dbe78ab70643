-------------------------- MODULE AccessStoreProofs --------------------------
(***************************************************************************)
(* Theorems about AccessStore for any users, deadlines, handlers and clock *)
(* bound. The argument: a handler inside the critical section holds the    *)
(* mutex, so the map cannot change between its two file operations, and    *)
(* what it renames into place is the complete current map.                 *)
(***************************************************************************)
EXTENDS AccessStore, TLAPS

\* A handler has its user from Begin to Unlock, and is past Lock exactly when
\* it holds the mutex.
HandlerInv ==
    \A h \in Handlers :
        /\ pc[h] # "idle" =>
               up /\ arg[h] \in Users /\ op[h] \in {"create", "delete"}
        /\ pc[h] = "idle" => arg[h] = None /\ op[h] = "none"
        /\ pc[h] \in {"write", "rename"} <=> mu = h

\* A complete ".tmp" about to be renamed holds the current map.
SnapshotInv == \A h \in Handlers : pc[h] = "rename" => onDisk /\ tmp = users

\* Every user met anywhere has been in the map; one still being created has
\* not, and is being created once.
IssuedInv ==
    /\ users \cup revoked \cup Roster(file) \subseteq issued
    /\ \A h \in Handlers :
        /\ op[h] = "delete" => arg[h] \in issued
        /\ op[h] = "create" /\ pc[h] = "lock" => arg[h] \notin issued
        /\ \A g \in Handlers :
               /\ op[h] = "create" /\ pc[h] = "lock"
               /\ op[g] = "create" /\ pc[g] = "lock"
               /\ arg[g] = arg[h]
               => g = h

\* A store with a path was loaded from a file that decodes, and still has
\* every user of it that no deletion has taken out.
CoverInv ==
    up /\ onDisk =>
        /\ file # Damaged
        /\ \A u \in Roster(file) : u \in users \cup revoked \/ Deleting(u)

\* The inductive invariant.
IInv ==
    /\ TypeOK
    /\ HandlerInv
    /\ SnapshotInv
    /\ FileAgreesWithMemory
    /\ IssuedInv
    /\ CoverInv

-----------------------------------------------------------------------------
\* The invariant holds at first boot.
LEMMA InitIInv == Init => IInv
<1> SUFFICES ASSUME Init PROVE IInv
  OBVIOUS
<1> USE SentinelAssumption DEF Init
<1>1. TypeOK
  BY DEF TypeOK
<1>2. HandlerInv /\ SnapshotInv
  BY DEF HandlerInv, SnapshotInv
<1>3. FileAgreesWithMemory /\ CoverInv
  BY DEF FileAgreesWithMemory, CoverInv, Roster
<1>4. IssuedInv
  BY DEF IssuedInv, Roster
<1>. QED
  BY <1>1, <1>2, <1>3, <1>4 DEF IInv

\* Every step keeps the types: a handler past Begin has a user to work on.
LEMMA NextType ==
    ASSUME TypeOK, HandlerInv, [Next]_vars PROVE TypeOK'
<1> USE SentinelAssumption DEF TypeOK, HandlerInv, store, handlers, history
<1>1. ASSUME NEW h \in Handlers, NEW u \in Users, BeginCreate(h, u)
      PROVE  TypeOK'
  BY <1>1 DEF BeginCreate, Begin, Goto
<1>2. ASSUME NEW h \in Handlers, NEW u \in Users, BeginDelete(h, u)
      PROVE  TypeOK'
  BY <1>2 DEF BeginDelete, Begin, Goto
<1>3. ASSUME NEW h \in Handlers, Create(h) PROVE TypeOK'
  BY <1>3 DEF Create, Lock, Goto
<1>4. ASSUME NEW h \in Handlers, Delete(h) PROVE TypeOK'
  BY <1>4 DEF Delete, Lock, Goto
<1>5. ASSUME NEW h \in Handlers, WriteRoster(h) PROVE TypeOK'
  BY <1>5 DEF WriteRoster, Goto, File!WriteTemp
<1>6. ASSUME NEW h \in Handlers, WriteRosterFails(h) PROVE TypeOK'
  BY <1>6 DEF WriteRosterFails, Unlock, Goto, File!WriteTempFails
<1>7. ASSUME NEW h \in Handlers, RenameRoster(h) PROVE TypeOK'
  BY <1>7 DEF RenameRoster, Unlock, Goto, File!RenameTemp
<1>8. ASSUME NEW h \in Handlers, RenameRosterFails(h) PROVE TypeOK'
  BY <1>8 DEF RenameRosterFails, Unlock, Goto, File!RenameTempFails,
          File!fileVars
<1>9. ASSUME NEW h \in Handlers, SaveNowhere(h) PROVE TypeOK'
  BY <1>9 DEF SaveNowhere, Unlock, Goto
<1>10. CASE Die
  BY <1>10 DEF Die, File!DieWriting
<1>11. CASE Start
  BY <1>11 DEF Start, Roster
<1>12. CASE StartInMemory
  BY <1>12 DEF StartInMemory
<1>13. CASE OperatorDamages
  BY <1>13 DEF OperatorDamages
<1>14. CASE Tick
  BY <1>14 DEF Tick
<1>15. CASE UNCHANGED vars
  BY <1>15 DEF vars
<1>. QED
  BY <1>1, <1>2, <1>3, <1>4, <1>5, <1>6, <1>7, <1>8, <1>9, <1>10, <1>11,
     <1>12, <1>13, <1>14, <1>15
     DEF Next, Save

\* Every step keeps mutual exclusion: Lock waits for the mutex, and only its
\* holder gives it back.
LEMMA NextHandler ==
    ASSUME TypeOK, HandlerInv, [Next]_vars PROVE HandlerInv'
<1> USE SentinelAssumption DEF TypeOK, HandlerInv, store, handlers,
        history
<1>1. ASSUME NEW h \in Handlers, NEW u \in Users, BeginCreate(h, u)
      PROVE  HandlerInv'
  BY <1>1 DEF BeginCreate, Begin, Goto
<1>2. ASSUME NEW h \in Handlers, NEW u \in Users, BeginDelete(h, u)
      PROVE  HandlerInv'
  BY <1>2 DEF BeginDelete, Begin, Goto
<1>3. ASSUME NEW h \in Handlers, Create(h) PROVE HandlerInv'
  BY <1>3 DEF Create, Lock, Goto
<1>4. ASSUME NEW h \in Handlers, Delete(h) PROVE HandlerInv'
  BY <1>4 DEF Delete, Lock, Goto
<1>5. ASSUME NEW h \in Handlers, WriteRoster(h) PROVE HandlerInv'
  BY <1>5 DEF WriteRoster, Goto, File!WriteTemp
<1>6. ASSUME NEW h \in Handlers, WriteRosterFails(h) PROVE HandlerInv'
  BY <1>6 DEF WriteRosterFails, Unlock, Goto, File!WriteTempFails
<1>7. ASSUME NEW h \in Handlers, RenameRoster(h) PROVE HandlerInv'
  BY <1>7 DEF RenameRoster, Unlock, Goto, File!RenameTemp
<1>8. ASSUME NEW h \in Handlers, RenameRosterFails(h) PROVE HandlerInv'
  BY <1>8 DEF RenameRosterFails, Unlock, Goto, File!RenameTempFails,
          File!fileVars
<1>9. ASSUME NEW h \in Handlers, SaveNowhere(h) PROVE HandlerInv'
  BY <1>9 DEF SaveNowhere, Unlock, Goto
<1>10. CASE Die
  BY <1>10 DEF Die, File!DieWriting
<1>11. CASE Start
  BY <1>11 DEF Start, Roster
<1>12. CASE StartInMemory
  BY <1>12 DEF StartInMemory
<1>13. CASE OperatorDamages
  BY <1>13 DEF OperatorDamages
<1>14. CASE Tick
  BY <1>14 DEF Tick
<1>15. CASE UNCHANGED vars
  BY <1>15 DEF vars
<1>. QED
  BY <1>1, <1>2, <1>3, <1>4, <1>5, <1>6, <1>7, <1>8, <1>9, <1>10, <1>11,
     <1>12, <1>13, <1>14, <1>15
     DEF Next, Save

\* Nobody changes the map or ".tmp" while a rename is pending.
LEMMA NextSnapshot ==
    ASSUME TypeOK, HandlerInv, SnapshotInv, [Next]_vars PROVE SnapshotInv'
<1> USE SentinelAssumption DEF TypeOK, HandlerInv, SnapshotInv, store,
        handlers, history
<1>1. ASSUME NEW h \in Handlers, NEW u \in Users, BeginCreate(h, u)
      PROVE  SnapshotInv'
  BY <1>1 DEF BeginCreate, Begin, Goto
<1>2. ASSUME NEW h \in Handlers, NEW u \in Users, BeginDelete(h, u)
      PROVE  SnapshotInv'
  BY <1>2 DEF BeginDelete, Begin, Goto
<1>3. ASSUME NEW h \in Handlers, Create(h) PROVE SnapshotInv'
  BY <1>3 DEF Create, Lock, Goto
<1>4. ASSUME NEW h \in Handlers, Delete(h) PROVE SnapshotInv'
  BY <1>4 DEF Delete, Lock, Goto
<1>5. ASSUME NEW h \in Handlers, WriteRoster(h) PROVE SnapshotInv'
  BY <1>5 DEF WriteRoster, Goto, File!WriteTemp
<1>6. ASSUME NEW h \in Handlers, WriteRosterFails(h) PROVE SnapshotInv'
  BY <1>6 DEF WriteRosterFails, Unlock, Goto, File!WriteTempFails
<1>7. ASSUME NEW h \in Handlers, RenameRoster(h) PROVE SnapshotInv'
  BY <1>7 DEF RenameRoster, Unlock, Goto, File!RenameTemp
<1>8. ASSUME NEW h \in Handlers, RenameRosterFails(h) PROVE SnapshotInv'
  BY <1>8 DEF RenameRosterFails, Unlock, Goto, File!RenameTempFails,
          File!fileVars
<1>9. ASSUME NEW h \in Handlers, SaveNowhere(h) PROVE SnapshotInv'
  BY <1>9 DEF SaveNowhere, Unlock, Goto
<1>10. CASE Die
  BY <1>10 DEF Die, File!DieWriting
<1>11. CASE Start
  BY <1>11 DEF Start, Roster
<1>12. CASE StartInMemory
  BY <1>12 DEF StartInMemory
<1>13. CASE OperatorDamages
  BY <1>13 DEF OperatorDamages
<1>14. CASE Tick
  BY <1>14 DEF Tick
<1>15. CASE UNCHANGED vars
  BY <1>15 DEF vars
<1>. QED
  BY <1>1, <1>2, <1>3, <1>4, <1>5, <1>6, <1>7, <1>8, <1>9, <1>10, <1>11,
     <1>12, <1>13, <1>14, <1>15
     DEF Next, Save

\* A successful save, and a load, make file and map agree.
LEMMA NextAgrees ==
    ASSUME TypeOK, HandlerInv, SnapshotInv,
           FileAgreesWithMemory, [Next]_vars PROVE FileAgreesWithMemory'
<1> USE SentinelAssumption DEF TypeOK, HandlerInv, SnapshotInv,
        FileAgreesWithMemory, Roster, store, handlers, history
<1>1. ASSUME NEW h \in Handlers, NEW u \in Users, BeginCreate(h, u)
      PROVE  FileAgreesWithMemory'
  BY <1>1 DEF BeginCreate, Begin, Goto
<1>2. ASSUME NEW h \in Handlers, NEW u \in Users, BeginDelete(h, u)
      PROVE  FileAgreesWithMemory'
  BY <1>2 DEF BeginDelete, Begin, Goto
<1>3. ASSUME NEW h \in Handlers, Create(h) PROVE FileAgreesWithMemory'
  BY <1>3 DEF Create, Lock, Goto
<1>4. ASSUME NEW h \in Handlers, Delete(h) PROVE FileAgreesWithMemory'
  BY <1>4 DEF Delete, Lock, Goto
<1>5. ASSUME NEW h \in Handlers, WriteRoster(h) PROVE FileAgreesWithMemory'
  BY <1>5 DEF WriteRoster, Goto, File!WriteTemp
<1>6. ASSUME NEW h \in Handlers, WriteRosterFails(h) PROVE FileAgreesWithMemory'
  BY <1>6 DEF WriteRosterFails, Unlock, Goto, File!WriteTempFails
<1>7. ASSUME NEW h \in Handlers, RenameRoster(h) PROVE FileAgreesWithMemory'
  BY <1>7 DEF RenameRoster, Unlock, Goto, File!RenameTemp
<1>8. ASSUME NEW h \in Handlers, RenameRosterFails(h) PROVE FileAgreesWithMemory'
  BY <1>8 DEF RenameRosterFails, Unlock, Goto, File!RenameTempFails,
          File!fileVars
<1>9. ASSUME NEW h \in Handlers, SaveNowhere(h) PROVE FileAgreesWithMemory'
  BY <1>9 DEF SaveNowhere, Unlock, Goto
<1>10. CASE Die
  BY <1>10 DEF Die, File!DieWriting
<1>11. CASE Start
  BY <1>11 DEF Start, Roster
<1>12. CASE StartInMemory
  BY <1>12 DEF StartInMemory
<1>13. CASE OperatorDamages
  BY <1>13 DEF OperatorDamages
<1>14. CASE Tick
  BY <1>14 DEF Tick
<1>15. CASE UNCHANGED vars
  BY <1>15 DEF vars
<1>. QED
  BY <1>1, <1>2, <1>3, <1>4, <1>5, <1>6, <1>7, <1>8, <1>9, <1>10, <1>11,
     <1>12, <1>13, <1>14, <1>15
     DEF Next, Save

\* An id is issued once: BeginCreate draws a new one, BeginDelete an old one.
LEMMA NextIssued ==
    ASSUME TypeOK, HandlerInv, SnapshotInv, IssuedInv, [Next]_vars PROVE IssuedInv'
<1> USE SentinelAssumption DEF TypeOK, HandlerInv, SnapshotInv,
        IssuedInv, Roster, store, handlers, history
<1>1. ASSUME NEW h \in Handlers, NEW u \in Users, BeginCreate(h, u)
      PROVE  IssuedInv'
  BY <1>1 DEF BeginCreate, Begin, Goto
<1>2. ASSUME NEW h \in Handlers, NEW u \in Users, BeginDelete(h, u)
      PROVE  IssuedInv'
  BY <1>2 DEF BeginDelete, Begin, Goto
<1>3. ASSUME NEW h \in Handlers, Create(h) PROVE IssuedInv'
  BY <1>3 DEF Create, Lock, Goto
<1>4. ASSUME NEW h \in Handlers, Delete(h) PROVE IssuedInv'
  BY <1>4 DEF Delete, Lock, Goto
<1>5. ASSUME NEW h \in Handlers, WriteRoster(h) PROVE IssuedInv'
  BY <1>5 DEF WriteRoster, Goto, File!WriteTemp
<1>6. ASSUME NEW h \in Handlers, WriteRosterFails(h) PROVE IssuedInv'
  BY <1>6 DEF WriteRosterFails, Unlock, Goto, File!WriteTempFails
<1>7. ASSUME NEW h \in Handlers, RenameRoster(h) PROVE IssuedInv'
  BY <1>7 DEF RenameRoster, Unlock, Goto, File!RenameTemp
<1>8. ASSUME NEW h \in Handlers, RenameRosterFails(h) PROVE IssuedInv'
  BY <1>8 DEF RenameRosterFails, Unlock, Goto, File!RenameTempFails,
          File!fileVars
<1>9. ASSUME NEW h \in Handlers, SaveNowhere(h) PROVE IssuedInv'
  BY <1>9 DEF SaveNowhere, Unlock, Goto
<1>10. CASE Die
  BY <1>10 DEF Die, File!DieWriting
<1>11. CASE Start
  BY <1>11 DEF Start, Roster
<1>12. CASE StartInMemory
  BY <1>12 DEF StartInMemory
<1>13. CASE OperatorDamages
  BY <1>13 DEF OperatorDamages
<1>14. CASE Tick
  BY <1>14 DEF Tick
<1>15. CASE UNCHANGED vars
  BY <1>15 DEF vars
<1>. QED
  BY <1>1, <1>2, <1>3, <1>4, <1>5, <1>6, <1>7, <1>8, <1>9, <1>10, <1>11,
     <1>12, <1>13, <1>14, <1>15
     DEF Next, Save

\* Only a deletion takes a user of the file out of the map.
LEMMA NextCover ==
    ASSUME TypeOK, HandlerInv, SnapshotInv, CoverInv, [Next]_vars PROVE CoverInv'
<1> USE SentinelAssumption DEF TypeOK, HandlerInv, SnapshotInv,
        CoverInv, Roster, Deleting, store, handlers, history
<1>1. ASSUME NEW h \in Handlers, NEW u \in Users, BeginCreate(h, u)
      PROVE  CoverInv'
  BY <1>1 DEF BeginCreate, Begin, Goto
<1>2. ASSUME NEW h \in Handlers, NEW u \in Users, BeginDelete(h, u)
      PROVE  CoverInv'
  BY <1>2 DEF BeginDelete, Begin, Goto
<1>3. ASSUME NEW h \in Handlers, Create(h) PROVE CoverInv'
  BY <1>3 DEF Create, Lock, Goto
<1>4. ASSUME NEW h \in Handlers, Delete(h) PROVE CoverInv'
  BY <1>4 DEF Delete, Lock, Goto
<1>5. ASSUME NEW h \in Handlers, WriteRoster(h) PROVE CoverInv'
  BY <1>5 DEF WriteRoster, Goto, File!WriteTemp
<1>6. ASSUME NEW h \in Handlers, WriteRosterFails(h) PROVE CoverInv'
  BY <1>6 DEF WriteRosterFails, Unlock, Goto, File!WriteTempFails
<1>7. ASSUME NEW h \in Handlers, RenameRoster(h) PROVE CoverInv'
  BY <1>7 DEF RenameRoster, Unlock, Goto, File!RenameTemp
<1>8. ASSUME NEW h \in Handlers, RenameRosterFails(h) PROVE CoverInv'
  BY <1>8 DEF RenameRosterFails, Unlock, Goto, File!RenameTempFails,
          File!fileVars
<1>9. ASSUME NEW h \in Handlers, SaveNowhere(h) PROVE CoverInv'
  BY <1>9 DEF SaveNowhere, Unlock, Goto
<1>10. CASE Die
  BY <1>10 DEF Die, File!DieWriting
<1>11. CASE Start
  BY <1>11 DEF Start, Roster
<1>12. CASE StartInMemory
  BY <1>12 DEF StartInMemory
<1>13. CASE OperatorDamages
  BY <1>13 DEF OperatorDamages
<1>14. CASE Tick
  BY <1>14 DEF Tick
<1>15. CASE UNCHANGED vars
  BY <1>15 DEF vars
<1>. QED
  BY <1>1, <1>2, <1>3, <1>4, <1>5, <1>6, <1>7, <1>8, <1>9, <1>10, <1>11,
     <1>12, <1>13, <1>14, <1>15
     DEF Next, Save

\* The conjuncts together are inductive.
LEMMA NextIInv == IInv /\ [Next]_vars => IInv'
BY NextType, NextHandler, NextSnapshot, NextAgrees, NextIssued, NextCover
   DEF IInv

\* The strengthened invariant holds throughout.
LEMMA Inductive == Spec => []IInv
BY InitIInv, NextIInv, PTL DEF Spec

-----------------------------------------------------------------------------
\* Every variable keeps its type, whatever the disk, the clock and crashes do.
THEOREM TypeCorrect == Spec => []TypeOK
<1>1. IInv => TypeOK
  BY DEF IInv
<1>. QED
  BY <1>1, Inductive, PTL

\* Unless a save has failed, what is served is what a restart would load:
\* Create, Delete and save change map and file under one mutex.
THEOREM FileAgrees == Spec => []FileAgreesWithMemory
<1>1. IInv => FileAgreesWithMemory
  BY DEF IInv
<1>. QED
  BY <1>1, Inductive, PTL

-----------------------------------------------------------------------------
\* The file changes by a rename, or by the operator's hand while the server
\* is down.
LEMMA FileChange ==
    ASSUME IInv, [Next]_vars, file' # file
    PROVE  \/ \E h \in Handlers : RenameRoster(h)
           \/ OperatorDamages
<1> USE DEF store, handlers, history
<1>1. ASSUME NEW h \in Handlers, Save(h) PROVE RenameRoster(h)
  BY <1>1 DEF Save, WriteRoster, WriteRosterFails, RenameRosterFails,
              SaveNowhere, File!WriteTemp, File!WriteTempFails,
              File!RenameTempFails, File!fileVars
<1>2. ASSUME NEW h \in Handlers, NEW u \in Users PROVE ~BeginCreate(h, u)
  BY DEF BeginCreate, Begin
<1>3. ASSUME NEW h \in Handlers, NEW u \in Users PROVE ~BeginDelete(h, u)
  BY DEF BeginDelete, Begin
<1>4. ASSUME NEW h \in Handlers PROVE ~Create(h) /\ ~Delete(h)
  BY DEF Create, Delete
<1>5. ~Die /\ ~Start /\ ~StartInMemory /\ ~Tick
  BY DEF Die, File!DieWriting, Start, StartInMemory, Tick
<1>. QED
  BY <1>1, <1>2, <1>3, <1>4, <1>5 DEF Next, vars

\* A renamed roster is the whole current map of a store that has a path.
LEMMA RenamedIsCurrent ==
    ASSUME IInv, NEW h \in Handlers, RenameRoster(h)
    PROVE  up /\ onDisk /\ file # Damaged /\ file' = users /\ users \in SUBSET Users
BY DEF IInv, TypeOK, HandlerInv, SnapshotInv, CoverInv, RenameRoster,
       File!RenameTemp

\* A user that leaves the file under a running server has been deleted.
LEMMA LeavesStep == ASSUME IInv, [Next]_vars PROVE LeavesByDeletion
<1>1. CASE file' = file
  BY <1>1 DEF LeavesByDeletion
<1>2. ASSUME NEW h \in Handlers, RenameRoster(h) PROVE LeavesByDeletion
  <2>1. file' = users /\ up /\ onDisk /\ users \in SUBSET Users
    BY <1>2, RenamedIsCurrent
  <2>2. \A u \in Roster(file) : u \in users \cup revoked \/ Deleting(u)
    BY <2>1 DEF IInv, CoverInv
  <2>3. Roster(file') = users
    BY <2>1, SentinelAssumption DEF Roster
  <2>. QED
    BY <2>2, <2>3 DEF LeavesByDeletion
<1>3. CASE OperatorDamages
  BY <1>3 DEF OperatorDamages, LeavesByDeletion
<1>. QED
  BY <1>1, <1>2, <1>3, FileChange

\* A running server neither tears its file nor touches a damaged one.
LEMMA WholeStep == ASSUME IInv, [Next]_vars PROVE WholeStaysWhole
<1>1. CASE file' = file
  BY <1>1 DEF WholeStaysWhole
<1>2. ASSUME NEW h \in Handlers, RenameRoster(h) PROVE WholeStaysWhole
  BY <1>2, RenamedIsCurrent, SentinelAssumption DEF WholeStaysWhole
<1>3. CASE OperatorDamages
  BY <1>3 DEF OperatorDamages, WholeStaysWhole
<1>. QED
  BY <1>1, <1>2, <1>3, FileChange

\* A user that is gone from map and file cannot be drawn, saved or loaded.
LEMMA GoneStep ==
    ASSUME IInv, [Next]_vars PROVE GoneStaysGone
<1> USE SentinelAssumption DEF GoneStaysGone, IInv, TypeOK, HandlerInv,
        SnapshotInv, IssuedInv, Roster, store, handlers, history
<1>1. ASSUME NEW h \in Handlers, NEW u \in Users, BeginCreate(h, u)
      PROVE  GoneStaysGone
  BY <1>1 DEF BeginCreate, Begin, Goto
<1>2. ASSUME NEW h \in Handlers, NEW u \in Users, BeginDelete(h, u)
      PROVE  GoneStaysGone
  BY <1>2 DEF BeginDelete, Begin, Goto
<1>3. ASSUME NEW h \in Handlers, Create(h) PROVE GoneStaysGone
  BY <1>3 DEF Create, Lock, Goto
<1>4. ASSUME NEW h \in Handlers, Delete(h) PROVE GoneStaysGone
  BY <1>4 DEF Delete, Lock, Goto
<1>5. ASSUME NEW h \in Handlers, WriteRoster(h) PROVE GoneStaysGone
  BY <1>5 DEF WriteRoster, Goto, File!WriteTemp
<1>6. ASSUME NEW h \in Handlers, WriteRosterFails(h) PROVE GoneStaysGone
  BY <1>6 DEF WriteRosterFails, Unlock, Goto, File!WriteTempFails
<1>7. ASSUME NEW h \in Handlers, RenameRoster(h) PROVE GoneStaysGone
  BY <1>7 DEF RenameRoster, Unlock, Goto, File!RenameTemp
<1>8. ASSUME NEW h \in Handlers, RenameRosterFails(h) PROVE GoneStaysGone
  BY <1>8 DEF RenameRosterFails, Unlock, Goto, File!RenameTempFails,
          File!fileVars
<1>9. ASSUME NEW h \in Handlers, SaveNowhere(h) PROVE GoneStaysGone
  BY <1>9 DEF SaveNowhere, Unlock, Goto
<1>10. CASE Die
  BY <1>10 DEF Die, File!DieWriting
<1>11. CASE Start
  BY <1>11 DEF Start, Roster
<1>12. CASE StartInMemory
  BY <1>12 DEF StartInMemory
<1>13. CASE OperatorDamages
  BY <1>13 DEF OperatorDamages
<1>14. CASE Tick
  BY <1>14 DEF Tick
<1>15. CASE UNCHANGED vars
  BY <1>15 DEF vars
<1>. QED
  BY <1>1, <1>2, <1>3, <1>4, <1>5, <1>6, <1>7, <1>8, <1>9, <1>10, <1>11,
     <1>12, <1>13, <1>14, <1>15
     DEF Next, Save

\* A running server accepts a refused token again at no step.
LEMMA RefusalStep ==
    ASSUME IInv, [Next]_vars PROVE RefusalKept
<1> USE SentinelAssumption, DeadlinesAssumption DEF RefusalKept,
        Authorized, Expired, IInv, TypeOK, HandlerInv, IssuedInv, store,
        handlers, history
<1>1. ASSUME NEW h \in Handlers, NEW u \in Users, BeginCreate(h, u)
      PROVE  RefusalKept
  BY <1>1 DEF BeginCreate, Begin, Goto
<1>2. ASSUME NEW h \in Handlers, NEW u \in Users, BeginDelete(h, u)
      PROVE  RefusalKept
  BY <1>2 DEF BeginDelete, Begin, Goto
<1>3. ASSUME NEW h \in Handlers, Create(h) PROVE RefusalKept
  BY <1>3 DEF Create, Lock, Goto
<1>4. ASSUME NEW h \in Handlers, Delete(h) PROVE RefusalKept
  BY <1>4 DEF Delete, Lock, Goto
<1>5. ASSUME NEW h \in Handlers, WriteRoster(h) PROVE RefusalKept
  BY <1>5 DEF WriteRoster, Goto, File!WriteTemp
<1>6. ASSUME NEW h \in Handlers, WriteRosterFails(h) PROVE RefusalKept
  BY <1>6 DEF WriteRosterFails, Unlock, Goto, File!WriteTempFails
<1>7. ASSUME NEW h \in Handlers, RenameRoster(h) PROVE RefusalKept
  BY <1>7 DEF RenameRoster, Unlock, Goto, File!RenameTemp
<1>8. ASSUME NEW h \in Handlers, RenameRosterFails(h) PROVE RefusalKept
  BY <1>8 DEF RenameRosterFails, Unlock, Goto, File!RenameTempFails,
          File!fileVars
<1>9. ASSUME NEW h \in Handlers, SaveNowhere(h) PROVE RefusalKept
  BY <1>9 DEF SaveNowhere, Unlock, Goto
<1>10. CASE Die
  BY <1>10 DEF Die, File!DieWriting
<1>11. CASE Start
  BY <1>11 DEF Start, Roster
<1>12. CASE StartInMemory
  BY <1>12 DEF StartInMemory
<1>13. CASE OperatorDamages
  BY <1>13 DEF OperatorDamages
<1>14. CASE Tick
  BY <1>14 DEF Tick
<1>15. CASE UNCHANGED vars
  BY <1>15 DEF vars
<1>. QED
  BY <1>1, <1>2, <1>3, <1>4, <1>5, <1>6, <1>7, <1>8, <1>9, <1>10, <1>11,
     <1>12, <1>13, <1>14, <1>15
     DEF Next, Save

\* A deleted user that has left map and file never comes back: no concurrent
\* save writes it, no restart loads it.
THEOREM RevocationFinal == Spec => RevocationIsFinal
<1>1. IInv /\ [Next]_vars => GoneStaysGone
  BY GoneStep
<1>. QED
  BY <1>1, Inductive, PTL DEF Spec, RevocationIsFinal

\* Users leave the file only by being deleted: the fallback store never
\* overwrites a roster it could not load.
THEOREM LeavesOnlyByDeletion == Spec => OnlyDeletedUsersLeaveTheFile
<1>1. IInv /\ [Next]_vars => LeavesByDeletion
  BY LeavesStep
<1>. QED
  BY <1>1, Inductive, PTL DEF Spec, OnlyDeletedUsersLeaveTheFile

\* The ".tmp" and rename of save keep the file decodable across crashes.
THEOREM FileWhole == Spec => FileStaysWhole
<1>1. IInv /\ [Next]_vars => WholeStaysWhole
  BY WholeStep
<1>. QED
  BY <1>1, Inductive, PTL DEF Spec, FileStaysWhole

\* A token refused by a running server stays refused until it restarts.
THEOREM RefusalFinal == Spec => RefusedStaysRefused
<1>1. IInv /\ [Next]_vars => RefusalKept
  BY RefusalStep
<1>. QED
  BY <1>1, Inductive, PTL DEF Spec, RefusedStaysRefused

-----------------------------------------------------------------------------
\* First boot is the abstract roster's initial state.
LEMMA RefinesInit == Init => Durable!Init
BY DEF Init, Durable!Init, Roster

\* Every step is one of the abstract roster's, or leaves it alone.
LEMMA RefinesNext ==
    ASSUME IInv, [Next]_vars PROVE [Durable!Next]_(Durable!vars)
<1> USE DEF store, handlers, history
<1>1. ASSUME UNCHANGED <<up, users, file>> PROVE UNCHANGED Durable!vars
  BY <1>1 DEF Durable!vars, Roster
<1>2. ASSUME NEW h \in Handlers, NEW u \in Users,
             BeginCreate(h, u) \/ BeginDelete(h, u)
      PROVE  UNCHANGED Durable!vars
  BY <1>1, <1>2 DEF BeginCreate, BeginDelete, Begin
<1>3. ASSUME NEW h \in Handlers, Create(h)
      PROVE  arg[h] \in Users /\ Durable!Add(arg[h])
  BY <1>3 DEF Create, Lock, IInv, HandlerInv, Durable!Add
<1>4. ASSUME NEW h \in Handlers, Delete(h)
      PROVE  arg[h] \in Users /\ Durable!Remove(arg[h])
  BY <1>4 DEF Delete, Lock, IInv, HandlerInv, Durable!Remove
<1>5. ASSUME NEW h \in Handlers, RenameRoster(h) PROVE Durable!Save
  <2>1. up /\ file' = users /\ users \in SUBSET Users
    BY <1>5, RenamedIsCurrent
  <2>2. Roster(file') = users
    BY <2>1, SentinelAssumption DEF Roster
  <2>. QED
    BY <1>5, <2>1, <2>2 DEF RenameRoster, Durable!Save, Roster
<1>6. ASSUME NEW h \in Handlers,
             WriteRoster(h) \/ WriteRosterFails(h) \/ RenameRosterFails(h)
                 \/ SaveNowhere(h)
      PROVE  UNCHANGED Durable!vars
  BY <1>1, <1>6 DEF WriteRoster, WriteRosterFails, RenameRosterFails,
                    SaveNowhere, File!WriteTemp, File!WriteTempFails,
                    File!RenameTempFails, File!fileVars
<1>7. CASE Die
  <2>1. Durable!Stop
    BY <1>7 DEF Die, File!DieWriting, Durable!Stop, Roster
  <2>. QED
    BY <2>1 DEF Durable!Next
<1>8. CASE Start \/ StartInMemory
  <2>1. Durable!Start
    BY <1>8 DEF Start, StartInMemory, Durable!Start, Roster
  <2>. QED
    BY <2>1 DEF Durable!Next
<1>9. CASE OperatorDamages
  <2>1. Durable!Spoil
    BY <1>9 DEF OperatorDamages, Durable!Spoil, Roster
  <2>. QED
    BY <2>1 DEF Durable!Next
<1>10. CASE Tick \/ UNCHANGED vars
  BY <1>1, <1>10 DEF Tick, vars
<1>. QED
  BY <1>2, <1>3, <1>4, <1>5, <1>6, <1>7, <1>8, <1>9, <1>10
     DEF Next, Save, Durable!Next

\* The store with its files, lock and handlers implements the abstract roster.
THEOREM Implements == Spec => ImplementsDurableRoster
<1>1. IInv /\ [Next]_vars => [Durable!Next]_(Durable!vars)
  BY RefinesNext
<1>. QED
  BY <1>1, RefinesInit, Inductive, PTL DEF Spec, ImplementsDurableRoster, Durable!Spec
=============================================================================
