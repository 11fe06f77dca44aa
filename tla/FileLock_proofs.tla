--------------------------- MODULE FileLock_proofs ---------------------------
(***************************************************************************)
(* Proofs about FileLock for any set of commands and any number of         *)
(* faults.  Everything follows from one fact: from the creation of the     *)
(* file to its removal, a command is the one the file names.               *)
(***************************************************************************)
EXTENDS FileLock, TLAPS

(* Where a command has created the file and not yet removed it.             *)
Held == {"pid", "fsync", "undo", "open", "ready", "ingest", "save", "close",
         "release", "remove"}

(* Where a command has the store open.                                      *)
InStore == {"ready", "ingest", "save", "close"}

Owned == \A p \in Procs : pc[p] \in Held => lockFile = p
OpenIsInStore == \A p \in Procs : p \in open <=> pc[p] \in InStore

IInv == TypeOK /\ Owned /\ OpenIsInStore /\ MarkNotOvertaken

(* The variables of every command stay within their types: the code's       *)
(* control never leaves the steps of Acquire, the work and Release.         *)
THEOREM TypeCorrect == Spec => []TypeOK
<1>1. Init => TypeOK
  BY DEF Init, TypeOK, Locations, Commands
<1>2. TypeOK /\ [Next]_vars => TypeOK'
  <2> SUFFICES ASSUME TypeOK, [Next]_vars
               PROVE  TypeOK'
    OBVIOUS
  <2>1. CASE UNCHANGED vars
    BY <2>1 DEF vars, TypeOK
  <2>2. ASSUME NEW p \in Procs, NEW c \in Commands, Invoke(p, c)
        PROVE  TypeOK'
    BY <2>2 DEF TypeOK, Invoke, Goto, Locations
  <2>3. ASSUME NEW p \in Procs, Acquiring(p)
        PROVE  TypeOK'
    BY <2>3 DEF TypeOK, Goto, Locations, Acquiring, CreateLock, RefuseLocked,
                LockFileFails, WritePid, SyncPid, PidFails, UndoLock
  <2>4. ASSUME NEW p \in Procs, Working(p)
        PROVE  TypeOK'
    <3>1. CASE LoadCursor(p) \/ SaveCursor(p)
      BY <3>1, LockBounds DEF TypeOK, Goto, Locations, LoadCursor, SaveCursor
    <3>2. CASE OpenStore(p) \/ OpenFails(p) \/ CloseStore(p)
      BY <3>2 DEF TypeOK, Goto, Locations, OpenStore, OpenFails, CloseStore
    <3>3. CASE StartWrite(p) \/ AnswerDryRun(p) \/ Ingest(p) \/ WorkFails(p)
      BY <3>3 DEF TypeOK, Goto, Locations, StartWrite, AnswerDryRun, Ingest,
                  WorkFails
    <3>4. QED
      BY <2>4, <3>1, <3>2, <3>3 DEF Working
  <2>5. ASSUME NEW p \in Procs, Releasing(p) \/ RemoveFails(p) \/ Crash(p)
        PROVE  TypeOK'
    BY <2>5 DEF TypeOK, Goto, Locations, Releasing, CloseLockFile, RemoveLock,
                RemoveFails, Crash
  <2>6. QED
    BY <2>1, <2>2, <2>3, <2>4, <2>5 DEF Next, Step
<1>3. QED
  BY <1>1, <1>2, PTL DEF Spec

(* A step leaves alone the location of every command but the one it is of.  *)
LEMMA OneMoves ==
  ASSUME TypeOK, NEW p \in Procs, NEW from, NEW to, Goto(p, from, to)
  PROVE  /\ pc[p] = from /\ pc'[p] = to
         /\ \A q \in Procs : q # p => pc'[q] = pc[q]
BY DEF TypeOK, Goto

(* The strengthening: IInv is inductive.                                    *)
LEMMA Inductive == IInv /\ TypeOK' /\ [Next]_vars => IInv'
<1> SUFFICES ASSUME IInv, TypeOK', [Next]_vars
             PROVE  Owned' /\ OpenIsInStore' /\ MarkNotOvertaken'
  BY DEF IInv
<1> USE DEF IInv, Owned, OpenIsInStore, MarkNotOvertaken, Held, InStore
<1>1. CASE UNCHANGED vars
  BY <1>1 DEF vars
<1>2. ASSUME NEW p \in Procs, NEW c \in Commands, Invoke(p, c)
      PROVE  Owned' /\ OpenIsInStore' /\ MarkNotOvertaken'
  BY <1>2, ProcsAssumption DEF Invoke, Goto, TypeOK
<1>3. ASSUME NEW p \in Procs, Acquiring(p)
      PROVE  Owned' /\ OpenIsInStore' /\ MarkNotOvertaken'
  <2>1. CASE CreateLock(p)
    BY <2>1, ProcsAssumption DEF CreateLock, Goto, TypeOK
  <2>2. CASE RefuseLocked(p) \/ LockFileFails(p) \/ WritePid(p)
             \/ SyncPid(p) \/ PidFails(p)
    BY <2>2 DEF RefuseLocked, LockFileFails, WritePid, SyncPid, PidFails,
                Goto, TypeOK
  <2>3. CASE UndoLock(p)
    BY <2>3 DEF UndoLock, Goto, TypeOK
  <2>4. QED
    BY <1>3, <2>1, <2>2, <2>3 DEF Acquiring
<1>4. ASSUME NEW p \in Procs, Working(p)
      PROVE  Owned' /\ OpenIsInStore' /\ MarkNotOvertaken'
  <2>1. CASE OpenStore(p) \/ OpenFails(p)
    BY <2>1 DEF OpenStore, OpenFails, Goto, TypeOK
  <2>2. CASE LoadCursor(p)
    BY <2>2 DEF LoadCursor, Goto, TypeOK
  <2>3. CASE StartWrite(p) \/ AnswerDryRun(p) \/ Ingest(p) \/ WorkFails(p)
    BY <2>3 DEF StartWrite, AnswerDryRun, Ingest, WorkFails, Goto, TypeOK
  <2>4. CASE SaveCursor(p)
    (* Nobody else has loaded a mark: it would hold the lock as well.       *)
    BY <2>4 DEF SaveCursor, Goto, TypeOK
  <2>5. CASE CloseStore(p)
    BY <2>5 DEF CloseStore, Goto, TypeOK
  <2>6. QED
    BY <1>4, <2>1, <2>2, <2>3, <2>4, <2>5 DEF Working
<1>5. ASSUME NEW p \in Procs, Releasing(p)
      PROVE  Owned' /\ OpenIsInStore' /\ MarkNotOvertaken'
  BY <1>5 DEF Releasing, CloseLockFile, RemoveLock, Goto, TypeOK
<1>6. ASSUME NEW p \in Procs, RemoveFails(p) \/ Crash(p)
      PROVE  Owned' /\ OpenIsInStore' /\ MarkNotOvertaken'
  BY <1>6 DEF RemoveFails, Crash, Goto, TypeOK
<1>7. QED
  BY <1>1, <1>2, <1>3, <1>4, <1>5, <1>6 DEF Next, Step

LEMMA Invariance == Spec => []IInv
<1>1. Init => IInv
  BY DEF Init, IInv, TypeOK, Owned, OpenIsInStore, MarkNotOvertaken, Held,
         InStore, Locations, Commands
<1>2. QED
  BY <1>1, Inductive, TypeCorrect, PTL DEF Spec

(* lock.go's purpose: no two commands have the archive open for writing at  *)
(* once, for any number of commands, crashes and failed removals.           *)
THEOREM Exclusion == Spec => []WritersExclusive
<1>1. IInv => WritersExclusive
  BY DEF IInv, TypeOK, Owned, OpenIsInStore, WritersExclusive, Held, InStore
<1>2. QED
  BY <1>1, Invariance, PTL

(* The mark a `sync --resume` loaded is still the stored one when it saves. *)
THEOREM NoLostMark == Spec => []MarkNotOvertaken
<1>1. IInv => MarkNotOvertaken
  BY DEF IInv
<1>2. QED
  BY <1>1, Invariance, PTL

(* os.Remove takes a path, yet no command removes a file it did not make.   *)
THEOREM RemovalIsOwn == Spec => RemovesItsOwn
<1>1. ASSUME IInv, [Next]_vars, lockFile # NoProc, lockFile' # lockFile
      PROVE  /\ lockFile' = NoProc
             /\ pc[lockFile] \in {"undo", "remove"}
             /\ pc'[lockFile] = "idle"
  <2>1. PICK p \in Procs : UndoLock(p) \/ RemoveLock(p) \/ CreateLock(p)
    BY <1>1 DEF Next, vars, Step, Acquiring, Working, Releasing, Invoke,
                RefuseLocked, LockFileFails, WritePid, SyncPid, PidFails,
                OpenStore, OpenFails, LoadCursor, StartWrite, AnswerDryRun,
                Ingest, SaveCursor, WorkFails, CloseStore, CloseLockFile,
                RemoveFails, Crash
  <2>2. ~CreateLock(p)
    BY <1>1 DEF CreateLock
  <2>3. lockFile = p
    BY <1>1, <2>1, <2>2 DEF UndoLock, RemoveLock, Goto, IInv, Owned, Held
  <2>4. QED
    BY <1>1, <2>1, <2>2, <2>3 DEF UndoLock, RemoveLock, Goto, IInv, TypeOK
<1>2. QED
  BY <1>1, Invariance, PTL DEF RemovesItsOwn, Spec

(* Acquire, the deferred Close and Release implement the abstract mutex:    *)
(* taken before the store is opened, given back after it is closed.         *)
THEOREM Refinement == Spec => ImplementsMutex
<1>1. Init => Mutex!Init
  BY DEF Init, Mutex!Init
<1>2. IInv /\ [Next]_vars => [Mutex!Next]_(Mutex!vars)
  <2> SUFFICES ASSUME IInv, [Next]_vars
               PROVE  Mutex!Next \/ UNCHANGED <<lockFile, open>>
    BY DEF Mutex!vars
  <2>1. CASE UNCHANGED vars
    BY <2>1 DEF vars
  <2>2. ASSUME NEW p \in Procs, NEW c \in Commands, Invoke(p, c)
        PROVE  UNCHANGED <<lockFile, open>>
    BY <2>2 DEF Invoke
  <2>3. ASSUME NEW p \in Procs, Acquiring(p)
        PROVE  Mutex!Next \/ UNCHANGED <<lockFile, open>>
    <3>1. CreateLock(p) => Mutex!Take(p)
      BY DEF CreateLock, Mutex!Take
    <3>2. UndoLock(p) => Mutex!Give(p)
      BY DEF UndoLock, Mutex!Give, Goto, IInv, Owned, OpenIsInStore, Held,
             InStore
    <3>3. QED
      BY <2>3, <3>1, <3>2 DEF Mutex!Next, Acquiring, RefuseLocked,
                              LockFileFails, WritePid, SyncPid, PidFails
  <2>4. ASSUME NEW p \in Procs, Working(p)
        PROVE  Mutex!Next \/ UNCHANGED <<lockFile, open>>
    <3>1. OpenStore(p) => Mutex!Enter(p)
      BY DEF OpenStore, Mutex!Enter, Goto, IInv, Owned, Held
    <3>2. CloseStore(p) => Mutex!Leave(p)
      BY DEF CloseStore, Mutex!Leave, Goto, IInv, OpenIsInStore, InStore
    <3>3. QED
      BY <2>4, <3>1, <3>2 DEF Mutex!Next, Working, OpenFails, LoadCursor,
           StartWrite, AnswerDryRun, Ingest, SaveCursor, WorkFails
  <2>5. ASSUME NEW p \in Procs, Releasing(p)
        PROVE  Mutex!Next \/ UNCHANGED <<lockFile, open>>
    <3>1. RemoveLock(p) => Mutex!Give(p)
      BY DEF RemoveLock, Mutex!Give, Goto, IInv, Owned, OpenIsInStore, Held,
             InStore
    <3>2. QED
      BY <2>5, <3>1 DEF Mutex!Next, Releasing, CloseLockFile
  <2>6. ASSUME NEW p \in Procs, RemoveFails(p) \/ Crash(p)
        PROVE  Mutex!Next \/ UNCHANGED <<lockFile, open>>
    <3>1. Crash(p) /\ p \in open => Mutex!Leave(p)
      BY DEF Crash, Mutex!Leave
    <3>2. Crash(p) /\ p \notin open => UNCHANGED <<lockFile, open>>
      BY DEF Crash
    <3>3. QED
      BY <2>6, <3>1, <3>2 DEF Mutex!Next, RemoveFails
  <2>7. QED
    BY <2>1, <2>2, <2>3, <2>4, <2>5, <2>6 DEF Next, Step
<1>3. QED
  BY <1>1, <1>2, Invariance, PTL DEF Spec, ImplementsMutex, Mutex!Spec
=============================================================================
