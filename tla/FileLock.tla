------------------------------ MODULE FileLock ------------------------------
(***************************************************************************)
(* Several lincrawl commands on one archive: Acquire and Release of        *)
(* internal/lock/lock.go, and the commands of internal/cli/cli.go that     *)
(* wrap their work in them: every `sync` mode but `--stdin --dry-run`,     *)
(* `import` and `subscribe`.  Between the two a command opens the store,   *)
(* reads the high-water mark when it resumes, commits what it ingests,     *)
(* saves a new mark, and closes the store.                                 *)
(*                                                                         *)
(* The lock is a file: creating it exclusively fails when it exists, and   *)
(* removing it removes whatever file has that name.  A command that dies   *)
(* loses its handles; the file stays.                                      *)
(***************************************************************************)
EXTENDS Integers

CONSTANTS
  Procs,      \* the commands, one process each; an id may run again
  NoProc,     \* no command
  MaxMark,    \* bound on the high-water mark
  MaxFaults   \* bound on the crashes and on the removals that fail

ASSUME ProcsAssumption == NoProc \notin Procs
ASSUME LockBounds == MaxMark \in Nat /\ MaxFaults \in Nat

VARIABLES
  lockFile,   \* the command that created the file, NoProc when there is none
  pc,         \* where each command is
  cmd,        \* what it was asked to do
  open,       \* the commands that have the database open for writing
  mark,       \* the stored high-water mark
  seen,       \* the mark a resuming command loaded
  faults

vars == <<lockFile, pc, cmd, open, mark, seen, faults>>

(* "resume": `sync --resume`, which loads the mark and later saves one;     *)
(* "since": `sync --updated-since`, which saves one without loading it;     *)
(* "write": a command that only ingests (--fixture, --stdin, --entities,    *)
(* --issue, import, subscribe); "dry": a `sync --dry-run` other than        *)
(* --stdin, which answers from inside the lock.                             *)
Commands == {"resume", "since", "write", "dry"}

Locations ==
  {"idle", "acquire", "pid", "fsync", "undo", "open", "ready", "ingest",
   "save", "close", "release", "remove"}

TypeOK ==
  /\ lockFile \in Procs \cup {NoProc}
  /\ pc \in [Procs -> Locations]
  /\ cmd \in [Procs -> Commands]
  /\ open \subseteq Procs
  /\ mark \in Nat
  /\ seen \in [Procs -> Nat]
  /\ faults \in Nat

Init ==
  /\ lockFile = NoProc
  /\ pc = [p \in Procs |-> "idle"]
  /\ cmd = [p \in Procs |-> "write"]
  /\ open = {}
  /\ mark = 0
  /\ seen = [p \in Procs |-> 0]
  /\ faults = 0

Goto(p, from, to) == pc[p] = from /\ pc' = [pc EXCEPT ![p] = to]

Invoke(p, c) ==
  /\ Goto(p, "idle", "acquire")
  /\ cmd' = [cmd EXCEPT ![p] = c]
  /\ UNCHANGED <<lockFile, open, mark, seen, faults>>

-----------------------------------------------------------------------------
(* lock.Acquire                                                             *)

(* A slip: opening the lock file without O_EXCL.                            *)
CreateLock_Shared(p) ==
  /\ Goto(p, "acquire", "pid")
  /\ lockFile' = p
  /\ UNCHANGED <<cmd, open, mark, seen, faults>>

CreateLock(p) ==
  /\ Goto(p, "acquire", "pid")
  /\ lockFile = NoProc
  /\ lockFile' = p
  /\ UNCHANGED <<cmd, open, mark, seen, faults>>

(* A slip: cleaning the path up after the exclusive open has failed.        *)
RefuseLocked_Cleanup(p) ==
  /\ Goto(p, "acquire", "idle")
  /\ lockFile # NoProc
  /\ lockFile' = NoProc
  /\ UNCHANGED <<cmd, open, mark, seen, faults>>

(* "store is locked": the command gives up at once.                         *)
RefuseLocked(p) ==
  /\ Goto(p, "acquire", "idle")
  /\ lockFile # NoProc
  /\ UNCHANGED <<lockFile, cmd, open, mark, seen, faults>>

(* The exclusive open fails for another reason.                             *)
LockFileFails(p) ==
  /\ Goto(p, "acquire", "idle")
  /\ UNCHANGED <<lockFile, cmd, open, mark, seen, faults>>

WritePid(p) ==
  /\ Goto(p, "pid", "fsync")
  /\ UNCHANGED <<lockFile, cmd, open, mark, seen, faults>>

SyncPid(p) ==
  /\ Goto(p, "fsync", "open")
  /\ UNCHANGED <<lockFile, cmd, open, mark, seen, faults>>

(* Writing or syncing the pid fails: the file is closed, then removed.      *)
PidFails(p) ==
  /\ Goto(p, "pid", "undo") \/ Goto(p, "fsync", "undo")
  /\ UNCHANGED <<lockFile, cmd, open, mark, seen, faults>>

UndoLock(p) ==
  /\ Goto(p, "undo", "idle")
  /\ lockFile' = NoProc
  /\ UNCHANGED <<cmd, open, mark, seen, faults>>

-----------------------------------------------------------------------------
(* The command's work, from store.Open to the deferred s.Close.             *)

OpenStore(p) ==
  /\ Goto(p, "open", "ready")
  /\ open' = open \cup {p}
  /\ UNCHANGED <<lockFile, cmd, mark, seen, faults>>

(* A slip: returning the error without the deferred Release.                *)
OpenFails_NoRelease(p) ==
  /\ Goto(p, "open", "idle")
  /\ UNCHANGED <<lockFile, cmd, open, mark, seen, faults>>

OpenFails(p) ==
  /\ Goto(p, "open", "release")
  /\ UNCHANGED <<lockFile, cmd, open, mark, seen, faults>>

LoadCursor(p) ==
  /\ cmd[p] = "resume" /\ Goto(p, "ready", "ingest")
  /\ seen' = [seen EXCEPT ![p] = mark]
  /\ UNCHANGED <<lockFile, cmd, open, mark, faults>>

StartWrite(p) ==
  /\ cmd[p] \in {"since", "write"} /\ Goto(p, "ready", "ingest")
  /\ UNCHANGED <<lockFile, cmd, open, mark, seen, faults>>

AnswerDryRun(p) ==
  /\ cmd[p] = "dry" /\ Goto(p, "ready", "close")
  /\ UNCHANGED <<lockFile, cmd, open, mark, seen, faults>>

Ingest(p) ==
  /\ \/ cmd[p] \in {"resume", "since"} /\ Goto(p, "ingest", "save")
     \/ cmd[p] = "write" /\ Goto(p, "ingest", "close")
  /\ UNCHANGED <<lockFile, cmd, open, mark, seen, faults>>

(* A slip: a mark below the first one.                                      *)
SaveCursor_Below(p) ==
  /\ Goto(p, "save", "close")
  /\ mark' = IF seen[p] < MaxMark THEN seen[p] + 1 ELSE -1
  /\ UNCHANGED <<lockFile, cmd, open, seen, faults>>

(* The tail saves a mark of its own, computed from the one it loaded or     *)
(* from the stamp it was given.                                             *)
SaveCursor(p) ==
  /\ Goto(p, "save", "close")
  /\ \/ /\ cmd[p] = "resume"
        /\ mark' = IF seen[p] < MaxMark THEN seen[p] + 1 ELSE 0
     \/ cmd[p] = "since" /\ mark' \in 0..MaxMark
  /\ UNCHANGED <<lockFile, cmd, open, seen, faults>>

(* An error on the way: the deferred calls still run.                       *)
WorkFails(p) ==
  /\ Goto(p, "ready", "close") \/ Goto(p, "ingest", "close")
       \/ Goto(p, "save", "close")
  /\ UNCHANGED <<lockFile, cmd, open, mark, seen, faults>>

(* Deferred calls run last in, first out: the store closes, then the lock   *)
(* is released.  A slip: deferring them in the other order.                 *)
CloseStore_Later(p) ==
  /\ Goto(p, "close", "release")
  /\ UNCHANGED <<lockFile, cmd, open, mark, seen, faults>>

CloseStore(p) ==
  /\ Goto(p, "close", "release")
  /\ open' = open \ {p}
  /\ UNCHANGED <<lockFile, cmd, mark, seen, faults>>

-----------------------------------------------------------------------------
(* lock.Release: the handle, then the file by its name.                     *)

CloseLockFile(p) ==
  /\ Goto(p, "release", "remove")
  /\ UNCHANGED <<lockFile, cmd, open, mark, seen, faults>>

RemoveLock(p) ==
  /\ Goto(p, "remove", "idle")
  /\ lockFile' = NoProc
  /\ UNCHANGED <<cmd, open, mark, seen, faults>>

(* The removal fails; the caller drops the error and the file stays.        *)
RemoveFails(p) ==
  /\ faults < MaxFaults /\ faults' = faults + 1
  /\ Goto(p, "remove", "idle") \/ Goto(p, "undo", "idle")
  /\ UNCHANGED <<lockFile, cmd, open, mark, seen>>

Crash(p) ==
  /\ faults < MaxFaults /\ faults' = faults + 1
  /\ pc[p] # "idle" /\ pc' = [pc EXCEPT ![p] = "idle"]
  /\ open' = open \ {p}
  /\ UNCHANGED <<lockFile, cmd, mark, seen>>

-----------------------------------------------------------------------------
Acquiring(p) ==
  CreateLock(p) \/ RefuseLocked(p) \/ LockFileFails(p) \/ WritePid(p)
    \/ SyncPid(p) \/ PidFails(p) \/ UndoLock(p)

Working(p) ==
  OpenStore(p) \/ OpenFails(p) \/ LoadCursor(p) \/ StartWrite(p)
    \/ AnswerDryRun(p) \/ Ingest(p) \/ SaveCursor(p) \/ WorkFails(p)
    \/ CloseStore(p)

Releasing(p) == CloseLockFile(p) \/ RemoveLock(p)

Step(p) == Acquiring(p) \/ Working(p) \/ Releasing(p)

Next ==
  \E p \in Procs :
    \/ \E c \in Commands : Invoke(p, c)
    \/ Step(p)
    \/ RemoveFails(p)
    \/ Crash(p)

Spec == Init /\ [][Next]_vars

(* A command that was started runs until it returns.                        *)
FairSpec == Spec /\ \A p \in Procs : WF_vars(Step(p))

-----------------------------------------------------------------------------
(* Two commands never have the archive open for writing at once, whatever   *)
(* fails on the way in or out.                                              *)
WritersExclusive == \A p, q \in open : p = q

(* A resuming command's mark is not overtaken between the load and the      *)
(* save, so no run's mark is lost to one computed from an older mark.       *)
MarkNotOvertaken ==
  \A p \in Procs :
    cmd[p] = "resume" /\ pc[p] \in {"ingest", "save"} => seen[p] = mark

(* The file is removed by its name, yet only by the command that made it.   *)
RemovesItsOwn ==
  [][lockFile # NoProc /\ lockFile' # lockFile
       => /\ lockFile' = NoProc
          /\ pc[lockFile] \in {"undo", "remove"}
          /\ pc'[lockFile] = "idle"]_vars

(* The lock does what WriterMutex says.                                     *)
Mutex == INSTANCE WriterMutex WITH holder <- lockFile, users <- open
ImplementsMutex == Mutex!Spec

(* Unless a command dies or cannot remove the file, the lock comes free:    *)
(* every error path releases it.                                            *)
LockComesFree ==
  lockFile # NoProc /\ faults = 0 ~> lockFile = NoProc \/ faults > 0

(* A dry run returns its plan without touching SQLite.                      *)
DryRunLeavesStoreAlone == \A p \in open : cmd[p] # "dry"
=============================================================================
