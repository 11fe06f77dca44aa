------------------------------ MODULE Artifact ------------------------------
(***************************************************************************)
(* Publishing: `publish` takes a Snapshot of the local archive and has     *)
(* WriteEncryptedJSONL of internal/archive/archive.go put it into a new    *)
(* file, system call by system call, with everything that can fail.        *)
(*                                                                         *)
(* An issue's content is the stamp of its last update at Linear, 0 when    *)
(* there is none; an archive is a function from issues to stamps.          *)
(* Publishers take no lock.  Snapshot is one state of the archive          *)
(* (SnapshotIsOnePoint of StoreReads).  Compression and encryption are     *)
(* external: what counts is that age ends a file with a final chunk, so    *)
(* that a file that was cut short is known for one.                        *)
(***************************************************************************)
EXTENDS Naturals, FiniteSets

CONSTANTS
  Publishers,
  Paths,       \* the paths given with --out
  Issues,
  MaxStamp,    \* bound on the updates at Linear
  MaxFaults,   \* bound on failures and crashes
  Absent,      \* no such file
  Draft        \* of the abstract path: a file nobody has vouched for

ASSUME StampAssumption == MaxStamp \in Nat /\ MaxFaults \in Nat

Contents == [Issues -> 0..MaxStamp]

ASSUME ContentsAssumption == Absent \notin Contents /\ Draft \notin Contents

VARIABLES
  linear,   \* the stamp of each issue's last update
  source,   \* the archive that is published
  past,     \* history: the states it was in
  file,     \* what is at each path
  pc,       \* the next call of each publisher
  out,      \* its --out
  snap,     \* what it publishes
  kept,     \* the paths whose publisher has returned with success
  strays,   \* history: paths where a crash or a failed removal left a file
  faults

vars == <<linear, source, past, file, pc, out, snap, kept, strays, faults>>

Nothing == [i \in Issues |-> 0]

(* An unfinished file holds the records flushed so far; a whole one ends    *)
(* with age's final chunk; a safe one is on the disk.                       *)
Stages == {"empty", "part", "whole", "safe"}
File   == [stage : Stages, holds : Contents]

ASSUME FilesAssumption == Absent # Draft /\ Absent \notin File

Created == [stage |-> "empty", holds |-> Nothing]

Calls == {"idle", "create", "write", "sync", "close", "undo"}

(* Between the open and the close or the removal of its file.               *)
Writing(p) == pc[p] \in {"write", "sync", "close", "undo"}

TypeOK ==
  /\ linear \in Contents /\ source \in Contents
  /\ past \subseteq Contents
  /\ file \in [Paths -> File \cup {Absent}]
  /\ pc \in [Publishers -> Calls]
  /\ out \in [Publishers -> Paths \cup {Absent}]
  /\ snap \in [Publishers -> Contents]
  /\ kept \subseteq Paths /\ strays \subseteq Paths
  /\ faults \in 0..MaxFaults

Init ==
  /\ linear = Nothing /\ source = Nothing /\ past = {Nothing}
  /\ file = [q \in Paths |-> Absent]
  /\ pc = [p \in Publishers |-> "idle"]
  /\ out = [p \in Publishers |-> Absent]
  /\ snap = [p \in Publishers |-> Nothing]
  /\ kept = {} /\ strays = {} /\ faults = 0

-----------------------------------------------------------------------------
Goto(p, call) == pc' = [pc EXCEPT ![p] = call]

Return(p) ==
  /\ Goto(p, "idle")
  /\ out' = [out EXCEPT ![p] = Absent]
  /\ snap' = [snap EXCEPT ![p] = Nothing]

Fault == faults < MaxFaults /\ faults' = faults + 1

(* Something fails that is not a publisher's.                               *)
FaultElsewhere ==
  /\ Fault
  /\ UNCHANGED <<linear, source, past, file, pc, out, snap, kept, strays>>

(* An issue is updated, later than any other was.                           *)
Update(i) ==
  /\ \E j \in Issues :
       /\ linear[j] < MaxStamp /\ \A k \in Issues : linear[k] <= linear[j]
       /\ linear' = [linear EXCEPT ![i] = linear[j] + 1]
  /\ UNCHANGED <<source, past, file, pc, out, snap, kept, strays, faults>>

(* A sync commits a page of issues to the archive that is published.        *)
SyncSource(page) ==
  /\ source' = [i \in Issues |-> IF i \in page THEN linear[i] ELSE source[i]]
  /\ past' = past \cup {source'}
  /\ UNCHANGED <<linear, file, pc, out, snap, kept, strays, faults>>

-----------------------------------------------------------------------------
TakeSnapshot(p, q) ==
  /\ pc[p] = "idle" /\ Goto(p, "create")
  /\ out' = [out EXCEPT ![p] = q]
  /\ snap' = [snap EXCEPT ![p] = source]
  /\ UNCHANGED <<linear, source, past, file, kept, strays, faults>>

(* os.OpenFile with O_CREATE and O_EXCL.                                    *)
CreateFile(p) ==
  /\ pc[p] = "create" /\ file[out[p]] = Absent
  /\ file' = [file EXCEPT ![out[p]] = Created]
  /\ Goto(p, "write")
  /\ UNCHANGED <<linear, source, past, out, snap, kept, strays, faults>>

(* The file exists.  The clean-up is not armed yet.  A slip: arming it      *)
(* before the open.                                                         *)
RefuseExisting_Cleanup(p) ==
  /\ pc[p] = "create" /\ file[out[p]] # Absent
  /\ file' = [file EXCEPT ![out[p]] = Absent]
  /\ Return(p)
  /\ UNCHANGED <<linear, source, past, kept, strays, faults>>

RefuseExisting(p) ==
  /\ pc[p] = "create" /\ file[out[p]] # Absent
  /\ Return(p)
  /\ UNCHANGED <<linear, source, past, file, kept, strays, faults>>

(* age's header, and then the records of some issues, reach the file.       *)
FlushRecords(p, flushed) ==
  /\ pc[p] = "write" /\ file[out[p]].stage = "empty"
  /\ file' = [file EXCEPT ![out[p]] =
                [stage |-> "part",
                 holds |-> [i \in Issues |-> IF i \in flushed
                                               THEN snap[p][i] ELSE 0]]]
  /\ UNCHANGED <<linear, source, past, pc, out, snap, kept, strays, faults>>

(* The writers of zstd and age are closed: the rest, and the final chunk.   *)
FinishFile(p) ==
  /\ pc[p] = "write" /\ file[out[p]].stage = "part"
  /\ file' = [file EXCEPT ![out[p]] = [stage |-> "whole", holds |-> snap[p]]]
  /\ Goto(p, "sync")
  /\ UNCHANGED <<linear, source, past, out, snap, kept, strays, faults>>

(* A slip: no Sync.                                                         *)
SyncFile_Skipped(p) ==
  /\ pc[p] = "sync"
  /\ Goto(p, "close")
  /\ UNCHANGED <<linear, source, past, file, out, snap, kept, strays, faults>>

SyncFile(p) ==
  /\ pc[p] = "sync"
  /\ file' = [file EXCEPT ![out[p]].stage = "safe"]
  /\ Goto(p, "close")
  /\ UNCHANGED <<linear, source, past, out, snap, kept, strays, faults>>

(* Closed: the publisher reports the artifact.                              *)
CloseFile(p) ==
  /\ pc[p] = "close"
  /\ kept' = kept \cup {out[p]}
  /\ Return(p)
  /\ UNCHANGED <<linear, source, past, file, strays, faults>>

(* A call on the open file fails; what is there stays until the deferred    *)
(* removal.  The writers of zstd and age are closed before that, but after  *)
(* a write that failed neither writes any more, and a record cannot fail to *)
(* be encoded: no final chunk follows.  A slip: a path on which the         *)
(* clean-up is disarmed.                                                    *)
WriteFails_NoCleanup(p) ==
  /\ pc[p] \in {"write", "sync", "close"} /\ Fault
  /\ IF pc[p] = "sync" THEN Return(p)
                        ELSE Goto(p, "undo") /\ UNCHANGED <<out, snap>>
  /\ UNCHANGED <<linear, source, past, file, kept, strays>>

WriteFails(p) ==
  /\ pc[p] \in {"write", "sync", "close"} /\ Fault
  /\ Goto(p, "undo")
  /\ UNCHANGED <<linear, source, past, file, out, snap, kept, strays>>

Undo(p) ==
  /\ pc[p] = "undo"
  /\ file' = [file EXCEPT ![out[p]] = Absent]
  /\ Return(p)
  /\ UNCHANGED <<linear, source, past, kept, strays, faults>>

(* The error of the removal is dropped.                                     *)
UndoFails(p) ==
  /\ pc[p] = "undo"
  /\ strays' = strays \cup {out[p]}
  /\ Return(p)
  /\ UNCHANGED <<linear, source, past, file, kept, faults>>

(* The process dies; no deferred function runs.                             *)
Crash(p) ==
  /\ pc[p] # "idle" /\ Fault
  /\ strays' = IF Writing(p) THEN strays \cup {out[p]} ELSE strays
  /\ Return(p)
  /\ UNCHANGED <<linear, source, past, file, kept>>

(* The machine dies.  A file that is not on the disk may be there, be there *)
(* with nothing in it, or be gone.                                          *)
Safe(q) == file[q] # Absent /\ file[q].stage = "safe"

PowerLoss(gone, emptied) ==
  /\ Fault
  /\ \A q \in gone \cup emptied : file[q] # Absent /\ ~Safe(q)
  /\ file' = [q \in Paths |-> IF q \in gone THEN Absent
                              ELSE IF q \in emptied THEN Created
                              ELSE file[q]]
  /\ pc' = [p \in Publishers |-> "idle"]
  /\ out' = [p \in Publishers |-> Absent]
  /\ snap' = [p \in Publishers |-> Nothing]
  /\ strays' = (strays \cup {out[p] : p \in {o \in Publishers : Writing(o)}})
                 \ gone
  /\ UNCHANGED <<linear, source, past, kept>>

(* The operator removes what a dead publisher has left.                     *)
Discard(q) ==
  /\ file[q] # Absent /\ q \notin kept
  /\ \A p \in Publishers : Writing(p) => out[p] # q
  /\ file' = [file EXCEPT ![q] = Absent]
  /\ strays' = strays \ {q}
  /\ UNCHANGED <<linear, source, past, pc, out, snap, kept, faults>>

-----------------------------------------------------------------------------
Publish(p) ==
  \/ \E q \in Paths : TakeSnapshot(p, q)
  \/ CreateFile(p) \/ RefuseExisting(p)
  \/ \E flushed \in SUBSET Issues : FlushRecords(p, flushed)
  \/ FinishFile(p) \/ SyncFile(p) \/ CloseFile(p)
  \/ WriteFails(p) \/ Undo(p) \/ UndoFails(p) \/ Crash(p)

Next ==
  \/ \E i \in Issues : Update(i)
  \/ \E page \in SUBSET Issues : SyncSource(page)
  \/ \E p \in Publishers : Publish(p)
  \/ \E gone, emptied \in SUBSET Paths : PowerLoss(gone, emptied)
  \/ \E q \in Paths : Discard(q)

Spec == Init /\ [][Next]_vars

-----------------------------------------------------------------------------
(* "On any error after the file is opened the partial artifact is removed   *)
(* so a retry with the same --out path succeeds": unless a crash or a       *)
(* failing removal left something there, a path nobody is writing to is     *)
(* free or holds an artifact that was reported.                             *)
RetryFindsPathFree ==
  \A q \in Paths :
    \/ file[q] = Absent
    \/ q \in kept \cup strays
    \/ \E p \in Publishers : Writing(p) /\ out[p] = q

(* "Existing artifacts are never silently clobbered": an artifact that was  *)
(* reported holds one state of the archive and stays as it is, whatever     *)
(* other publishers do and whatever fails.                                  *)
Slot(q) ==
  IF q \in kept /\ file[q] # Absent /\ file[q].stage \in {"whole", "safe"}
    THEN file[q].holds
  ELSE IF file[q] = Absent THEN Absent
  ELSE Draft

Promise == INSTANCE WriteOnce
             WITH slot <- [q \in Paths |-> Slot(q)], Free <- Absent
ImplementsWriteOnce == Promise!Spec
=============================================================================
