-------------------------- MODULE Subscribe_proofs --------------------------
(***************************************************************************)
(* Proofs about Subscribe for any manifest, any issues, any publishers and *)
(* any number of failures.  The archive's lock is what keeps a sync away   *)
(* from an ingest; age's final chunk and the writers' order (Artifact) are *)
(* what keeps a part of an archive out; and the mark can be trusted        *)
(* because what was published is never ahead of Linear.                    *)
(***************************************************************************)
EXTENDS Subscribe, Artifact_proofs, SequenceTheorems

HoldsLock == step \in {"read", "ingest"} => locked

(* Where the command is in its list at each step.                           *)
PlaceInList ==
  /\ step \in {"idle", "acquire"} => nth = 0
  /\ step \in {"idle", "check", "acquire"} => got = <<>>
  /\ step \in {"read", "ingest"} => Len(got) = nth
  /\ step \in {"idle", "check", "read"} => read = Absent
  /\ step = "acquire" /\ Importing => Len(plan) = 1
  /\ step = "ingest" => Importing /\ nth < Len(plan)

(* A published archive has no update that Linear has not.                   *)
BehindLinear == \A c \in past, i \in Issues : c[i] <= linear[i]

(* The mark is the stamp of an update, and stamps only grow.                *)
MarkReached == mark = 0 \/ \E j \in Issues : mark <= linear[j]

CommandInv == HoldsLock /\ PlaceInList /\ OnlyWholeStates /\ AppliedInOrder
MarkInv    == BehindLinear /\ MarkReached /\ MarkVouches

SInv == AInv /\ SubTypeOK /\ CommandInv /\ MarkInv

-----------------------------------------------------------------------------
(* A run of either kind syncs from a stamp s on.                            *)
SomeSync ==
  \E s \in 1..MaxStamp : \E page \in Pages(s) : Sync(s, page)

SomeFailure ==
  \E s \in 1..MaxStamp : \E page \in Pages(s) : SyncFails(page)

LEMMA EveryRun ==
  ASSUME mark \in 0..MaxStamp,
         Resume \/ \E s \in 1..MaxStamp : SyncSince(s)
  PROVE  SomeSync
<1>1. CASE Resume
  <2>1. mark \in 1..MaxStamp
    BY <1>1, StampAssumption DEF Resume
  <2>2. QED
    BY <1>1, <2>1 DEF Resume, SomeSync
<1>2. CASE \E s \in 1..MaxStamp : SyncSince(s)
  BY <1>2 DEF SyncSince, SomeSync
<1>3. QED
  BY <1>1, <1>2

LEMMA PagesAreIssues ==
  ASSUME NEW s, NEW page \in Pages(s)
  PROVE  page \subseteq Since(s) /\ page \subseteq Issues
BY DEF Pages, Since

(* What the publishers and Linear see of the command's own steps is         *)
(* nothing, or a failure.                                                   *)
LEMMA CommandIsElsewhere == [SubNext]_<<vars, subVars>> => Step
<1> SUFFICES ASSUME [SubNext]_<<vars, subVars>>
             PROVE  Step
  OBVIOUS
<1> USE DEF Step
<1>1. CASE UNCHANGED <<vars, subVars>>
  BY <1>1
<1>2. CASE Next
  BY <1>2
<1>3. CASE \/ \E q \in Paths : StartImport(q)
           \/ \E manifest \in Manifests : StartSubscribe(manifest)
  BY <1>3 DEF StartImport, StartSubscribe
<1>4. CASE ClearLock \/ Resume \/ \E s \in 1..MaxStamp : SyncSince(s)
  BY <1>4 DEF ClearLock, Resume, SyncSince, Sync
<1>5. CASE RunStep
  BY <1>5 DEF RunStep, CheckNext, WalkTree, RefuseStore, AcquireLock,
              RefuseLocked, ReadNext, ReadFails, IngestNext, Finished
<1>6. CASE RunFails \/ RunCrashes \/ SomeFailure
  BY <1>6 DEF RunFails, RunCrashes, SomeFailure, SyncFails
<1>7. QED
  BY <1>1, <1>2, <1>3, <1>4, <1>5, <1>6 DEF SubNext, SomeFailure

LEMMA SubTypeStep ==
  ASSUME SInv, TypeOK', [SubNext]_<<vars, subVars>>
  PROVE  SubTypeOK'
<1> USE ListAssumption, StampAssumption DEF SInv, SubTypeOK
<1>1. CASE UNCHANGED subVars
  BY <1>1 DEF subVars, run
<1>2. ASSUME NEW manifest \in Manifests, StartSubscribe(manifest)
      PROVE  SubTypeOK'
  <2>1. manifest \in Seq(Paths)
    <3>1. PICK n \in 0..MaxListed : manifest \in [1..n -> Paths]
      BY DEF Manifests
    <3>2. QED
      BY <3>1, SeqDef
  <2>2. nth = 0 /\ got = <<>> /\ Len(<<>>) = 0
    BY <1>2 DEF StartSubscribe, CommandInv, PlaceInList
  <2>3. Len(manifest) \in Nat
    BY <2>1
  <2>4. nth' \in 0..Len(plan') /\ Len(got') <= Len(plan')
    BY <1>2, <2>2, <2>3 DEF StartSubscribe
  <2>5. QED
    BY <1>2, <2>1, <2>4 DEF StartSubscribe, Steps
<1>3. ASSUME NEW q \in Paths, StartImport(q)
      PROVE  SubTypeOK'
  <2>1. file[q].holds \in Contents
    BY <1>3 DEF StartImport, Readable, TypeOK, File
  <2>2. <<q>> \in Seq(Paths) /\ Len(<<q>>) = 1
    OBVIOUS
  <2>3. nth = 0 /\ got = <<>>
    BY <1>3 DEF StartImport, CommandInv, PlaceInList
  <2>4. QED
    BY <1>3, <2>1, <2>2, <2>3 DEF StartImport, Steps
<1>5. CASE CheckNext \/ WalkTree
  BY <1>5 DEF CheckNext, WalkTree, Steps
<1>6. CASE AcquireLock
  BY <1>6 DEF AcquireLock, Steps
<1>7. CASE ReadNext
  <2>1. plan[nth + 1] \in Paths
    BY <1>7 DEF ReadNext
  <2>2. file[plan[nth + 1]].holds \in Contents
    BY <1>7, <2>1 DEF ReadNext, Readable, TypeOK, File
  <2>3. QED
    BY <1>7, <2>2 DEF ReadNext, Steps
<1>8. CASE IngestNext
  <2>1. read \in Contents /\ nth < Len(plan) /\ Len(got) = nth
    BY <1>8 DEF IngestNext, CommandInv, PlaceInList, Importing
  <2>2. dest' \in Contents
    BY <1>8, <2>1 DEF IngestNext, Over, Contents
  <2>3. got' \in Seq(Contents) /\ Len(got') = Len(got) + 1
    BY <1>8, <2>1 DEF IngestNext
  <2>4. undone' \subseteq Issues
    BY <1>8 DEF IngestNext, Vouched
  <2>5. QED
    BY <1>8, <2>1, <2>2, <2>3, <2>4 DEF IngestNext, MarkAfter, Steps
<1>9. CASE RefuseStore \/ RefuseLocked \/ RunFails \/ RunCrashes
             \/ Finished \/ ReadFails
  <2>1. /\ Quit /\ UNCHANGED <<dest, mark, floor, undone>>
        /\ locked' \in BOOLEAN
    BY <1>9 DEF RefuseStore, RefuseLocked, RunFails, RunCrashes, Finished,
                ReadFails, End
  <2>2. QED
    BY <2>1 DEF Quit, Steps
<1>10. CASE ClearLock
  BY <1>10 DEF ClearLock, run
<1>11. ASSUME NEW s \in 1..MaxStamp, NEW page \in Pages(s), Sync(s, page)
       PROVE  SubTypeOK'
  <2>1. linear \in [Issues -> 0..MaxStamp] /\ page \subseteq Issues
    BY PagesAreIssues DEF Contents, TypeOK
  <2>2. dest' \in Contents
    BY <1>11, <2>1 DEF Sync, Pulled, Contents
  <2>3. mark' \in 0..MaxStamp
    BY <1>11, <2>1 DEF Sync
  <2>4. floor' \in 0..MaxStamp
    BY <1>11, <2>1 DEF Sync, Joined
  <2>5. QED
    BY <1>11, <2>2, <2>3, <2>4 DEF Sync, run
<1>12. ASSUME NEW s, NEW page \in Pages(s), SyncFails(page)
       PROVE  SubTypeOK'
  <2>1. dest' \in Contents
    BY <1>12, PagesAreIssues DEF SyncFails, Pulled, Contents, TypeOK
  <2>2. QED
    BY <1>12, <2>1 DEF SyncFails, run
<1>13. QED
  <2>1. CASE Resume \/ \E s \in 1..MaxStamp : SyncSince(s)
    BY <1>11, <2>1, EveryRun DEF SomeSync
  <2>2. QED
    BY <1>1, <1>2, <1>3, <1>5, <1>6, <1>7, <1>8, <1>9, <1>10, <1>12, <2>1
       DEF SubNext, RunStep, subVars

LEMMA PastGrows == Step => past \subseteq past'
<1> SUFFICES ASSUME Step
             PROVE  past \subseteq past'
  OBVIOUS
<1>1. CASE UNCHANGED vars \/ FaultElsewhere
  BY <1>1 DEF vars, FaultElsewhere
<1>2. CASE \E i \in Issues : Update(i)
  BY <1>2 DEF Update
<1>3. CASE \E page \in SUBSET Issues : SyncSource(page)
  BY <1>3 DEF SyncSource
<1>4. ASSUME NEW p \in Publishers, Publish(p)
      PROVE  past' = past
  BY <1>4 DEF Publish, TakeSnapshot, CreateFile, RefuseExisting, FlushRecords,
              FinishFile, SyncFile, CloseFile, WriteFails, Undo, UndoFails,
              Crash
<1>5. CASE \/ \E gone, emptied \in SUBSET Paths : PowerLoss(gone, emptied)
           \/ \E q \in Paths : Discard(q)
  BY <1>5 DEF PowerLoss, Discard
<1>6. QED
  BY <1>1, <1>2, <1>3, <1>4, <1>5 DEF Step, Next

AsLastOf(s, d) ==
  \A i \in Issues, k \in DOMAIN s :
    s[k][i] # 0 /\ (\A m \in DOMAIN s : m > k => s[m][i] = 0)
    => d[i] = s[k][i]

(* An archive stays as the last of what was ingested left it.               *)
LEMMA LastWins ==
  ASSUME NEW s \in Seq(Contents), NEW c \in Contents, NEW d, AsLastOf(s, d)
  PROVE  AsLastOf(Append(s, c), Over(d, c))
<1> DEFINE t == Append(s, c)
<1>1. Len(s) \in Nat /\ DOMAIN s = 1..Len(s)
  OBVIOUS
<1>2. /\ DOMAIN t = 1..(Len(s) + 1) /\ t[Len(s) + 1] = c
      /\ \A m \in 1..Len(s) : t[m] = s[m]
  OBVIOUS
<1> HIDE DEF t
<1>3. ASSUME NEW i \in Issues, NEW k \in DOMAIN t, t[k][i] # 0,
             \A m \in DOMAIN t : m > k => t[m][i] = 0
      PROVE  Over(d, c)[i] = t[k][i]
  <2>1. CASE k = Len(s) + 1
    BY <1>2, <1>3, <2>1 DEF Over
  <2>2. CASE k \in 1..Len(s)
    <3>1. c[i] = 0
      BY <1>1, <1>2, <1>3, <2>2
    <3>2. d[i] = s[k][i]
      BY <1>1, <1>2, <1>3, <2>2 DEF AsLastOf
    <3>3. QED
      BY <1>2, <2>2, <3>1, <3>2 DEF Over
  <2>3. QED
    BY <1>1, <1>2, <1>3, <2>1, <2>2
<1>4. QED
  BY <1>3 DEF t, AsLastOf

(* The lock is the command's while it reads and ingests, so that nothing    *)
(* but its own artifacts gets into the archive.                             *)
LEMMA CommandStep ==
  ASSUME SInv, SubTypeOK', [SubNext]_<<vars, subVars>>
  PROVE  CommandInv'
<1> USE DEF SInv, SubTypeOK, CommandInv, HoldsLock, PlaceInList, Importing
<1>0. past \subseteq past'
  BY PastGrows, CommandIsElsewhere
<1>1. CASE UNCHANGED subVars
  BY <1>0, <1>1 DEF subVars, run, OnlyWholeStates, AppliedInOrder
<1>2. CASE \/ \E manifest \in Manifests : StartSubscribe(manifest)
           \/ CheckNext \/ WalkTree \/ AcquireLock \/ ClearLock
  <2>1. CASE ClearLock
    BY <1>0, <2>1 DEF ClearLock, run, OnlyWholeStates, AppliedInOrder
  <2>2. CASE \/ \E manifest \in Manifests : StartSubscribe(manifest)
             \/ CheckNext
    BY <1>0, <2>2 DEF StartSubscribe, CheckNext, OnlyWholeStates, AppliedInOrder
  <2>3. CASE WalkTree
    BY <1>0, <2>3 DEF WalkTree, OnlyWholeStates, AppliedInOrder
  <2>4. CASE AcquireLock
    <3>0. Len(<<>>) = 0
      OBVIOUS
    <3>1. got = <<>> /\ Len(got) = 0 /\ nth = 0
      BY <2>4, <3>0 DEF AcquireLock
    <3>2. HoldsLock' /\ OnlyWholeStates' /\ AppliedInOrder'
      BY <1>0, <2>4, <3>1 DEF AcquireLock, OnlyWholeStates, AppliedInOrder
    <3>3. PlaceInList'
      <4>1. UNCHANGED <<plan, nth, read, got>> /\ Len(got') = nth'
        BY <2>4, <3>1 DEF AcquireLock
      <4>2. CASE Importing
        <5>1. step' = "ingest" /\ read' # Absent
          BY <2>4, <4>1, <4>2 DEF AcquireLock
        <5>2. Len(plan) = 1
          BY <2>4, <4>2 DEF AcquireLock
        <5>3. nth' < Len(plan')
          BY <3>1, <4>1, <5>2
        <5>4. QED
          BY <4>1, <5>1, <5>3
      <4>3. CASE ~Importing
        BY <2>4, <3>1, <4>1, <4>3 DEF AcquireLock
      <4>4. QED
        BY <4>2, <4>3
    <3>4. QED
      BY <3>2, <3>3
  <2>5. QED
    BY <1>2, <2>1, <2>2, <2>3, <2>4
<1>3. ASSUME NEW q \in Paths, StartImport(q)
      PROVE  CommandInv'
  <2>1. file[q].holds \in past /\ Len(<<q>>) = 1
    BY <1>3 DEF StartImport, Readable, AInv, FromPast, Whole
  <2>2. QED
    BY <1>0, <1>3, <2>1 DEF StartImport, OnlyWholeStates, AppliedInOrder
<1>4. CASE ReadNext
  <2>1. plan[nth + 1] \in Paths
    BY <1>4 DEF ReadNext
  <2>2. file[plan[nth + 1]].holds \in past
    BY <1>4, <2>1 DEF ReadNext, Readable, AInv, FromPast, Whole
  <2>3. read' \in past /\ read' # Absent
    BY <1>4, <2>2, ContentsAssumption DEF ReadNext, TypeOK
  <2>4. QED
    BY <1>0, <1>4, <2>3 DEF ReadNext, OnlyWholeStates, AppliedInOrder
<1>5. CASE IngestNext
  <2>1. /\ read \in Contents /\ Len(got) = nth /\ nth < Len(plan)
        /\ got' = Append(got, read) /\ dest' = Over(dest, read)
    BY <1>5 DEF IngestNext
  <2>2. HoldsLock' /\ PlaceInList' /\ OnlyWholeStates'
    BY <1>5, <2>1 DEF IngestNext, OnlyWholeStates
  <2>3. AppliedInOrder'
    <3>1. AsLastOf(got, dest)
      BY DEF AppliedInOrder, AsLastOf
    <3>2. AsLastOf(got', dest')
      BY <2>1, <3>1, LastWins
    <3>3. QED
      BY <3>2 DEF AppliedInOrder, AsLastOf
  <2>4. QED
    BY <2>2, <2>3
<1>6. CASE RefuseStore \/ RefuseLocked \/ RunFails \/ RunCrashes
             \/ Finished \/ ReadFails
  <2>1. Quit
    BY <1>6 DEF RefuseStore, RefuseLocked, RunFails, RunCrashes, Finished,
                ReadFails, End
  <2>2. QED
    BY <2>1 DEF Quit, OnlyWholeStates, AppliedInOrder
<1>7. CASE \/ Resume \/ \E s \in 1..MaxStamp : SyncSince(s)
           \/ SomeFailure
  <2>1. got = <<>> /\ ~locked /\ UNCHANGED <<locked, run>>
    BY <1>7 DEF Resume, SyncSince, Sync, SomeFailure, SyncFails, Steps
  <2>2. QED
    BY <1>0, <2>1 DEF run, OnlyWholeStates, AppliedInOrder
<1>8. QED
  BY <1>1, <1>2, <1>3, <1>4, <1>5, <1>6, <1>7
     DEF SubNext, RunStep, subVars, SomeFailure

-----------------------------------------------------------------------------
(* Stamps only grow, and an update's is past the mark.                      *)
LEMMA LinearGrows ==
  ASSUME SInv, TypeOK', Step
  PROVE  /\ \A i \in Issues : linear[i] <= linear'[i]
         /\ \A i \in Issues : linear'[i] # linear[i] => mark < linear'[i]
<1>1. CASE linear' = linear
  BY <1>1 DEF SInv, SubTypeOK, TypeOK, Contents
<1>2. ASSUME NEW i \in Issues, Update(i)
      PROVE  /\ \A k \in Issues : linear[k] <= linear'[k]
             /\ \A k \in Issues : linear'[k] # linear[k] => mark < linear'[k]
  <2>1. linear \in [Issues -> Nat] /\ mark \in Nat
    BY StampAssumption DEF SInv, SubTypeOK, TypeOK, Contents
  <2>2. PICK j \in Issues : /\ \A k \in Issues : linear[k] <= linear[j]
                            /\ linear' = [linear EXCEPT ![i] = linear[j] + 1]
    BY <1>2 DEF Update
  <2>3. mark <= linear[j]
    BY <2>1, <2>2 DEF SInv, MarkInv, MarkReached
  <2>4. QED
    BY <2>1, <2>2, <2>3
<1>3. (\E i \in Issues : Update(i)) \/ linear' = linear
  <2>1. CASE UNCHANGED vars \/ FaultElsewhere
    BY <2>1 DEF vars, FaultElsewhere
  <2>2. ASSUME NEW p \in Publishers, Publish(p)
        PROVE  linear' = linear
    BY <2>2 DEF Publish, TakeSnapshot, CreateFile, RefuseExisting,
                FlushRecords, FinishFile, SyncFile, CloseFile, WriteFails,
                Undo, UndoFails, Crash
  <2>3. CASE \/ \E page \in SUBSET Issues : SyncSource(page)
             \/ \E gone, emptied \in SUBSET Paths : PowerLoss(gone, emptied)
             \/ \E q \in Paths : Discard(q)
    BY <2>3 DEF SyncSource, PowerLoss, Discard
  <2>4. QED
    BY <2>1, <2>2, <2>3 DEF Step, Next
<1>4. QED
  BY <1>1, <1>2, <1>3

LEMMA BehindStep ==
  ASSUME SInv, TypeOK', Step
  PROVE  BehindLinear'
<1>1. linear \in [Issues -> Nat] /\ linear' \in [Issues -> Nat]
  BY StampAssumption DEF SInv, SubTypeOK, TypeOK, Contents
<1>2. \A c \in past, i \in Issues : c[i] \in Nat /\ c[i] <= linear'[i]
  <2>1. \A c \in past, i \in Issues : c[i] \in Nat
    BY StampAssumption DEF SInv, SubTypeOK, TypeOK, Contents
  <2>2. QED
    BY <1>1, <2>1, LinearGrows DEF SInv, MarkInv, BehindLinear
<1>3. CASE past' = past
  BY <1>2, <1>3 DEF BehindLinear
<1>4. ASSUME NEW page \in SUBSET Issues, SyncSource(page)
      PROVE  BehindLinear'
  <2>1. \A i \in Issues : source'[i] <= linear'[i]
    BY <1>1, <1>2, <1>4 DEF SyncSource, SInv, AInv, FromPast
  <2>2. QED
    BY <1>2, <1>4, <2>1 DEF SyncSource, BehindLinear
<1>5. past' = past \/ \E page \in SUBSET Issues : SyncSource(page)
  <2>1. CASE UNCHANGED vars \/ FaultElsewhere
    BY <2>1 DEF vars, FaultElsewhere
  <2>2. ASSUME NEW p \in Publishers, Publish(p)
        PROVE  past' = past
    BY <2>2 DEF Publish, TakeSnapshot, CreateFile, RefuseExisting,
                FlushRecords, FinishFile, SyncFile, CloseFile, WriteFails,
                Undo, UndoFails, Crash
  <2>3. CASE \/ \E i \in Issues : Update(i)
             \/ \E gone, emptied \in SUBSET Paths : PowerLoss(gone, emptied)
             \/ \E q \in Paths : Discard(q)
    BY <2>3 DEF Update, PowerLoss, Discard
  <2>4. QED
    BY <2>1, <2>2, <2>3 DEF Step, Next
<1>6. QED
  BY <1>3, <1>4, <1>5

(* What a sync from s on has pulled is all there is between the floor and   *)
(* the mark it leaves behind, and below s the mark before vouches.          *)
LEMMA SyncKeepsMark ==
  ASSUME SInv, NEW s \in 1..MaxStamp, NEW page \in Pages(s), Sync(s, page)
  PROVE  MarkReached' /\ MarkVouches'
<1>1. /\ linear \in [Issues -> Nat] /\ mark \in Nat /\ floor \in Nat
      /\ page \subseteq Since(s) /\ page \subseteq Issues
  BY StampAssumption, PagesAreIssues DEF SInv, SubTypeOK, TypeOK, Contents
<1>2. /\ UNCHANGED linear /\ dest' = Pulled(dest, page)
      /\ undone' = undone \ page
  BY DEF Sync, vars
<1>3. PICK i \in page : mark' = linear[i] /\ \A j \in page : linear[j] <= linear[i]
  BY DEF Sync
<1>4. MarkReached'
  BY <1>1, <1>2, <1>3 DEF MarkReached
<1>5. ASSUME NEW j \in Since(s) \ page, floor' <= linear[j], linear[j] < mark'
      PROVE  FALSE
  <2>1. ~FromOldest(page, Since(s))
    BY <1>1, <1>3, <1>5 DEF FromOldest, Since
  <2>2. FromNewest(page, Since(s)) /\ \E k \in page : floor' = linear[k]
    BY <2>1 DEF Pages, Sync
  <2>3. QED
    BY <1>1, <1>5, <2>2 DEF FromNewest, Since
<1>6. ASSUME NEW j \in Issues, j \notin undone, floor' <= linear[j],
             linear[j] < s
      PROVE  dest[j] = linear[j]
  <2>1. FromOldest(page, Since(s))
    <3>1. ASSUME NEW k \in page, floor' = linear[k]
          PROVE  FALSE
      BY <1>1, <1>6, <3>1 DEF Since
    <3>2. QED
      BY <3>1 DEF Sync
  <2>2. floor' = Joined(s)
    BY <2>1 DEF Sync
  <2>3. floor' = floor /\ s <= mark
    BY <1>1, <1>6, <2>2 DEF Joined
  <2>4. j \in Vouched
    BY <1>1, <1>6, <2>3 DEF Vouched
  <2>5. QED
    BY <1>6, <2>4 DEF SInv, MarkInv, MarkVouches
<1>7. ASSUME NEW j \in Vouched' \ undone'
      PROVE  dest'[j] = linear'[j]
  <2>1. j \in Issues /\ floor' <= linear[j] /\ linear[j] < mark'
    BY <1>2, <1>7 DEF Vouched
  <2>2. CASE j \in page
    BY <1>2, <2>1, <2>2 DEF Pulled
  <2>3. CASE j \notin page
    <3>1. j \notin Since(s)
      BY <1>5, <2>1, <2>3
    <3>2. linear[j] < s
      BY <1>1, <2>1, <3>1 DEF Since
    <3>3. dest[j] = linear[j]
      BY <1>2, <1>6, <1>7, <2>1, <2>3, <3>2
    <3>4. QED
      BY <1>2, <2>1, <2>3, <3>3 DEF Pulled
  <2>4. QED
    BY <2>2, <2>3
<1>8. QED
  BY <1>4, <1>7 DEF MarkVouches

(* An issue leaves the care of MarkVouches only when an older artifact puts *)
(* it back, and comes into it again when its last update comes again.       *)
LEMMA MarkStep ==
  ASSUME SInv, SubTypeOK', [SubNext]_<<vars, subVars>>
  PROVE  MarkReached' /\ MarkVouches'
<1>1. /\ linear \in [Issues -> Nat] /\ linear' \in [Issues -> Nat]
      /\ dest \in [Issues -> Nat] /\ mark \in Nat /\ mark' \in Nat
      /\ floor \in Nat
  BY StampAssumption DEF SInv, SubTypeOK, TypeOK, Contents
<1>2. /\ \A i \in Issues : linear[i] <= linear'[i]
      /\ \A i \in Issues : linear'[i] # linear[i] => mark < linear'[i]
  BY LinearGrows, CommandIsElsewhere DEF SubTypeOK
<1>3. MarkReached /\ MarkVouches
  BY DEF SInv, MarkInv
<1>4. ASSUME UNCHANGED <<dest, mark, floor, undone>>
      PROVE  MarkReached' /\ MarkVouches'
  <2>1. ASSUME NEW i \in Vouched'
        PROVE  i \in Vouched /\ linear'[i] = linear[i]
    BY <1>1, <1>2, <1>4, <2>1 DEF Vouched
  <2>2. MarkReached'
    BY <1>1, <1>2, <1>3, <1>4 DEF MarkReached
  <2>3. QED
    BY <1>3, <1>4, <2>1, <2>2 DEF MarkVouches
<1>5. CASE IngestNext
  <2>1. /\ UNCHANGED <<linear, mark, floor>>
        /\ read \in [Issues -> Nat] /\ \A i \in Issues : read[i] <= linear[i]
        /\ dest' = [i \in Issues |-> IF read[i] # 0 THEN read[i] ELSE dest[i]]
    <3>1. read \in past /\ read \in Contents
      BY <1>5 DEF IngestNext, SInv, SubTypeOK, TypeOK, CommandInv, PlaceInList,
                  Importing, OnlyWholeStates
    <3>2. read \in [Issues -> Nat] /\ \A i \in Issues : read[i] <= linear[i]
      BY <3>1, StampAssumption DEF SInv, MarkInv, BehindLinear, Contents
    <3>3. QED
      BY <1>5, <3>2 DEF IngestNext, vars, MarkAfter, Over
  <2>2. MarkReached'
    BY <1>3, <2>1 DEF MarkReached
  <2>3. ASSUME NEW i \in Vouched' \ undone'
        PROVE  dest'[i] = linear'[i]
    <3>0. i \in Vouched
      BY <2>1, <2>3 DEF Vouched
    <3>1. CASE dest'[i] = linear[i]
      BY <2>1, <3>1
    <3>2. CASE i \notin undone /\ ~(read[i] # 0 /\ read[i] < dest[i])
      <4>1. dest[i] = linear[i]
        BY <1>3, <3>0, <3>2 DEF MarkVouches
      <4>2. QED
        BY <1>1, <2>1, <3>0, <3>2, <4>1 DEF Vouched
    <3>3. QED
      BY <1>5, <2>3, <3>0, <3>1, <3>2 DEF IngestNext
  <2>4. QED
    BY <2>2, <2>3 DEF MarkVouches
<1>6. CASE SomeSync
  BY <1>6, SyncKeepsMark DEF SomeSync
<1>7. ASSUME NEW s, NEW page \in Pages(s), SyncFails(page)
      PROVE  MarkReached' /\ MarkVouches'
  <2>1. /\ UNCHANGED <<linear, mark, floor>> /\ dest' = Pulled(dest, page)
        /\ undone' = undone \ page
    BY <1>7 DEF SyncFails, FaultElsewhere
  <2>2. Vouched' = Vouched
    BY <2>1 DEF Vouched
  <2>3. QED
    BY <1>3, <2>1, <2>2 DEF MarkReached, MarkVouches, Pulled, Vouched
<1>8. \/ UNCHANGED <<dest, mark, floor, undone>>
      \/ IngestNext \/ SomeSync \/ SomeFailure
  <2>1. CASE UNCHANGED subVars
    BY <2>1 DEF subVars
  <2>2. CASE \/ \E q \in Paths : StartImport(q)
             \/ \E manifest \in Manifests : StartSubscribe(manifest)
    BY <2>2 DEF StartImport, StartSubscribe
  <2>3. CASE ClearLock \/ RunFails \/ RunCrashes
    BY <2>3 DEF ClearLock, RunFails, RunCrashes, End
  <2>4. CASE CheckNext \/ WalkTree \/ RefuseStore \/ AcquireLock
               \/ RefuseLocked \/ ReadNext \/ ReadFails \/ Finished
    BY <2>4 DEF CheckNext, WalkTree, RefuseStore, AcquireLock, RefuseLocked,
                ReadNext, ReadFails, Finished, End
  <2>5. CASE Resume \/ \E s \in 1..MaxStamp : SyncSince(s)
    BY <2>5, EveryRun DEF SInv, SubTypeOK
  <2>6. QED
    BY <2>1, <2>2, <2>3, <2>4, <2>5 DEF SubNext, RunStep, subVars, SomeFailure
<1>9. QED
  BY <1>4, <1>5, <1>6, <1>7, <1>8 DEF SomeFailure

-----------------------------------------------------------------------------
LEMMA InitSInv == SubInit => SInv
<1> SUFFICES ASSUME SubInit
             PROVE  SInv
  OBVIOUS
<1>1. AInv /\ TypeOK
  BY InitAInv DEF SubInit, AInv
<1>2. <<>> \in Seq(Paths) /\ <<>> \in Seq(Contents) /\ Len(<<>>) = 0
  OBVIOUS
<1>3. SubTypeOK
  <2>1. /\ plan \in Seq(Paths) /\ got \in Seq(Contents)
        /\ Len(plan) = 0 /\ Len(got) = 0
    BY <1>2 DEF SubInit
  <2>2. nth \in 0..Len(plan)
    BY <2>1 DEF SubInit
  <2>3. dest \in Contents /\ mark \in 0..MaxStamp /\ floor \in 0..MaxStamp
    BY StampAssumption, CreatedIsFile DEF SubInit
  <2>4. /\ locked \in BOOLEAN /\ step \in Steps
        /\ read \in Contents \cup {Absent} /\ undone \subseteq Issues
    BY DEF SubInit, Steps
  <2>5. Len(got) <= Len(plan)
    BY <2>1
  <2>6. QED
    BY <1>1, <2>1, <2>2, <2>3, <2>4, <2>5 DEF SubTypeOK
<1>4. CommandInv
  BY DEF SubInit, CommandInv, HoldsLock, PlaceInList, OnlyWholeStates,
         AppliedInOrder
<1>5. MarkInv
  BY DEF SubInit, Init, MarkInv, BehindLinear, MarkReached, MarkVouches,
         Vouched, Nothing
<1>6. QED
  BY <1>1, <1>3, <1>4, <1>5 DEF SInv

(* The strengthening: SInv is inductive.                                    *)
LEMMA SubInvariance == SubSpec => []SInv
<1>1. SInv /\ [SubNext]_<<vars, subVars>> => SInv'
  <2> SUFFICES ASSUME SInv, [SubNext]_<<vars, subVars>>
               PROVE  SInv'
    OBVIOUS
  <2>1. Step
    BY CommandIsElsewhere
  <2>2. AInv'
    BY <2>1, StepKeepsAInv DEF SInv
  <2>3. SubTypeOK'
    BY <2>2, SubTypeStep DEF AInv
  <2>4. CommandInv' /\ BehindLinear' /\ MarkReached' /\ MarkVouches'
    BY <2>1, <2>2, <2>3, CommandStep, BehindStep, MarkStep DEF AInv
  <2>5. QED
    BY <2>2, <2>3, <2>4 DEF SInv, MarkInv
<1>2. QED
  BY <1>1, InitSInv, PTL DEF SubSpec

(* The variables stay within their types.                                   *)
THEOREM SubTypeCorrect == SubSpec => []SubTypeOK
<1>1. SInv => SubTypeOK
  BY DEF SInv
<1>2. QED
  BY <1>1, SubInvariance, PTL

(* What is there to be subscribed to keeps the promises of publishing.      *)
THEOREM SubRetryIsSafe == SubSpec => []RetryFindsPathFree
<1>1. SInv => RetryFindsPathFree
  BY DEF SInv, AInv
<1>2. QED
  BY <1>1, SubInvariance, PTL

THEOREM SubImplements == SubSpec => ImplementsWriteOnce
<1>1. SInv /\ [SubNext]_<<vars, subVars>> => [Promise!Next]_(Promise!vars)
  BY StepImplements, CommandIsElsewhere DEF SInv
<1>2. SubInit => Promise!Init
  BY InitImplements DEF SubInit
<1>3. QED
  BY <1>1, <1>2, SubInvariance, PTL
     DEF SubSpec, ImplementsWriteOnce, Promise!Spec

(* No part of an archive is ingested, whatever is listed, and however often *)
(* a publisher, the subscriber or the machine dies.                         *)
THEOREM WholeStatesOnly == SubSpec => []OnlyWholeStates
<1>1. SInv => OnlyWholeStates
  BY DEF SInv, CommandInv
<1>2. QED
  BY <1>1, SubInvariance, PTL

(* The artifacts of a subscribe of any length are applied one over the      *)
(* other, and nothing comes between.                                        *)
THEOREM LastArtifactWins == SubSpec => []AppliedInOrder
<1>1. SInv => AppliedInOrder
  BY DEF SInv, CommandInv
<1>2. QED
  BY <1>1, SubInvariance, PTL

(* From the floor up to the mark no update is missing, whatever runs of     *)
(* `sync`, complete, cut short or failed, and whatever artifacts have come  *)
(* one after the other, but for the issues an older artifact has put back.  *)
THEOREM MarkIsTrue == SubSpec => []MarkVouches
<1>1. SInv => MarkVouches
  BY DEF SInv, MarkInv
<1>2. QED
  BY <1>1, SubInvariance, PTL
=============================================================================
