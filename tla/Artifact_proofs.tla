--------------------------- MODULE Artifact_proofs ---------------------------
(***************************************************************************)
(* Proofs about Artifact for any publishers, paths, issues and bounds.     *)
(* Everything follows from O_EXCL: from the creation of its file to the    *)
(* close or the removal, a publisher is the only one at its path, and      *)
(* nobody is at the path of an artifact that was reported.                 *)
(***************************************************************************)
EXTENDS Artifact, TLAPS

Whole(q) == file[q] # Absent /\ file[q].stage \in {"whole", "safe"}

(* A publisher's file is there, and is not one that was reported.           *)
OwnFile ==
  \A p \in Publishers :
    /\ pc[p] # "idle" => out[p] \in Paths
    /\ Writing(p) => file[out[p]] # Absent /\ out[p] \notin kept

OneWriter ==
  \A p, r \in Publishers : Writing(p) /\ Writing(r) /\ out[p] = out[r] => p = r

(* How far a publisher's file is.                                           *)
StageOfCall ==
  \A p \in Publishers :
    /\ pc[p] = "sync" => file[out[p]].stage = "whole"
    /\ pc[p] = "close" => file[out[p]].stage = "safe"

(* What is published is a state the archive was in.                         *)
FromPast ==
  /\ source \in past
  /\ \A p \in Publishers : pc[p] # "idle" => snap[p] \in past
  /\ \A q \in Paths : Whole(q) => file[q].holds \in past

KeptSafe == \A q \in kept : Safe(q)

AInv ==
  /\ TypeOK /\ OwnFile /\ OneWriter /\ StageOfCall /\ FromPast /\ KeptSafe
  /\ RetryFindsPathFree

Step == [Next]_vars \/ FaultElsewhere

-----------------------------------------------------------------------------
LEMMA CreatedIsFile == Created \in File /\ Nothing \in Contents
BY StampAssumption DEF Created, File, Stages, Nothing, Contents

LEMMA FileIsThere ==
  ASSUME NEW s \in Stages, NEW c \in Contents
  PROVE  /\ [stage |-> s, holds |-> c] \in File
         /\ [stage |-> s, holds |-> c] # Absent
BY FilesAssumption DEF File

LEMMA TypeStep == TypeOK /\ OwnFile /\ Step => TypeOK'
<1> SUFFICES ASSUME TypeOK, OwnFile, Step
             PROVE  TypeOK'
  OBVIOUS
<1> USE StampAssumption, CreatedIsFile
<1>1. CASE UNCHANGED vars
  BY <1>1 DEF vars, TypeOK
<1>2. CASE FaultElsewhere
  BY <1>2 DEF FaultElsewhere, Fault, TypeOK
<1>3. ASSUME NEW i \in Issues, Update(i)
      PROVE  TypeOK'
  BY <1>3 DEF Update, TypeOK, Contents
<1>4. ASSUME NEW page \in SUBSET Issues, SyncSource(page)
      PROVE  TypeOK'
  BY <1>4 DEF SyncSource, TypeOK, Contents
<1>5. ASSUME NEW p \in Publishers, Publish(p)
      PROVE  TypeOK'
  <2>1. ASSUME NEW q \in Paths, TakeSnapshot(p, q)
        PROVE  TypeOK'
    BY <2>1 DEF TakeSnapshot, Goto, TypeOK, Calls
  <2>2. CASE CreateFile(p)
    BY <2>2 DEF CreateFile, Goto, TypeOK, Calls
  <2>3. CASE RefuseExisting(p)
    BY <2>3 DEF RefuseExisting, Return, Goto, TypeOK, Calls
  <2>4. ASSUME NEW flushed \in SUBSET Issues, FlushRecords(p, flushed)
        PROVE  TypeOK'
    <3>1. [i \in Issues |-> IF i \in flushed THEN snap[p][i] ELSE 0]
            \in Contents
      BY DEF TypeOK, Contents
    <3>2. QED
      BY <2>4, <3>1 DEF FlushRecords, TypeOK, File, Stages
  <2>5. CASE FinishFile(p)
    BY <2>5 DEF FinishFile, Goto, TypeOK, Calls, File, Stages
  <2>6. CASE SyncFile(p)
    BY <2>6 DEF SyncFile, Goto, OwnFile, Writing, TypeOK, Calls, File, Stages
  <2>7. CASE CloseFile(p)
    BY <2>7 DEF CloseFile, Return, Goto, OwnFile, TypeOK, Calls
  <2>8. CASE WriteFails(p)
    BY <2>8 DEF WriteFails, Fault, Goto, TypeOK, Calls
  <2>9. CASE Undo(p) \/ UndoFails(p) \/ Crash(p)
    BY <2>9 DEF Undo, UndoFails, Crash, Writing, Fault, Return, Goto, OwnFile,
                TypeOK, Calls
  <2>10. QED
    BY <1>5, <2>1, <2>2, <2>3, <2>4, <2>5, <2>6, <2>7, <2>8, <2>9 DEF Publish
<1>6. ASSUME NEW gone \in SUBSET Paths, NEW emptied \in SUBSET Paths,
             PowerLoss(gone, emptied)
      PROVE  TypeOK'
  BY <1>6 DEF PowerLoss, Writing, Fault, OwnFile, TypeOK, Calls
<1>7. ASSUME NEW q \in Paths, Discard(q)
      PROVE  TypeOK'
  BY <1>7 DEF Discard, TypeOK
<1>8. QED
  BY <1>1, <1>2, <1>3, <1>4, <1>5, <1>6, <1>7 DEF Step, Next

(* The strengthening: AInv is inductive.                                    *)
LEMMA StepKeepsAInv == AInv /\ Step => AInv'
<1> SUFFICES ASSUME AInv, Step
             PROVE  AInv'
  OBVIOUS
<1>1. TypeOK'
  BY TypeStep DEF AInv
<1> DEFINE Safety == /\ OwnFile /\ OneWriter /\ StageOfCall /\ FromPast
                     /\ KeptSafe /\ RetryFindsPathFree
<1> USE <1>1 DEF AInv, Writing
<1>2. CASE UNCHANGED vars \/ FaultElsewhere
  <2>1. UNCHANGED <<source, past, file, pc, out, snap, kept, strays>>
    BY <1>2 DEF vars, FaultElsewhere
  <2>2. QED
    BY <2>1 DEF OwnFile, OneWriter, StageOfCall, FromPast, Whole, KeptSafe,
                Safe, RetryFindsPathFree
<1>3. ASSUME NEW i \in Issues, Update(i)
      PROVE  Safety'
  BY <1>3 DEF Update, OwnFile, OneWriter, StageOfCall, FromPast, Whole,
              KeptSafe, Safe, RetryFindsPathFree
<1>4. ASSUME NEW page \in SUBSET Issues, SyncSource(page)
      PROVE  Safety'
  BY <1>4 DEF SyncSource, OwnFile, OneWriter, StageOfCall, FromPast, Whole,
              KeptSafe, Safe, RetryFindsPathFree
<1>5. ASSUME NEW p \in Publishers, NEW q \in Paths, TakeSnapshot(p, q)
      PROVE  Safety'
  BY <1>5 DEF TakeSnapshot, Goto, TypeOK, OwnFile, OneWriter, StageOfCall,
              FromPast, Whole, KeptSafe, Safe, RetryFindsPathFree
<1>6. ASSUME NEW p \in Publishers, CreateFile(p)
      PROVE  Safety'
  <2> USE <1>6, CreatedIsFile, FilesAssumption
      DEF CreateFile, Goto, TypeOK, OwnFile, OneWriter
  <2>1. out[p] \in Paths /\ Created # Absent /\ Created.stage = "empty"
    BY DEF Created
  <2>2. OwnFile' /\ OneWriter'
    BY <2>1 DEF KeptSafe, Safe
  <2>3. StageOfCall'
    BY <2>1 DEF StageOfCall
  <2>4. FromPast' /\ KeptSafe'
    BY <2>1 DEF FromPast, Whole, KeptSafe, Safe
  <2>5. RetryFindsPathFree'
    BY <2>1 DEF RetryFindsPathFree
  <2>6. QED
    BY <2>2, <2>3, <2>4, <2>5
<1>7. ASSUME NEW p \in Publishers, RefuseExisting(p)
      PROVE  Safety'
  BY <1>7 DEF RefuseExisting, Return, Goto, TypeOK, OwnFile, OneWriter,
              StageOfCall, FromPast, Whole, KeptSafe, Safe, RetryFindsPathFree
<1>8. ASSUME NEW p \in Publishers, NEW flushed \in SUBSET Issues,
             FlushRecords(p, flushed)
      PROVE  Safety'
  <2> USE <1>8 DEF FlushRecords, TypeOK, OwnFile, OneWriter
  <2> DEFINE part == [i \in Issues |-> IF i \in flushed THEN snap[p][i] ELSE 0]
  <2>0. part \in Contents
    BY StampAssumption DEF Contents
  <2>1. file' = [file EXCEPT ![out[p]] = [stage |-> "part", holds |-> part]]
    OBVIOUS
  <2> HIDE DEF part
  <2>2. out[p] \in Paths /\ file'[out[p]] # Absent
        /\ file'[out[p]].stage = "part"
    BY <2>0, <2>1, FileIsThere DEF Stages
  <2>3. OwnFile' /\ OneWriter' /\ StageOfCall'
    BY <2>2 DEF StageOfCall
  <2>4. FromPast' /\ KeptSafe'
    BY <2>2 DEF FromPast, Whole, KeptSafe, Safe
  <2>5. RetryFindsPathFree'
    BY <2>2 DEF RetryFindsPathFree
  <2>6. QED
    BY <2>3, <2>4, <2>5
<1>9. ASSUME NEW p \in Publishers, FinishFile(p)
      PROVE  Safety'
  <2> USE <1>9, FilesAssumption DEF FinishFile, Goto, TypeOK, OwnFile, OneWriter
  <2>1. out[p] \in Paths /\ file'[out[p]] # Absent
        /\ file'[out[p]].stage = "whole" /\ file'[out[p]].holds = snap[p]
    BY FileIsThere DEF Stages
  <2>2. OwnFile' /\ OneWriter' /\ StageOfCall'
    BY <2>1 DEF StageOfCall
  <2>3. FromPast' /\ KeptSafe'
    BY <2>1 DEF FromPast, Whole, KeptSafe, Safe
  <2>4. RetryFindsPathFree'
    BY <2>1 DEF RetryFindsPathFree
  <2>5. QED
    BY <2>2, <2>3, <2>4
<1>10. ASSUME NEW p \in Publishers, SyncFile(p)
       PROVE  Safety'
  <2> USE <1>10, FilesAssumption
      DEF SyncFile, Goto, TypeOK, OwnFile, OneWriter, StageOfCall, File
  <2>1. /\ out[p] \in Paths /\ file'[out[p]] # Absent
        /\ file[out[p]].stage = "whole" /\ file'[out[p]].stage = "safe"
        /\ file'[out[p]].holds = file[out[p]].holds
    BY FileIsThere DEF Stages
  <2>2. OwnFile' /\ OneWriter' /\ StageOfCall'
    BY <2>1
  <2>3. FromPast' /\ KeptSafe'
    BY <2>1 DEF FromPast, Whole, KeptSafe, Safe
  <2>4. RetryFindsPathFree'
    BY <2>1 DEF RetryFindsPathFree
  <2>5. QED
    BY <2>2, <2>3, <2>4
<1>11. ASSUME NEW p \in Publishers, CloseFile(p)
       PROVE  Safety'
  <2> USE <1>11 DEF CloseFile, Return, Goto, TypeOK, OwnFile, OneWriter
  <2>1. OwnFile' /\ OneWriter'
    OBVIOUS
  <2>2. StageOfCall' /\ FromPast' /\ KeptSafe'
    BY DEF StageOfCall, FromPast, Whole, KeptSafe, Safe
  <2>3. RetryFindsPathFree'
    BY DEF RetryFindsPathFree
  <2>4. QED
    BY <2>1, <2>2, <2>3
<1>12. ASSUME NEW p \in Publishers, WriteFails(p)
       PROVE  Safety'
  BY <1>12 DEF WriteFails, Goto, TypeOK, OwnFile, OneWriter, StageOfCall,
               FromPast, Whole, KeptSafe, Safe, RetryFindsPathFree
<1>13. ASSUME NEW p \in Publishers, Undo(p)
       PROVE  Safety'
  BY <1>13 DEF Undo, Return, Goto, TypeOK, OwnFile, OneWriter, StageOfCall,
               FromPast, Whole, KeptSafe, Safe, RetryFindsPathFree
<1>14. ASSUME NEW p \in Publishers, UndoFails(p) \/ Crash(p)
       PROVE  Safety'
  BY <1>14 DEF UndoFails, Crash, Return, Goto, TypeOK, OwnFile, OneWriter,
               StageOfCall, FromPast, Whole, KeptSafe, Safe, RetryFindsPathFree
<1>15. ASSUME NEW gone \in SUBSET Paths, NEW emptied \in SUBSET Paths,
              PowerLoss(gone, emptied)
       PROVE  Safety'
  <2> USE <1>15, CreatedIsFile, FilesAssumption DEF PowerLoss, TypeOK
  <2>1. OwnFile' /\ OneWriter' /\ StageOfCall'
    BY DEF OwnFile, OneWriter, StageOfCall
  <2>2. FromPast'
    BY DEF FromPast, Whole, Created
  <2>3. KeptSafe'
    BY DEF KeptSafe, Safe
  <2>4. RetryFindsPathFree'
    BY DEF RetryFindsPathFree
  <2>5. QED
    BY <2>1, <2>2, <2>3, <2>4
<1>16. ASSUME NEW q \in Paths, Discard(q)
       PROVE  Safety'
  BY <1>16 DEF Discard, TypeOK, OwnFile, OneWriter, StageOfCall,
               FromPast, Whole, KeptSafe, Safe, RetryFindsPathFree
<1>17. Safety'
  BY <1>2, <1>3, <1>4, <1>5, <1>6, <1>7, <1>8, <1>9, <1>10, <1>11, <1>12,
     <1>13, <1>14, <1>15, <1>16 DEF Step, Next, Publish
<1>18. QED
  BY <1>17

LEMMA InitAInv == Init => AInv
BY StampAssumption, CreatedIsFile
   DEF Init, AInv, TypeOK, OwnFile, OneWriter, StageOfCall, FromPast, Whole,
       KeptSafe, RetryFindsPathFree, Writing, Contents, Calls, Nothing

LEMMA Invariance == Spec => []AInv
<1>1. AInv /\ [Next]_vars => AInv'
  BY StepKeepsAInv DEF Step
<1>2. QED
  BY <1>1, InitAInv, PTL DEF Spec

-----------------------------------------------------------------------------
(* `publish`'s promise, for any number of publishers and of faults: a retry *)
(* with the same --out finds the path free unless a crash or a failed       *)
(* removal left something there.                                            *)
THEOREM RetryIsSafe == Spec => []RetryFindsPathFree
<1>1. AInv => RetryFindsPathFree
  BY DEF AInv
<1>2. QED
  BY <1>1, Invariance, PTL

(* The variables stay within their types.                                   *)
THEOREM TypeCorrect == Spec => []TypeOK
<1>1. AInv => TypeOK
  BY DEF AInv
<1>2. QED
  BY <1>1, Invariance, PTL

(* Where file and kept stay as they are at a path, so does the slot.        *)
LEMMA SlotStays ==
  ASSUME NEW q \in Paths, file'[q] = file[q], (q \in kept') = (q \in kept)
  PROVE  Slot(q)' = Slot(q)
BY DEF Slot

LEMMA SlotOf ==
  ASSUME NEW q \in Paths
  PROVE  /\ file[q] = Absent => Slot(q) = Absent
         /\ file[q] # Absent /\ q \notin kept => Slot(q) = Draft
         /\ q \in kept /\ Safe(q) => Slot(q) = file[q].holds
BY DEF Slot, Safe

(* Every step is a step of WriteOnce, or none.                              *)
LEMMA StepImplements == AInv /\ Step => [Promise!Next]_(Promise!vars)
<1> SUFFICES ASSUME AInv, Step
             PROVE  [Promise!Next]_(Promise!vars)
  OBVIOUS
<1> DEFINE slots == [q \in Paths |-> Slot(q)]
<1>1. AInv'
  BY StepKeepsAInv
<1>2. ASSUME UNCHANGED <<file, kept>>
      PROVE  UNCHANGED slots
  BY <1>2, SlotStays
<1>3. ASSUME UNCHANGED <<past, file, kept>>
      PROVE  UNCHANGED Promise!vars
  BY <1>2, <1>3 DEF Promise!vars
<1>4. CASE \E page \in SUBSET Issues : SyncSource(page)
  <2>1. past' \in SUBSET Contents /\ past \subseteq past'
    BY <1>1, <1>4 DEF AInv, TypeOK, SyncSource
  <2>2. UNCHANGED slots
    BY <1>2, <1>4 DEF SyncSource
  <2>3. QED
    BY <2>1, <2>2 DEF Promise!Next, Promise!Grow
<1>5. ASSUME NEW p \in Publishers, CreateFile(p)
      PROVE  Promise!Next
  <2>1. out[p] \in Paths /\ file[out[p]] = Absent /\ file'[out[p]] # Absent
    BY <1>1, <1>5 DEF CreateFile, Goto, AInv, TypeOK, OwnFile, Writing
  <2>2. Slot(out[p]) = Absent /\ Slot(out[p])' = Draft
    BY <1>1, <1>5, <2>1 DEF CreateFile, Slot, AInv, KeptSafe, Safe
  <2>3. slots' = [slots EXCEPT ![out[p]] = Draft]
    BY <1>5, <2>1, <2>2, SlotStays DEF CreateFile, AInv, TypeOK
  <2>4. Promise!Claim(out[p])
    BY <1>5, <2>1, <2>2, <2>3 DEF Promise!Claim, CreateFile
  <2>5. QED
    BY <2>1, <2>4 DEF Promise!Next
<1>6. ASSUME NEW p \in Publishers,
             (\E flushed \in SUBSET Issues : FlushRecords(p, flushed))
               \/ FinishFile(p) \/ SyncFile(p)
      PROVE  UNCHANGED Promise!vars
  <2>1. /\ Writing(p) /\ Writing(p)' /\ UNCHANGED <<out, kept, past>>
        /\ \A q \in Paths : q # out[p] => file'[q] = file[q]
    BY <1>6 DEF FlushRecords, FinishFile, SyncFile, Goto, Writing, AInv, TypeOK
  <2>2. /\ out[p] \in Paths /\ out[p] \notin kept
        /\ file[out[p]] # Absent /\ file'[out[p]] # Absent
    BY <1>1, <2>1 DEF AInv, OwnFile, Writing
  <2>3. Slot(out[p]) = Draft /\ Slot(out[p])' = Draft
    BY <2>1, <2>2 DEF Slot
  <2>4. \A q \in Paths : Slot(q)' = Slot(q)
    BY <2>1, <2>3, SlotStays
  <2>5. QED
    BY <2>1, <2>4 DEF Promise!vars
<1>7. ASSUME NEW p \in Publishers, CloseFile(p)
      PROVE  Promise!Next
  <2>1. PICK q \in Paths : q = out[p]
    BY <1>7 DEF CloseFile, AInv, OwnFile
  <2>2. /\ q \notin kept /\ file[q] # Absent
        /\ file[q].stage = "safe" /\ file[q].holds \in past
    BY <1>7, <2>1 DEF CloseFile, AInv, OwnFile, StageOfCall, FromPast, Whole,
                      Writing
  <2>3. Slot(q) = Draft /\ Slot(q)' = file[q].holds
    BY <1>7, <2>1, <2>2 DEF CloseFile, Slot
  <2>4. slots' = [slots EXCEPT ![q] = file[q].holds]
    <3>1. \A r \in Paths \ {q} : Slot(r)' = Slot(r)
      BY <1>7, <2>1 DEF CloseFile, Slot
    <3>2. QED
      BY <2>3, <3>1
  <2>5. Promise!Keep(q)
    BY <1>7, <2>2, <2>3, <2>4 DEF Promise!Keep, CloseFile
  <2>6. QED
    BY <2>5 DEF Promise!Next
<1>8. ASSUME NEW gone \in SUBSET Paths,
             UNCHANGED <<past, kept>>,
             \A q \in gone : /\ q \notin kept /\ file[q] # Absent
                            /\ file'[q] = Absent,
             \A q \in Paths \ gone :
               \/ file'[q] = file[q]
               \/ file[q] # Absent /\ file'[q] # Absent /\ q \notin kept
      PROVE  Promise!Next
  <2>1. \A q \in gone : Slot(q) = Draft /\ Slot(q)' = Absent
    BY <1>8 DEF Slot
  <2>2. \A q \in Paths \ gone : Slot(q)' = Slot(q)
    BY <1>8 DEF Slot
  <2>3. slots' = [q \in Paths |-> IF q \in gone THEN Absent ELSE slots[q]]
    BY <2>1, <2>2
  <2>4. Promise!Withdraw(gone)
    BY <1>8, <2>1, <2>3 DEF Promise!Withdraw
  <2>5. QED
    BY <2>4 DEF Promise!Next
<1>9. ASSUME NEW p \in Publishers, Undo(p)
      PROVE  Promise!Next
  <2>1. out[p] \in Paths /\ out[p] \notin kept /\ file[out[p]] # Absent
    BY <1>9 DEF Undo, AInv, OwnFile, Writing
  <2>2. /\ file'[out[p]] = Absent /\ UNCHANGED <<past, kept>>
        /\ \A q \in Paths \ {out[p]} : file'[q] = file[q]
    BY <1>9, <2>1 DEF Undo, AInv, TypeOK
  <2>3. QED
    BY <1>8, <2>1, <2>2
<1>10. ASSUME NEW gone \in SUBSET Paths, NEW emptied \in SUBSET Paths,
              PowerLoss(gone, emptied)
       PROVE  Promise!Next
  <2>1. \A q \in gone \cup emptied : file[q] # Absent /\ q \notin kept
    BY <1>10 DEF PowerLoss, AInv, KeptSafe
  <2>2. /\ UNCHANGED <<past, kept>>
        /\ \A q \in gone : file'[q] = Absent
        /\ \A q \in Paths \ gone :
             file'[q] = file[q] \/ (q \in emptied /\ file'[q] = Created)
    BY <1>10 DEF PowerLoss
  <2>3. Created # Absent
    BY CreatedIsFile, FilesAssumption
  <2>4. QED
    BY <1>8, <2>1, <2>2, <2>3
<1>11. ASSUME NEW q \in Paths, Discard(q)
       PROVE  Promise!Next
  <2>1. /\ file[q] # Absent /\ q \notin kept /\ file'[q] = Absent
        /\ UNCHANGED <<past, kept>>
        /\ \A r \in Paths \ {q} : file'[r] = file[r]
    BY <1>11 DEF Discard, AInv, TypeOK
  <2>2. QED
    BY <1>8, <2>1
<1>12. ASSUME NEW p \in Publishers,
              \/ \E q \in Paths : TakeSnapshot(p, q)
              \/ RefuseExisting(p) \/ WriteFails(p) \/ UndoFails(p) \/ Crash(p)
       PROVE  UNCHANGED Promise!vars
  BY <1>3, <1>12 DEF TakeSnapshot, RefuseExisting, WriteFails, UndoFails, Crash
<1>13. ASSUME NEW i \in Issues, Update(i)
       PROVE  UNCHANGED Promise!vars
  BY <1>3, <1>13 DEF Update
<1>14. CASE UNCHANGED vars \/ FaultElsewhere
  BY <1>3, <1>14 DEF vars, FaultElsewhere
<1>15. QED
  BY <1>4, <1>5, <1>6, <1>7, <1>9, <1>10, <1>11, <1>12, <1>13, <1>14
     DEF Step, Next, Publish

LEMMA InitImplements == Init => Promise!Init
BY CreatedIsFile DEF Init, Promise!Init, Slot

(* "Existing artifacts are never silently clobbered": a path goes from free *)
(* to a draft and from there to an artifact that holds one state of the     *)
(* archive and stays, or back to free, whoever publishes and whatever fails. *)
THEOREM Implements == Spec => ImplementsWriteOnce
<1>1. AInv /\ [Next]_vars => [Promise!Next]_(Promise!vars)
  BY StepImplements DEF Step
<1>2. QED
  BY <1>1, InitImplements, Invariance, PTL
     DEF Spec, ImplementsWriteOnce, Promise!Spec
=============================================================================
