--------------------------- MODULE TailSync_proofs ---------------------------
(***************************************************************************)
(* Proofs about TailSync for any number of issues, page sizes, caps,       *)
(* faults and runs: types, an archive that only moves forward, the guards  *)
(* of the loops, and no stamp or mark in the future.                       *)
(***************************************************************************)
EXTENDS TailSync, FiniteSetTheorems, TLAPS

TypeInv == TypeOK /\ IsFiniteSet(page) /\ IsFiniteSet(todo)

(* The archive holds nothing newer than Linear.                             *)
NothingNewer == \A i \in Issues : archive[i] <= ver[i]

(* A page between its arrival and its ingest: versions no older than the    *)
(* archive's, one of each issue, all of them after the cursor.              *)
InHand ==
  pc = "fetched" =>
    /\ \A x \in page : archive[x.id] <= x.ver /\ x.ver <= ver[x.id]
    /\ \A x, y \in page : x.id = y.id => x = y
    /\ \A x \in page : After(cursor, x)
    /\ end \in EndCursors(page)

HeldInv == TypeInv /\ NothingNewer /\ InHand

(* No stamp and no mark is in the future.                                   *)
Clocked ==
  /\ hwm <= clock /\ newHigh <= clock /\ pageHigh <= clock /\ started <= clock
  /\ \A i \in Issues : stamp[i] <= clock
  /\ \A x \in page \cup todo : x.stamp <= clock

-----------------------------------------------------------------------------
(* What the pieces of a step give.                                          *)

(* The listing a request ranges over has one item of each issue.            *)
LEMMA RemainingIsSet ==
  ASSUME TypeOK
  PROVE  /\ Remaining \subseteq Item
         /\ IsFiniteSet(Remaining)
         /\ \A x, y \in Remaining : x.id = y.id => x = y
         /\ \A x \in Remaining : x = Listed(x.id)
<1>1. Remaining \subseteq Item /\ \A x \in Remaining : x = Listed(x.id)
  BY DEF Remaining, Listed, Item, TypeOK
<1>2. \A x, y \in Remaining : x.id = y.id => x = y
  BY <1>1
<1>3. IsFiniteSet(Remaining)
  <2> DEFINE f == [x \in Remaining |-> x.id]
  <2>1. f \in Injection(Remaining, Issues)
    BY <1>1, <1>2 DEF Item, Injection, IsInjective
  <2>2. IsFiniteSet(Issues)
    BY FS_Interval, SizesAssumption DEF Issues
  <2> HIDE DEF f
  <2>3. QED
    BY <2>1, <2>2, FS_Injection
<1>4. QED
  BY <1>1, <1>2, <1>3

(* What is kept of a page is a finite part of it.                           *)
LEMMA KeptIsPart ==
  ASSUME TypeInv, NEW K \in Kept(page)
  PROVE  /\ K \subseteq page /\ IsFiniteSet(K)
         /\ Cardinality(K) \in Nat
         /\ IsPrefix(K, page)
<1>1. K \subseteq page /\ IsPrefix(K, page)
  BY DEF Kept
<1>2. IsFiniteSet(K) /\ Cardinality(K) \in Nat
  BY <1>1, FS_Subset, FS_CardinalityType DEF TypeInv
<1>3. QED
  BY <1>1, <1>2

(* A page's cursor is a cursor.                                             *)
LEMMA EndCursorsType ==
  ASSUME TypeOK, NEW P \in SUBSET Item, NEW e \in EndCursors(P)
  PROVE  e \in Cursor
<1>1. NoCursor \in Cursor
  BY SizesAssumption DEF NoCursor, Cursor
<1>2. CASE P = {}
  BY <1>1, <1>2 DEF EndCursors, Cursor, TypeOK
<1>3. CASE P # {}
  <2>1. PICK x \in Lasts(P) : e = [stamp |-> x.stamp, id |-> x.id, tag |-> 1]
    BY <1>3 DEF EndCursors
  <2>2. x \in Item
    BY <2>1 DEF Lasts
  <2>3. x.stamp \in Nat /\ x.id \in 0..N
    BY <2>2, SizesAssumption DEF Item, Issues
  <2>4. QED
    BY <2>1, <2>3 DEF Cursor
<1>4. QED
  BY <1>2, <1>3

(* The high mark is the old one or the stamp of one of the issues, and at   *)
(* least each of them.                                                      *)
LEMMA HighOfIsHighest ==
  ASSUME NEW P \in SUBSET Item, NEW high \in Nat, NEW h \in HighOf(P, high)
  PROVE  /\ h \in Nat
         /\ h = high \/ \E x \in P : h = x.stamp
         /\ high <= h /\ \A x \in P : x.stamp <= h
BY DEF HighOf, Item
-----------------------------------------------------------------------------
(* Types.                                                                   *)

(* The locals at the start and the end of a run.                            *)
LEMMA ClearedTypes ==
  ASSUME ClearLoop
  PROVE  /\ pages' = 0 /\ cursor' = NoCursor /\ cursor' \in Cursor
         /\ pulled' = 0 /\ newHigh' = 0 /\ zeroRuns' = 0
         /\ page' = {} /\ hasNext' = FALSE /\ end' \in Cursor /\ todo' = {}
         /\ pageHigh' = 0
         /\ IsFiniteSet(page') /\ IsFiniteSet(todo')
BY FS_EmptySet, SizesAssumption DEF ClearLoop, NoMark, NoCursor, Cursor

(* Every step keeps the types, finite pages among them.                     *)
LEMMA TypeStep == TypeInv /\ [Next]_vars => TypeInv'
<1> SUFFICES ASSUME TypeInv, [Next]_vars
             PROVE  TypeInv'
  OBVIOUS
<1>0. TypeOK
  BY DEF TypeInv
<1>1. CASE UNCHANGED vars
  BY <1>1 DEF vars, linear, run, loop, hand, claim, bounds, TypeInv, TypeOK
<1>2. CASE Tick
  BY <1>2 DEF Tick, run, loop, hand, claim, bounds, TypeInv, TypeOK
<1>3. ASSUME NEW i \in Issues, Update(i)
      PROVE  TypeInv'
  BY <1>3 DEF Update, run, loop, hand, claim, bounds, TypeInv, TypeOK
<1>l. ASSUME NEW i \in Issues, Leave(i)
      PROVE  TypeInv'
  <2>1. away' \in BOOLEAN
    BY <1>l, Zenon DEF Leave
  <2>2. gone' \subseteq Issues
    BY <1>0, <1>l DEF Leave, TypeOK
  <2>3. QED
    BY <1>l, <2>1, <2>2 DEF Leave, run, loop, hand, bounds, TypeInv, TypeOK
<1>4. ASSUME NEW m \in Modes, NEW c \in Caps, NEW s \in Nat, Start(m, c, s),
             sinceRuns' \in Nat
      PROVE  TypeInv'
  <2>1. m \in {"tail", "stream"} /\ c \in Nat /\ ApplyOverlap(s) \in Int
    BY ChoicesAssumption, SizesAssumption DEF ApplyOverlap
  <2>2. ClearLoop
    BY <1>4 DEF Start
  <2>3. QED
    BY <1>4, <2>1, <2>2, ClearedTypes
       DEF Start, linear, claim, TypeInv, TypeOK
<1>5. ASSUME NEW m \in Modes, NEW c \in Caps, StartResume(m, c)
      PROVE  TypeInv'
  BY <1>0, <1>4, <1>5 DEF StartResume, TypeOK
<1>6. ASSUME NEW m \in Modes, NEW c \in Caps, NEW s \in 0..clock,
             StartSince(m, c, s)
      PROVE  TypeInv'
  BY <1>0, <1>4, <1>6 DEF StartSince, TypeOK
<1>7. ASSUME Finish,
             UNCHANGED <<linear, archive, delivered>>,
             hwm' \in Nat, floor' \in Int, long' \in BOOLEAN, cut' \in BOOLEAN,
             away' \in BOOLEAN, faults' \in Nat, sinceRuns' \in Nat
      PROVE  TypeInv'
  BY <1>7, ClearedTypes DEF Finish, linear, TypeInv, TypeOK
<1>8. CASE Fetch
  <2>1. PICK P \in SUBSET Remaining : page' = P /\ end' \in EndCursors(P)
                                      /\ hasNext' = (P # Remaining)
    BY <1>8 DEF Fetch
  <2>2. P \subseteq Item /\ IsFiniteSet(P)
    BY <1>0, <2>1, RemainingIsSet, FS_Subset
  <2>3. end' \in Cursor
    BY <1>0, <2>1, <2>2, EndCursorsType
  <2>4. QED
    BY <1>8, <2>1, <2>2, <2>3
       DEF Fetch, linear, run, claim, bounds, TypeInv, TypeOK
<1>9. CASE PagesUsedUp
  BY <1>9 DEF PagesUsedUp, linear, run, loop, hand, claim, bounds, TypeInv,
              TypeOK
<1>10. CASE BudgetExceeded
  BY <1>0, <1>7, <1>10 DEF BudgetExceeded, claim, bounds, TypeOK
<1>11. CASE IngestPage
  <2>1. PICK K \in Kept(page) :
          LET n == pulled + Cardinality(K)
              left == page \ K
          IN /\ Ingested(K) /\ HandedOn(K)
             /\ \/ /\ ~TooManyEmpty(K)
                   /\ Turn(n, left)
                   /\ pulled' = n
                   /\ newHigh' \in HighOf(K, newHigh)
                   /\ zeroRuns' = Emptied(K)
                   /\ UNCHANGED <<run, pages, todo, pageHigh>>
                \/ (TooManyEmpty(K) \/ Stalled(n, left)) /\ Finish
    BY <1>11 DEF IngestPage
  <2>2. K \subseteq page /\ K \subseteq Item /\ Cardinality(K) \in Nat
    BY <1>0, KeptIsPart DEF TypeOK
  <2>3. archive' \in [Issues -> Nat] /\ delivered' \in [Issues -> Nat]
    BY <1>0, <2>1, <2>2 DEF Ingested, HandedOn, TypeOK, Item
  <2>4. UNCHANGED <<linear, hwm, claim, bounds>>
    BY <1>11 DEF IngestPage
  <2>5. CASE /\ Turn(pulled + Cardinality(K), page \ K)
             /\ pulled' = pulled + Cardinality(K)
             /\ newHigh' \in HighOf(K, newHigh)
             /\ zeroRuns' = Emptied(K)
             /\ UNCHANGED <<run, pages, todo, pageHigh>>
    <3>1. newHigh' \in Nat
      BY <1>0, <2>2, <2>5, HighOfIsHighest DEF TypeOK
    <3>2. zeroRuns' \in Nat /\ pulled' \in Nat
      BY <1>0, <2>2, <2>5 DEF TypeOK, Emptied
    <3>3. /\ pc' \in {"save", "page"} /\ cursor' \in Cursor /\ end' \in Cursor
          /\ hasNext' = hasNext /\ page' \in SUBSET page
      BY <1>0, <2>5, SizesAssumption DEF Turn, TypeOK, NoCursor, Cursor
    <3>4. IsFiniteSet(page') /\ page' \subseteq Item
      BY <1>0, <3>3, FS_Subset DEF TypeInv, TypeOK
    <3>5. QED
      BY <2>3, <2>4, <2>5, <3>1, <3>2, <3>3, <3>4
         DEF linear, run, claim, bounds, TypeInv, TypeOK
  <2>6. CASE Finish
    <3>1. ClearLoop
      BY <2>6 DEF Finish
    <3>2. QED
      BY <2>3, <2>4, <2>6, <3>1, ClearedTypes
         DEF Finish, linear, claim, bounds, TypeInv, TypeOK
  <2>7. QED
    BY <2>1, <2>5, <2>6
<1>12. CASE StreamIngestPage
  <2>1. PICK K \in Kept(page) : /\ Ingested(K) /\ todo' = K
                                /\ page' = page \ K /\ zeroRuns' = Emptied(K)
    BY <1>12 DEF StreamIngestPage
  <2>2. K \subseteq page /\ K \subseteq Item /\ IsFiniteSet(K)
    BY <1>0, KeptIsPart DEF TypeOK
  <2>3. archive' \in [Issues -> Nat]
    BY <1>0, <2>1, <2>2 DEF Ingested, TypeOK, Item
  <2>4. IsFiniteSet(page') /\ page' \subseteq Item
    BY <1>0, <2>1, FS_Subset DEF TypeInv, TypeOK
  <2>5. zeroRuns' \in Nat
    BY <1>0, <2>1 DEF Emptied, TypeOK
  <2>6. QED
    BY <1>12, <2>1, <2>2, <2>3, <2>4, <2>5
       DEF StreamIngestPage, linear, run, claim, bounds, TypeInv, TypeOK
<1>13. CASE OnIssue
  <2>1. PICK x \in todo : /\ delivered' = [delivered EXCEPT ![x.id] = x.ver]
                          /\ todo' = todo \ {x}
                          /\ pageHigh' \in HighOf({x}, pageHigh)
    BY <1>13 DEF OnIssue
  <2>2. x \in Item
    BY <1>0 DEF TypeOK
  <2>3. pageHigh' \in Nat
    BY <1>0, <2>1, <2>2, HighOfIsHighest DEF TypeOK
  <2>4. IsFiniteSet(todo') /\ todo' \subseteq Item
    BY <1>0, <2>1, FS_Subset DEF TypeInv, TypeOK
  <2>5. delivered' \in [Issues -> Nat]
    BY <1>0, <2>1, <2>2 DEF TypeOK, Item
  <2>6. QED
    BY <1>13, <2>3, <2>4, <2>5
       DEF OnIssue, linear, run, claim, bounds, TypeInv, TypeOK
<1>14. CASE StreamEndPage
  <2>1. CASE Turn(pulled, page) /\ newHigh' = pageHigh
             /\ UNCHANGED <<run, pages, pulled, zeroRuns, todo, pageHigh>>
    <3>1. /\ pc' \in {"save", "page"} /\ cursor' \in Cursor /\ end' \in Cursor
          /\ hasNext' = hasNext /\ page' \in {page, {}}
      BY <1>0, <2>1, SizesAssumption DEF Turn, TypeOK, NoCursor, Cursor
    <3>2. IsFiniteSet(page') /\ page' \subseteq Item
      BY <1>0, <3>1, FS_EmptySet DEF TypeInv, TypeOK
    <3>3. QED
      BY <1>14, <2>1, <3>1, <3>2
         DEF StreamEndPage, linear, run, claim, bounds, TypeInv, TypeOK
  <2>2. CASE Finish
    BY <1>0, <1>7, <1>14, <2>2 DEF StreamEndPage, claim, bounds, TypeOK
  <2>3. QED
    BY <1>14, <2>1, <2>2 DEF StreamEndPage
<1>15. CASE SaveMark
  <2>1. NewFloor \in Int
    BY <1>0 DEF NewFloor, TypeOK
  <2>2. /\ hwm' \in Nat /\ floor' \in Int
        /\ long' \in BOOLEAN /\ cut' \in BOOLEAN /\ away' \in BOOLEAN
    BY <1>0, <1>15, <2>1 DEF SaveMark, claim, TypeOK
  <2>3. QED
    BY <1>0, <1>7, <1>15, <2>2 DEF SaveMark, bounds, TypeOK
<1>16. CASE RunFails
  BY <1>0, <1>7, <1>16 DEF RunFails, claim, TypeOK
<1>17. QED
  BY <1>1, <1>2, <1>3, <1>l, <1>5, <1>6, <1>8, <1>9, <1>10, <1>11, <1>12,
     <1>13, <1>14, <1>15, <1>16
     DEF Next, Resume, RunStep

(* A fresh archive has them.                                                *)
LEMMA TypeInit == Init => TypeInv
<1>1. Init => TypeOK
  <2> SUFFICES ASSUME Init
               PROVE  TypeOK
    OBVIOUS
  <2>1. /\ ver \in [Issues -> Nat] /\ stamp \in [Issues -> Nat]
        /\ archive \in [Issues -> Nat] /\ delivered \in [Issues -> Nat]
    BY DEF Init
  <2>2. cursor \in Cursor /\ end \in Cursor
    BY SizesAssumption DEF Init, NoCursor, Cursor
  <2>3. /\ hasNext \in BOOLEAN /\ gone \subseteq Issues
        /\ long \in BOOLEAN /\ cut \in BOOLEAN /\ away \in BOOLEAN
    BY DEF Init
  <2>4. QED
    BY <2>1, <2>2, <2>3 DEF Init, TypeOK, NoMark
<1>2. Init => IsFiniteSet(page) /\ IsFiniteSet(todo)
  BY FS_EmptySet DEF Init
<1>3. QED
  BY <1>1, <1>2 DEF TypeInv

(* Every variable of a run, of the archive and of the saved mark stays      *)
(* within its type, whatever the server answers and wherever a run ends.    *)
THEOREM TypeCorrect == Spec => []TypeOK
<1>1. TypeInv => TypeOK
  BY DEF TypeInv
<1>2. QED
  BY <1>1, TypeInit, TypeStep, PTL DEF Spec

-----------------------------------------------------------------------------
(* The archive only moves forward.                                          *)

(* Ingesting a part of the page in hand never puts an issue back.           *)
LEMMA IngestAdvances ==
  ASSUME HeldInv, pc = "fetched", NEW K \in Kept(page), Ingested(K)
  PROVE  /\ \A i \in Issues : archive[i] <= archive'[i] /\ archive'[i] <= ver[i]
         /\ \A x \in K : archive'[x.id] = x.ver
<1>1. K \subseteq page /\ K \subseteq Item
  BY KeptIsPart DEF HeldInv, TypeInv, TypeOK
<1>2. /\ \A x \in K : archive[x.id] <= x.ver /\ x.ver <= ver[x.id]
      /\ \A x, y \in K : x.id = y.id => x = y
  BY <1>1 DEF HeldInv, InHand
<1>3. ASSUME NEW x \in K
      PROVE  archive'[x.id] = x.ver
  <2>1. x.id \in Issues /\ x.ver \in Nat
    BY <1>1 DEF Item
  <2> DEFINE y == CHOOSE z \in K : z.id = x.id
  <2>2. y \in K /\ y.id = x.id
    OBVIOUS
  <2>3. y = x
    BY <1>2, <2>2
  <2> HIDE DEF y
  <2>4. archive'[x.id] = y.ver
    BY <2>1 DEF y, Ingested
  <2>5. QED
    BY <2>3, <2>4
<1>4. ASSUME NEW i \in Issues, \A x \in K : x.id # i
      PROVE  archive'[i] = archive[i]
  BY <1>4 DEF Ingested
<1>5. ASSUME NEW i \in Issues
      PROVE  archive[i] <= archive'[i] /\ archive'[i] <= ver[i]
  <2>1. archive[i] \in Nat /\ ver[i] \in Nat /\ archive[i] <= ver[i]
    BY DEF HeldInv, TypeInv, TypeOK, NothingNewer
  <2>2. CASE \E x \in K : x.id = i
    BY <1>2, <1>3, <2>2
  <2>3. CASE \A x \in K : x.id # i
    BY <1>4, <2>1, <2>3
  <2>4. QED
    BY <2>2, <2>3
<1>6. QED
  BY <1>3, <1>5

(* The two loops ingest, no other step does.                                *)
LEMMA OnlyIngestWrites ==
  ASSUME Next, ~IngestPage, ~StreamIngestPage
  PROVE  UNCHANGED archive
<1>1. CASE \/ Tick \/ (\E i \in Issues : Update(i) \/ Leave(i))
           \/ Resume \/ RunFails
  BY <1>1 DEF Tick, Update, Leave, Resume, StartResume, Start, RunFails
<1>2. CASE \E m \in Modes, c \in Caps, s \in 0..clock : StartSince(m, c, s)
  BY <1>2 DEF StartSince, Start
<1>3. CASE RunStep
  BY <1>3 DEF RunStep, Fetch, PagesUsedUp, BudgetExceeded, OnIssue,
              StreamEndPage, SaveMark
<1>4. QED
  BY <1>1, <1>2, <1>3 DEF Next

(* Both of them ingest a part of the page in hand, and have it no longer.   *)
LEMMA IngestStep ==
  ASSUME IngestPage \/ StreamIngestPage
  PROVE  /\ pc = "fetched" /\ UNCHANGED linear
         /\ \E K \in Kept(page) : Ingested(K)
         /\ pc' # "fetched"
<1>1. CASE IngestPage
  BY <1>1 DEF IngestPage, Turn, Finish
<1>2. CASE StreamIngestPage
  BY <1>2 DEF StreamIngestPage
<1>3. QED
  BY <1>1, <1>2

(* Only Linear changes versions and stamps, and versions go up.             *)
LEMMA VersionsGrow ==
  ASSUME TypeOK, [Next]_vars
  PROVE  /\ \A i \in Issues : ver[i] <= ver'[i]
         /\ (\A i \in Issues : ~Update(i)) => UNCHANGED <<ver, stamp>>
<1>1. ASSUME NEW i \in Issues, Update(i)
      PROVE  \A j \in Issues : ver[j] <= ver'[j]
  BY <1>1 DEF Update, TypeOK
<1>2. ASSUME \A i \in Issues : ~Update(i)
      PROVE  UNCHANGED <<ver, stamp>>
  <2>1. CASE UNCHANGED vars
    BY <2>1 DEF vars, linear
  <2>2. CASE Tick \/ (\E i \in Issues : Leave(i)) \/ Resume \/ RunFails
    BY <2>2 DEF Tick, Leave, Resume, StartResume, Start, RunFails, linear
  <2>3. CASE \E m \in Modes, c \in Caps, s \in 0..clock : StartSince(m, c, s)
    BY <2>3 DEF StartSince, Start, linear
  <2>4. CASE RunStep
    BY <2>4 DEF RunStep, Fetch, PagesUsedUp, BudgetExceeded, IngestPage,
                StreamIngestPage, OnIssue, StreamEndPage, SaveMark, linear
  <2>5. QED
    BY <1>2, <2>1, <2>2, <2>3, <2>4 DEF Next
<1>3. QED
  BY <1>1, <1>2 DEF TypeOK

(* While a page is in hand, only Linear and the clock move.                 *)
LEMMA FetchedWaits ==
  ASSUME [Next]_vars, pc' = "fetched", ~Fetch
  PROVE  /\ pc = "fetched"
         /\ UNCHANGED <<archive, hwm, delivered, run, loop, hand, bounds>>
<1>1. CASE UNCHANGED vars
  BY <1>1 DEF vars
<1>2. CASE Tick \/ \E i \in Issues : Update(i) \/ Leave(i)
  BY <1>2 DEF Tick, Update, Leave
<1>3. ~(Resume \/ RunFails
        \/ \E m \in Modes, c \in Caps, s \in 0..clock : StartSince(m, c, s))
  BY DEF Resume, StartResume, StartSince, Start, RunFails, Finish
<1>4. ~RunStep
  BY DEF RunStep, PagesUsedUp, BudgetExceeded, IngestPage, StreamIngestPage,
         OnIssue, StreamEndPage, SaveMark, Finish, Turn
<1>5. QED
  BY <1>1, <1>2, <1>3, <1>4 DEF Next

(* What a request brings is the current version of some issues.             *)
LEMMA FetchBringsCurrent ==
  ASSUME TypeOK, Fetch
  PROVE  \E P \in SUBSET Remaining :
           /\ page' = P /\ IsPrefix(P, Remaining)
           /\ end' \in EndCursors(P)
           /\ \A x \in P : /\ x = Listed(x.id) /\ x.id \in Issues
                          /\ x.stamp = stamp[x.id] /\ x.ver = ver[x.id]
                          /\ After(cursor, x)
<1>1. PICK P \in SUBSET Remaining : /\ page' = P /\ IsPrefix(P, Remaining)
                                     /\ end' \in EndCursors(P)
  BY DEF Fetch
<1>2. ASSUME NEW x \in P
      PROVE  /\ x = Listed(x.id) /\ x.id \in Issues
             /\ x.stamp = stamp[x.id] /\ x.ver = ver[x.id]
             /\ After(cursor, x)
  <2>1. x = Listed(x.id) /\ x \in Item
    BY RemainingIsSet
  <2>2. x.id \in Issues /\ After(cursor, x)
    BY <2>1 DEF Item, Remaining
  <2>3. QED
    BY <2>1, <2>2 DEF Listed
<1>3. QED
  BY <1>1, <1>2

(* The cursor a page ends with depends on the page and the cursor alone.    *)
LEMMA EndCursorsKept ==
  ASSUME cursor' = cursor, page' = page, end' = end, end \in EndCursors(page)
  PROVE  (end \in EndCursors(page))'
BY DEF EndCursors, Lasts, Before

(* Every step keeps the archive and the page in hand behind Linear.         *)
LEMMA HeldStep == HeldInv /\ [Next]_vars => HeldInv'
<1> SUFFICES ASSUME HeldInv, [Next]_vars
             PROVE  HeldInv'
  OBVIOUS
<1>1. TypeInv' /\ TypeOK /\ TypeOK'
  BY TypeStep DEF HeldInv, TypeInv
<1>2. NothingNewer'
  <2>1. \A i \in Issues : ver[i] \in Nat /\ ver'[i] \in Nat /\ ver[i] <= ver'[i]
                         /\ archive[i] \in Nat /\ archive'[i] \in Nat
    BY <1>1, VersionsGrow DEF TypeOK
  <2>2. CASE UNCHANGED archive
    BY <2>1, <2>2 DEF HeldInv, NothingNewer
  <2>3. CASE IngestPage \/ StreamIngestPage
    <3>1. PICK K \in Kept(page) : Ingested(K)
      BY <2>3, IngestStep
    <3>2. \A i \in Issues : archive'[i] <= ver[i]
      BY <2>3, <3>1, IngestStep, IngestAdvances
    <3>3. QED
      BY <2>1, <3>2 DEF NothingNewer
  <2>4. CASE UNCHANGED vars
    BY <2>2, <2>4 DEF vars
  <2>5. QED
    BY <2>2, <2>3, <2>4, OnlyIngestWrites
<1>3. InHand'
  <2>1. CASE pc' # "fetched"
    BY <2>1 DEF InHand
  <2>2. CASE Fetch
    <3>1. PICK P \in SUBSET Remaining :
            /\ page' = P
            /\ end' \in EndCursors(P)
            /\ \A x \in P : /\ x = Listed(x.id) /\ x.id \in Issues
                           /\ x.ver = ver[x.id]
                           /\ After(cursor, x)
      BY <1>1, <2>2, FetchBringsCurrent
    <3>2. UNCHANGED <<linear, archive, cursor>>
      BY <2>2 DEF Fetch
    <3>3. \A x \in page' : archive'[x.id] <= x.ver /\ x.ver <= ver'[x.id]
      <4>1. \A i \in Issues : archive[i] <= ver[i] /\ ver[i] <= ver[i]
        BY <1>1 DEF HeldInv, NothingNewer, TypeOK
      <4>2. QED
        BY <3>1, <3>2, <4>1 DEF linear
    <3>4. \A x, y \in page' : x.id = y.id => x = y
      BY <3>1
    <3>5. \A x \in page' : After(cursor, x)'
      BY <3>1, <3>2 DEF After, Before
    <3>6. (end \in EndCursors(page))'
      BY <3>1, <3>2 DEF EndCursors, Lasts, Before
    <3>7. QED
      BY <3>3, <3>4, <3>5, <3>6 DEF InHand
  <2>3. CASE pc' = "fetched" /\ ~Fetch
    <3>1. pc = "fetched" /\ UNCHANGED <<archive, page, cursor, end>>
      BY <2>3, FetchedWaits DEF loop, hand
    <3>2. \A x \in page : archive'[x.id] <= x.ver /\ x.ver <= ver'[x.id]
      <4>1. ASSUME NEW x \in page
            PROVE  archive'[x.id] <= x.ver /\ x.ver <= ver'[x.id]
        <5>1. x.id \in Issues /\ x.ver \in Nat
          BY <1>1 DEF TypeOK, Item
        <5>2. archive[x.id] <= x.ver /\ x.ver <= ver[x.id]
          BY <3>1 DEF HeldInv, InHand
        <5>3. ver[x.id] <= ver'[x.id]
              /\ ver[x.id] \in Nat /\ ver'[x.id] \in Nat
          BY <1>1, <5>1, VersionsGrow DEF TypeOK
        <5>4. QED
          BY <3>1, <5>1, <5>2, <5>3
      <4>2. QED
        BY <4>1
    <3>3. \A x \in page : After(cursor, x)'
      BY <3>1 DEF HeldInv, InHand, After, Before
    <3>4. (end \in EndCursors(page))'
      BY <3>1, EndCursorsKept DEF HeldInv, InHand
    <3>5. QED
      BY <3>1, <3>2, <3>3, <3>4 DEF HeldInv, InHand
  <2>4. QED
    BY <2>1, <2>2, <2>3
<1>4. QED
  BY <1>1, <1>2, <1>3 DEF HeldInv

(* A fresh archive is.                                                      *)
LEMMA HeldInit == Init => HeldInv
<1>1. Init => TypeInv
  BY TypeInit
<1>2. Init => NothingNewer /\ InHand
  BY DEF Init, NothingNewer, InHand
<1>3. QED
  BY <1>1, <1>2 DEF HeldInv

LEMMA ArchiveGrows ==
  ASSUME HeldInv, [Next]_vars, NEW i \in Issues
  PROVE  archive[i] <= archive'[i]
<1>1. archive[i] \in Nat /\ archive'[i] \in Nat
  BY TypeStep DEF HeldInv, TypeInv, TypeOK
<1>2. CASE UNCHANGED archive
  BY <1>1, <1>2
<1>3. CASE IngestPage \/ StreamIngestPage
  <2>1. PICK K \in Kept(page) : Ingested(K)
    BY <1>3, IngestStep
  <2>2. QED
    BY <1>3, <2>1, IngestStep, IngestAdvances
<1>4. CASE UNCHANGED vars
  BY <1>2, <1>4 DEF vars
<1>5. QED
  BY <1>2, <1>3, <1>4, OnlyIngestWrites

(* No step ever puts an issue of the archive back to an older version,      *)
(* however late a page is ingested and however often a run is repeated.     *)
THEOREM ArchiveAdvances == Spec => ArchiveNeverRegresses
<1>1. HeldInv /\ [Next]_vars
        => [\A i \in Issues : archive'[i] >= archive[i]]_vars
  <2> SUFFICES ASSUME HeldInv, Next, NEW i \in Issues
               PROVE  archive'[i] >= archive[i]
    OBVIOUS
  <2>1. archive[i] \in Nat /\ archive'[i] \in Nat
    BY TypeStep DEF HeldInv, TypeInv, TypeOK
  <2>2. archive[i] <= archive'[i]
    BY ArchiveGrows
  <2>3. QED
    BY <2>1, <2>2
<1>2. QED
  BY <1>1, HeldInit, HeldStep, PTL DEF Spec, ArchiveNeverRegresses
-----------------------------------------------------------------------------
(* Stamps and marks.                                                        *)

(* The end of a run, in order or not.                                       *)
LEMMA FinishClears ==
  ASSUME Finish
  PROVE  /\ pc' = "idle" /\ started' = 0 /\ newHigh' = 0 /\ pageHigh' = 0
         /\ page' = {} /\ todo' = {}
BY DEF Finish, ClearLoop, NoMark

(* Nothing is stamped in the future, and no mark lies there.                *)
LEMMA ClockStep == HeldInv /\ Clocked /\ [Next]_vars => Clocked'
<1> SUFFICES ASSUME HeldInv, Clocked, [Next]_vars
             PROVE  Clocked'
  OBVIOUS
<1>0. TypeOK /\ TypeOK'
  BY TypeStep DEF HeldInv, TypeInv
<1> DEFINE Held == page \cup todo
<1>a. /\ clock \in Nat /\ hwm \in Nat /\ newHigh \in Nat /\ pageHigh \in Nat
      /\ started \in Nat /\ \A x \in Held : x.stamp \in Nat
      /\ \A i \in Issues : stamp[i] \in Nat
  BY <1>0 DEF TypeOK, Item
<1>b. /\ hwm <= clock /\ newHigh <= clock /\ pageHigh <= clock
      /\ started <= clock /\ \A i \in Issues : stamp[i] <= clock
      /\ \A x \in Held : x.stamp <= clock
  BY DEF Clocked
<1>1. CASE UNCHANGED vars
  BY <1>b, <1>1 DEF vars, linear, run, loop, hand, Clocked
<1>2. CASE Tick
  BY <1>a, <1>b, <1>2 DEF Tick, run, loop, hand, Clocked
<1>3. ASSUME NEW i \in Issues, Update(i)
      PROVE  Clocked'
  BY <1>0, <1>a, <1>b, <1>3 DEF Update, run, loop, hand, Clocked, TypeOK
<1>l. ASSUME NEW i \in Issues, Leave(i)
      PROVE  Clocked'
  BY <1>b, <1>l DEF Leave, run, loop, hand, Clocked
<1>4. ASSUME NEW m, NEW c, NEW s, Start(m, c, s)
      PROVE  Clocked'
  BY <1>a, <1>b, <1>4 DEF Start, ClearLoop, NoMark, linear, Clocked
<1>5. ASSUME Finish, UNCHANGED linear, hwm' <= clock
      PROVE  Clocked'
  BY <1>a, <1>b, <1>5, FinishClears DEF linear, Clocked
<1>6. CASE Fetch
  <2>1. PICK P \in SUBSET Remaining :
          page' = P /\ \A x \in P : x.id \in Issues /\ x.stamp = stamp[x.id]
    BY <1>0, <1>6, FetchBringsCurrent
  <2>2. \A x \in page' : x.stamp <= clock
    BY <1>b, <2>1
  <2>3. UNCHANGED <<clock, stamp, hwm, newHigh, pageHigh, started, todo>>
    BY <1>6 DEF Fetch, linear, run
  <2>4. QED
    BY <1>b, <2>2, <2>3 DEF Clocked
<1>7. CASE PagesUsedUp
  BY <1>b, <1>7 DEF PagesUsedUp, linear, run, loop, hand, Clocked
<1>8. ASSUME UNCHANGED <<clock, stamp, hwm, started>>,
             page' \subseteq Held, todo' \subseteq Held,
             newHigh' <= clock, pageHigh' <= clock
      PROVE  Clocked'
  BY <1>b, <1>8 DEF Clocked
<1>9. ASSUME NEW n, NEW left, left \subseteq page, Turn(n, left)
      PROVE  page' \subseteq page
  BY <1>9 DEF Turn
<1>10. ASSUME NEW P \in SUBSET Held, NEW high \in Nat, high <= clock,
              NEW h \in HighOf(P, high)
       PROVE  h <= clock
  BY <1>0, <1>b, <1>10, HighOfIsHighest DEF TypeOK
<1>11. CASE IngestPage
  <2>1. PICK K \in Kept(page) :
          \/ /\ Turn(pulled + Cardinality(K), page \ K)
             /\ newHigh' \in HighOf(K, newHigh)
             /\ UNCHANGED <<run, pages, todo, pageHigh>>
          \/ Finish
    BY <1>11 DEF IngestPage
  <2>2. K \subseteq page
    BY KeptIsPart DEF HeldInv
  <2>3. UNCHANGED <<linear, hwm>>
    BY <1>11 DEF IngestPage
  <2>4. CASE Finish
    BY <1>b, <1>5, <2>3, <2>4
  <2>5. CASE /\ Turn(pulled + Cardinality(K), page \ K)
             /\ newHigh' \in HighOf(K, newHigh)
             /\ UNCHANGED <<run, pages, todo, pageHigh>>
    <3>1. newHigh' <= clock
      BY <1>a, <1>b, <1>10, <2>2, <2>5
    <3>2. page' \subseteq page
      BY <1>9, <2>5
    <3>3. QED
      BY <1>b, <1>8, <2>3, <2>5, <3>1, <3>2 DEF linear, run
  <2>6. QED
    BY <2>1, <2>4, <2>5
<1>12. CASE StreamIngestPage
  <2>1. PICK K \in Kept(page) : todo' = K /\ page' = page \ K
    BY <1>12 DEF StreamIngestPage
  <2>2. K \subseteq page
    BY KeptIsPart DEF HeldInv
  <2>3. QED
    BY <1>b, <1>8, <1>12, <2>1, <2>2 DEF StreamIngestPage, linear, run
<1>13. CASE OnIssue
  <2>1. PICK x \in todo : todo' = todo \ {x} /\ pageHigh' \in HighOf({x}, pageHigh)
    BY <1>13 DEF OnIssue
  <2>2. pageHigh' <= clock
    BY <1>a, <1>b, <1>10, <2>1
  <2>3. QED
    BY <1>b, <1>8, <1>13, <2>1, <2>2 DEF OnIssue, linear, run
<1>14. CASE StreamEndPage
  <2>1. CASE Finish
    BY <1>b, <1>5, <1>14, <2>1 DEF StreamEndPage
  <2>2. CASE /\ Turn(pulled, page) /\ newHigh' = pageHigh
             /\ UNCHANGED <<run, pages, pulled, zeroRuns, todo, pageHigh>>
    <3>1. page' \subseteq page
      BY <1>9, <2>2
    <3>2. QED
      BY <1>b, <1>8, <1>14, <2>2, <3>1 DEF StreamEndPage, linear, run
  <2>3. QED
    BY <1>14, <2>1, <2>2 DEF StreamEndPage
<1>15. CASE BudgetExceeded \/ SaveMark \/ RunFails
  BY <1>b, <1>5, <1>15 DEF BudgetExceeded, SaveMark, RunFails
<1>16. QED
  BY <1>1, <1>2, <1>3, <1>l, <1>4, <1>6, <1>7, <1>11, <1>12, <1>13, <1>14,
     <1>15
     DEF Next, Resume, StartResume, StartSince, RunStep
-----------------------------------------------------------------------------
(* The guards of the loops.                                                 *)

(* Only a stream has callbacks, and none once the page is done with.        *)
Callbacks == (pc = "deliver" => mode = "stream") /\ (pc # "deliver" => todo = {})

GuardInv == CapRespected /\ EmptyPageGuard /\ Callbacks

(* What is kept of a page fits what --max-issues leaves.                    *)
LEMMA KeptFits ==
  ASSUME TypeInv, cap > 0, pulled <= cap, NEW K \in Kept(page)
  PROVE  pulled + Cardinality(K) <= cap
<1>1. Cardinality(page) \in Nat /\ Cardinality(K) \in Nat
  BY KeptIsPart, FS_CardinalityType DEF TypeInv
<1>2. Cardinality(K) = IF cap > 0 /\ pulled + Cardinality(page) > cap
                         THEN cap - pulled ELSE Cardinality(page)
  BY DEF Kept
<1>3. QED
  BY <1>1, <1>2 DEF TypeInv, TypeOK

(* Every step keeps the guards.                                             *)
LEMMA GuardStep == TypeInv /\ GuardInv /\ [Next]_vars => GuardInv'
<1> SUFFICES ASSUME TypeInv, GuardInv, [Next]_vars
             PROVE  GuardInv'
  OBVIOUS
<1>0. /\ TypeOK /\ TypeOK' /\ MaxZeroItemRuns \in Nat \ {0}
      /\ IsFiniteSet(todo) /\ Cardinality(todo) \in Nat
  BY TypeStep, SizesAssumption, FS_CardinalityType DEF TypeInv
<1>1. CASE \/ UNCHANGED vars \/ Tick
           \/ \E i \in Issues : Update(i) \/ Leave(i)
  BY <1>1 DEF vars, Tick, Update, Leave, run, loop, hand, GuardInv, CapRespected,
              EmptyPageGuard, Callbacks
<1>2. ASSUME cap' \in Nat, pulled' = 0, todo' = {}, zeroRuns' = 0,
             pc' # "deliver"
      PROVE  GuardInv'
  BY <1>0, <1>2, FS_EmptySet
     DEF GuardInv, CapRespected, EmptyPageGuard, Callbacks
<1>3. ASSUME NEW m, NEW c, NEW s, Start(m, c, s)
      PROVE  GuardInv'
  BY <1>0, <1>2, <1>3, ClearedTypes DEF Start, TypeOK
<1>4. CASE Finish
  BY <1>0, <1>2, <1>4, ClearedTypes DEF Finish, TypeOK
<1>5. CASE Fetch \/ PagesUsedUp
  BY <1>5 DEF Fetch, PagesUsedUp, run, loop, hand, GuardInv, CapRespected,
              EmptyPageGuard, Callbacks
<1>6. CASE IngestPage /\ ~Finish
  <2>1. PICK K \in Kept(page) :
          /\ ~TooManyEmpty(K)
          /\ Turn(pulled + Cardinality(K), page \ K)
          /\ pulled' = pulled + Cardinality(K)
          /\ zeroRuns' = Emptied(K)
          /\ UNCHANGED <<run, pages, todo, pageHigh>>
    BY <1>6 DEF IngestPage
  <2>2. pc = "fetched" /\ pc' \in {"save", "page"} /\ todo = {}
        /\ UNCHANGED <<cap, todo>>
    BY <1>6, <2>1 DEF IngestPage, Turn, GuardInv, Callbacks, run
  <2>3. CapRespected'
    <3>1. SUFFICES ASSUME cap > 0
                   PROVE  pulled + Cardinality(K) + Cardinality({}) <= cap
      BY <2>1, <2>2 DEF CapRespected
    <3>2. Cardinality({}) = 0 /\ pulled \in Nat /\ Cardinality(K) \in Nat
      BY <1>0, KeptIsPart, FS_EmptySet DEF TypeOK
    <3>3. pulled <= cap
      BY <2>2, <3>1, <3>2 DEF GuardInv, CapRespected
    <3>4. QED
      BY <3>1, <3>2, <3>3, KeptFits
  <2>4. EmptyPageGuard'
    <3>1. SUFFICES ASSUME pc' = "page"
                   PROVE  zeroRuns' < MaxZeroItemRuns
      BY DEF EmptyPageGuard
    <3>2. hasNext
      BY <2>1, <3>1 DEF Turn, GoesOn, Stops
    <3>3. ~(Emptied(K) >= MaxZeroItemRuns)
      BY <2>1, <3>2 DEF TooManyEmpty
    <3>4. QED
      BY <1>0, <2>1, <3>3 DEF TypeOK
  <2>5. Callbacks'
    BY <2>2 DEF Callbacks
  <2>6. QED
    BY <2>3, <2>4, <2>5 DEF GuardInv
<1>7. CASE StreamIngestPage
  <2>1. PICK K \in Kept(page) : todo' = K
    BY <1>7 DEF StreamIngestPage
  <2>2. /\ pc = "fetched" /\ todo = {} /\ mode = "stream" /\ pc' = "deliver"
        /\ UNCHANGED <<cap, mode, pulled>>
    BY <1>7 DEF StreamIngestPage, GuardInv, Callbacks, run
  <2>3. CapRespected'
    <3>1. SUFFICES ASSUME cap > 0
                   PROVE  pulled + Cardinality(K) <= cap
      BY <2>1, <2>2 DEF CapRespected
    <3>2. Cardinality({}) = 0 /\ pulled \in Nat
      BY <1>0, FS_EmptySet DEF TypeOK
    <3>3. pulled <= cap
      BY <2>2, <3>1, <3>2 DEF GuardInv, CapRespected
    <3>4. QED
      BY <3>1, <3>3, KeptFits
  <2>4. QED
    BY <2>2, <2>3 DEF GuardInv, EmptyPageGuard, Callbacks
<1>8. CASE OnIssue
  <2>1. PICK x \in todo : todo' = todo \ {x}
    BY <1>8 DEF OnIssue
  <2>2. pulled' = pulled + 1 /\ pc = "deliver" /\ UNCHANGED <<run, pc>>
    BY <1>8 DEF OnIssue
  <2>3. Cardinality(todo') = Cardinality(todo) - 1
    BY <1>0, <2>1, FS_RemoveElement
  <2>4. QED
    BY <1>0, <2>2, <2>3
       DEF GuardInv, CapRespected, EmptyPageGuard, Callbacks, run, TypeOK
<1>9. CASE StreamEndPage /\ ~Finish
  <2>1. /\ mode = "stream" /\ todo = {} /\ pc' \in {"save", "page"}
        /\ UNCHANGED <<run, pulled, todo>>
    BY <1>9 DEF StreamEndPage, Turn, GuardInv, Callbacks
  <2>2. QED
    BY <2>1 DEF GuardInv, CapRespected, EmptyPageGuard, Callbacks, run
<1>10. CASE BudgetExceeded \/ SaveMark \/ RunFails
  BY <1>4, <1>10 DEF BudgetExceeded, SaveMark, RunFails
<1>11. QED
  BY <1>1, <1>3, <1>4, <1>5, <1>6, <1>7, <1>8, <1>9, <1>10
     DEF Next, Resume, StartResume, StartSince, RunStep

(* They hold while nothing runs.                                            *)
LEMMA GuardInit == Init => GuardInv
BY SizesAssumption DEF Init, GuardInv, CapRespected, EmptyPageGuard, Callbacks

(* No run ingests or hands on more than --max-issues allows, whatever the   *)
(* server sends in a page and in how many pages it sends it.                *)
THEOREM CapHolds == Spec => []CapRespected
<1>1. GuardInv => CapRespected
  BY DEF GuardInv
<1>2. QED
  BY <1>1, TypeInit, TypeStep, GuardInit, GuardStep, PTL DEF Spec

(* The tail loop asks for no page after maxZeroItemRuns empty ones in a     *)
(* row, and starts counting anew after each page that brings something.     *)
THEOREM EmptyPagesGuarded == Spec => []EmptyPageGuard
<1>1. GuardInv => EmptyPageGuard
  BY DEF GuardInv
<1>2. QED
  BY <1>1, TypeInit, TypeStep, GuardInit, GuardStep, PTL DEF Spec
=============================================================================
