-------------------------- MODULE TailEscape_proofs --------------------------
(***************************************************************************)
(* No update escapes between runs, no version a run pulled is lost to the  *)
(* consumer, and a full resume keeps the mark, for any number of issues,   *)
(* page sizes, caps, faults and runs, in either direction of the listing.  *)
(* The first two rest on where an update can be that a run has not handed  *)
(* on: ahead of the run, or no earlier than its mark.  The third rests on  *)
(* where the issue that set the mark can be: pulled, in hand, or ahead.    *)
(***************************************************************************)
EXTENDS TailSync_proofs

Undelivered(i) == i \notin gone /\ delivered[i] # ver[i]

(* What is handed on is what was ingested.                                  *)
Handed ==
  /\ \A i \in Issues : delivered[i] <= archive[i]
  /\ pc = "deliver" => \A x \in todo : x.ver = archive[x.id]

(* The mark h is that of an issue no later than the cursor c.               *)
Upto(h, c) == IF c.id = 0 THEN h = 0 ELSE h <= c.stamp

MarkAtCursor ==
  /\ pc \in {"page", "fetched"} => Upto(newHigh, cursor)
  /\ pc = "deliver" /\ page = {} /\ end # NoCursor
       => Upto(pageHigh, end) /\ \A y \in todo : Upto(y.stamp, end)

(* Found by the run when it began, and not handed on since.                 *)
Missed(i) == Undelivered(i) /\ since <= stamp[i] /\ stamp[i] < started

(* Oldest first: a missed issue is ahead of the run, wherever the run is.   *)
AheadOfRun(i) ==
  /\ pc = "page" => After(cursor, Listed(i))
  /\ pc = "fetched" =>
       \/ Listed(i) \in page
       \/ /\ After(cursor, Listed(i))
          /\ \A x \in page : Before(x, Listed(i))
  /\ pc = "deliver" =>
       /\ pageHigh <= stamp[i]
       /\ \/ Listed(i) \in todo
          \/ /\ \A y \in todo : y.stamp <= stamp[i]
             /\ page = {} /\ end # NoCursor => After(end, Listed(i))
  /\ pc = "save" => newHigh <= stamp[i]

Ahead == \A i \in Issues : Missed(i) => AheadOfRun(i)

(* Newest first: an issue that is not handed on is ahead of the run, or was *)
(* updated after the run had its mark.                                      *)
AheadOrNewer(i) ==
  /\ pc = "page" => newHigh <= stamp[i] \/ After(cursor, Listed(i))
  /\ pc = "fetched" =>
       \/ newHigh <= stamp[i] /\ \A x \in page : x.stamp <= stamp[i]
       \/ Listed(i) \in page
       \/ /\ hasNext /\ After(cursor, Listed(i))
          /\ \A x \in page : Before(x, Listed(i))
  /\ pc = "deliver" =>
       \/ pageHigh <= stamp[i] /\ \A y \in todo : y.stamp <= stamp[i]
       \/ Listed(i) \in todo \cup page
       \/ hasNext /\ (page = {} /\ end # NoCursor => After(end, Listed(i)))
  /\ pc = "save" => newHigh <= stamp[i] \/ hasNext \/ page # {}

NoneOlder ==
  \A i \in Issues : Undelivered(i) /\ since <= stamp[i] => AheadOrNewer(i)

(* A run that asks for another page was told that there is one.             *)
MoreToCome == pc = "page" => pages = 0 \/ hasNext

IInv ==
  /\ HeldInv /\ Clocked /\ Handed /\ MoreToCome
  /\ Ascending => MarkAtCursor /\ Ahead
  /\ ~Ascending => NoneOlder
  /\ StreamLosesNothing
-----------------------------------------------------------------------------
(* The page and its cursor.                                                 *)

(* The cursor a page ends with is no earlier than the mark or any issue of  *)
(* the page.                                                                *)
LEMMA EndIsLatest ==
  ASSUME Ascending, HeldInv, MarkAtCursor, pc = "fetched", end # NoCursor
  PROVE  Upto(newHigh, end) /\ \A y \in page : Upto(y.stamp, end)
<1>0. TypeOK /\ Upto(newHigh, cursor) /\ end \in EndCursors(page)
      /\ \A x \in page : x \in Item /\ After(cursor, x)
  BY DEF HeldInv, TypeInv, TypeOK, InHand, MarkAtCursor
<1>1. CASE page = {}
  <2>1. PICK t \in 1..2 : end = [cursor EXCEPT !.tag = t]
    BY <1>0, <1>1 DEF EndCursors
  <2>2. end.id = cursor.id /\ end.stamp = cursor.stamp
    BY <1>0, <2>1 DEF TypeOK, Cursor
  <2>3. QED
    BY <1>0, <1>1, <2>2 DEF Upto
<1>2. CASE page # {}
  <2>1. PICK x \in Lasts(page) : end = [stamp |-> x.stamp, id |-> x.id, tag |-> 1]
    BY <1>0, <1>2 DEF EndCursors
  <2>2. x \in page /\ \A y \in page \ {x} : Before(y, x)
    BY <2>1 DEF Lasts
  <2>3. end.id = x.id /\ end.stamp = x.stamp /\ x.id # 0 /\ x.stamp \in Nat
    BY <1>0, <2>1, <2>2 DEF Item, Issues
  <2>4. \A y \in page : y.stamp \in Nat /\ y.stamp <= x.stamp
    BY <1>0, <2>2, <2>3 DEF Before, Item
  <2>5. newHigh <= x.stamp
    BY <1>0, <2>2, <2>3 DEF Upto, After, Before, TypeOK, Cursor
  <2>6. QED
    BY <2>3, <2>4, <2>5 DEF Upto
<1>3. QED
  BY <1>1, <1>2

(* An item that comes after the cursor and after the whole page comes after *)
(* the cursor the page ends with.                                           *)
LEMMA EndIsBefore ==
  ASSUME HeldInv, pc = "fetched", end # NoCursor, NEW m \in Item,
         After(cursor, m), \A x \in page : Before(x, m)
  PROVE  After(end, m)
<1>0. TypeOK /\ end \in EndCursors(page)
  BY DEF HeldInv, TypeInv, InHand
<1>1. CASE page = {}
  <2>1. PICK t \in 1..2 : end = [cursor EXCEPT !.tag = t]
    BY <1>0, <1>1 DEF EndCursors
  <2>2. end.id = cursor.id /\ end.stamp = cursor.stamp
    BY <1>0, <2>1 DEF TypeOK, Cursor
  <2>3. QED
    BY <2>2 DEF After, Before
<1>2. CASE page # {}
  <2>1. PICK x \in Lasts(page) : end = [stamp |-> x.stamp, id |-> x.id, tag |-> 1]
    BY <1>0, <1>2 DEF EndCursors
  <2>2. Before(x, m) /\ end.stamp = x.stamp /\ end.id = x.id
    BY <2>1 DEF Lasts
  <2>3. QED
    BY <2>2 DEF After, Before
<1>3. QED
  BY <1>1, <1>2

(* What is after the cursor is stamped no earlier than the mark.            *)
LEMMA MarkBelow ==
  ASSUME Ascending, TypeOK, Upto(newHigh, cursor), NEW m \in Item,
         After(cursor, m)
  PROVE  newHigh <= m.stamp
BY DEF Upto, After, Before, TypeOK, Cursor, Item
-----------------------------------------------------------------------------
(* What the steps do.                                                       *)

(* The clock, and what happens in Linear.                                   *)
Outside == UNCHANGED vars \/ Tick \/ \E j \in Issues : Update(j) \/ Leave(j)

(* They leave the run alone.                                                *)
LEMMA OutsideStep ==
  ASSUME Outside
  PROVE  UNCHANGED <<archive, delivered, hwm, run, pc, loop, hand, floor, long,
                     cut>>
BY DEF Outside, vars, Tick, Update, Leave, claim

(* What the tail loop does with a page: it saves, or goes on with all of it.*)
LEMMA PageStep ==
  ASSUME IngestPage
  PROVE  /\ pc = "fetched" /\ UNCHANGED <<linear, hwm, claim>>
         /\ \E K \in Kept(page) :
              /\ Ingested(K) /\ HandedOn(K)
              /\ \/ Finish
                 \/ /\ pc' = "save" /\ newHigh' \in HighOf(K, newHigh)
                    /\ page' = page \ K
                    /\ UNCHANGED <<run, hasNext>>
                 \/ /\ pc' = "page" /\ newHigh' \in HighOf(K, newHigh)
                    /\ page \ K = {} /\ end # NoCursor /\ cursor' = end
                    /\ hasNext /\ UNCHANGED <<run, hasNext>>
BY DEF IngestPage, Turn, GoesOn, Stops

(* Of the end of a streamed page: it saves, or goes on with a whole page.   *)
LEMMA EndPageStep ==
  ASSUME StreamEndPage
  PROVE  /\ pc = "deliver" /\ todo = {}
         /\ UNCHANGED <<linear, archive, hwm, claim>>
         /\ \/ Finish
            \/ /\ pc' = "save" /\ newHigh' = pageHigh
               /\ UNCHANGED <<run, page, hasNext>>
            \/ /\ pc' = "page" /\ newHigh' = pageHigh
               /\ page = {} /\ end # NoCursor /\ cursor' = end
               /\ hasNext /\ UNCHANGED <<run, hasNext>>
BY DEF StreamEndPage, Turn, GoesOn, Stops

(* What a run fixed when it started stays until it is over.                 *)
LEMMA RunKept ==
  ASSUME [Next]_vars
  PROVE  (\E m, c, s : Start(m, c, s)) \/ pc' = "idle" \/ UNCHANGED run
<1>1. CASE Outside
  BY <1>1, OutsideStep
<1>2. CASE RunStep
  BY <1>2, FinishClears, PageStep, EndPageStep
     DEF RunStep, Fetch, PagesUsedUp, BudgetExceeded, StreamIngestPage,
         OnIssue, SaveMark
<1>3. CASE RunFails
  BY <1>3, FinishClears DEF RunFails
<1>4. QED
  BY <1>1, <1>2, <1>3 DEF Next, Outside, Resume, StartResume, StartSince
-----------------------------------------------------------------------------
(* What is handed on.                                                       *)

(* A step hands on what the archive has by then, or nothing.                *)
LEMMA DeliveredMoves ==
  ASSUME TypeOK, Handed, [Next]_vars, NEW i \in Issues
  PROVE  delivered'[i] = delivered[i] \/ delivered'[i] = archive'[i]
<1>1. CASE UNCHANGED delivered
  BY <1>1
<1>2. CASE IngestPage
  <2>1. PICK K \in Kept(page) : HandedOn(K)
    BY <1>2 DEF IngestPage
  <2>2. QED
    BY <2>1 DEF HandedOn
<1>3. CASE OnIssue
  <2>1. PICK x \in todo : delivered' = [delivered EXCEPT ![x.id] = x.ver]
    BY <1>3 DEF OnIssue
  <2>2. pc = "deliver" /\ UNCHANGED archive
    BY <1>3 DEF OnIssue
  <2>3. x.ver = archive[x.id]
    BY <2>2 DEF Handed
  <2>4. QED
    BY <2>1, <2>2, <2>3 DEF TypeOK
<1>4. CASE Outside
  BY <1>1, <1>4, OutsideStep
<1>5. CASE Resume \/ (\E m \in Modes, c \in Caps, s \in 0..clock : StartSince(m, c, s))
  BY <1>1, <1>5 DEF Resume, StartResume, StartSince, Start
<1>6. CASE RunFails \/ (RunStep /\ ~IngestPage /\ ~OnIssue)
  BY <1>1, <1>6 DEF RunFails, RunStep, Fetch, PagesUsedUp, BudgetExceeded,
                    StreamIngestPage, StreamEndPage, SaveMark
<1>7. QED
  BY <1>2, <1>3, <1>4, <1>5, <1>6 DEF Next, Outside

(* Nothing is handed on that was not ingested first.                        *)
LEMMA HandedStep == HeldInv /\ Handed /\ [Next]_vars => Handed'
<1> SUFFICES ASSUME HeldInv, Handed, [Next]_vars
             PROVE  Handed'
  OBVIOUS
<1>0. TypeOK /\ TypeOK'
  BY TypeStep DEF HeldInv, TypeInv
<1>1. ASSUME NEW i \in Issues
      PROVE  delivered'[i] <= archive'[i]
  <2>1. /\ delivered[i] \in Nat /\ archive[i] \in Nat /\ archive'[i] \in Nat
        /\ delivered[i] <= archive[i]
    BY <1>0 DEF TypeOK, Handed
  <2>2. QED
    BY <1>0, <2>1, ArchiveGrows, DeliveredMoves
<1>2. ASSUME pc' = "deliver", NEW x \in todo'
      PROVE  x.ver = archive'[x.id]
  <2>1. CASE StreamIngestPage
    <3>1. PICK K \in Kept(page) : Ingested(K) /\ todo' = K
      BY <2>1 DEF StreamIngestPage
    <3>2. QED
      BY <1>2, <2>1, <3>1, IngestAdvances DEF StreamIngestPage
  <2>2. CASE pc = "deliver" /\ todo' \subseteq todo /\ UNCHANGED archive
    BY <1>2, <2>2 DEF Handed
  <2>3. CASE Outside
    BY <1>2, <2>2, <2>3, OutsideStep DEF hand
  <2>4. CASE OnIssue
    BY <2>2, <2>4 DEF OnIssue
  <2>5. ~(Resume \/ RunFails
          \/ \E m \in Modes, c \in Caps, s \in 0..clock : StartSince(m, c, s))
    BY <1>2 DEF Resume, StartResume, StartSince, Start, RunFails, Finish
  <2>6. ~(RunStep /\ ~StreamIngestPage /\ ~OnIssue)
    BY <1>2 DEF RunStep, Fetch, PagesUsedUp, BudgetExceeded, IngestPage,
                StreamEndPage, SaveMark, Finish, Turn
  <2>7. QED
    BY <2>1, <2>3, <2>4, <2>5, <2>6 DEF Next, Outside
<1>3. QED
  BY <1>1, <1>2 DEF Handed

(* Only an issue that leaves changes what has left.                         *)
LEMMA GoneMoves ==
  ASSUME [Next]_vars
  PROVE  UNCHANGED gone \/ \E j \in Issues : Leave(j)
<1>1. CASE UNCHANGED vars \/ Tick \/ \E j \in Issues : Update(j)
  BY <1>1 DEF vars, linear, Tick, Update
<1>2. CASE RunStep
  BY <1>2 DEF RunStep, Fetch, PagesUsedUp, BudgetExceeded, IngestPage,
              StreamIngestPage, OnIssue, StreamEndPage, SaveMark, linear
<1>3. CASE RunFails \/ \E m, c, t : Start(m, c, t)
  BY <1>3 DEF RunFails, Start, linear
<1>4. QED
  BY <1>1, <1>2, <1>3 DEF Next, Resume, StartResume, StartSince

(* What is not handed on was not before, unless Linear updated it.          *)
LEMMA StillUndelivered ==
  ASSUME HeldInv, Handed, [Next]_vars, UNCHANGED ver,
         NEW i \in Issues, Undelivered(i)'
  PROVE  Undelivered(i)
<1>1. TypeOK /\ TypeOK' /\ archive'[i] <= ver'[i]
  BY HeldStep DEF HeldInv, TypeInv, NothingNewer
<1>2. /\ delivered[i] \in Nat /\ archive[i] \in Nat /\ archive'[i] \in Nat
      /\ ver[i] \in Nat /\ ver'[i] = ver[i] /\ delivered'[i] # ver[i]
  BY <1>1 DEF TypeOK, Undelivered
<1>3. delivered[i] <= archive[i] /\ archive[i] <= archive'[i]
  BY ArchiveGrows DEF Handed
<1>4. delivered'[i] = delivered[i] \/ delivered'[i] = archive'[i]
  BY <1>1, DeliveredMoves
<1>5. i \notin gone
  BY GoneMoves DEF Undelivered, Leave
<1>6. QED
  BY <1>1, <1>2, <1>3, <1>4, <1>5 DEF Undelivered

-----------------------------------------------------------------------------
(* The mark of a run keeps up with its cursor.                              *)

(* The mark is never ahead of the cursor the next request starts from.      *)
LEMMA MarkStep ==
  ASSUME Ascending, HeldInv, MarkAtCursor, [Next]_vars
  PROVE  MarkAtCursor'
<1>0. TypeOK /\ TypeOK'
  BY TypeStep DEF HeldInv, TypeInv
<1>1. CASE Outside
  BY <1>1, OutsideStep DEF loop, hand, MarkAtCursor, Upto
<1>2. ASSUME NEW m, NEW c, NEW s, Start(m, c, s)
      PROVE  MarkAtCursor'
  BY <1>2 DEF Start, ClearLoop, NoMark, NoCursor, MarkAtCursor, Upto
<1>3. CASE pc' \in {"idle", "save"}
  BY <1>3 DEF MarkAtCursor
<1>4. CASE Fetch
  BY <1>4 DEF Fetch, MarkAtCursor, Upto
<1>5. CASE IngestPage /\ pc' \notin {"idle", "save"}
  <2>1. PICK K \in Kept(page) :
          /\ pc' = "page" /\ newHigh' \in HighOf(K, newHigh)
          /\ page \ K = {} /\ end # NoCursor /\ cursor' = end
    BY <1>5, PageStep, FinishClears
  <2>2. pc = "fetched" /\ K \subseteq page /\ K \subseteq Item
    BY <1>0, <1>5, KeptIsPart, PageStep DEF HeldInv, TypeOK
  <2>3. Upto(newHigh, end) /\ \A y \in page : Upto(y.stamp, end)
    BY <2>1, <2>2, EndIsLatest
  <2>4. newHigh' = newHigh \/ \E x \in K : newHigh' = x.stamp
    BY <1>0, <2>1, <2>2, HighOfIsHighest DEF TypeOK
  <2>5. Upto(newHigh', end)
    BY <2>2, <2>3, <2>4
  <2>6. QED
    BY <2>1, <2>5 DEF MarkAtCursor, Upto
<1>6. CASE StreamIngestPage
  <2>1. PICK K \in Kept(page) : todo' = K /\ page' = page \ K
    BY <1>6 DEF StreamIngestPage
  <2>2. /\ pc = "fetched" /\ pc' = "deliver" /\ pageHigh' = newHigh
        /\ UNCHANGED end /\ K \subseteq page
    BY <1>6, KeptIsPart DEF StreamIngestPage, HeldInv
  <2>3. CASE page' = {} /\ end # NoCursor
    <3>1. Upto(newHigh, end) /\ \A y \in page : Upto(y.stamp, end)
      BY <2>2, <2>3, EndIsLatest
    <3>2. QED
      BY <2>1, <2>2, <3>1 DEF MarkAtCursor, Upto
  <2>4. QED
    BY <2>2, <2>3 DEF MarkAtCursor
<1>7. CASE OnIssue
  <2>1. PICK x \in todo : todo' = todo \ {x} /\ pageHigh' \in HighOf({x}, pageHigh)
    BY <1>7 DEF OnIssue
  <2>2. pageHigh' = pageHigh \/ pageHigh' = x.stamp
    BY <1>0, <2>1, HighOfIsHighest DEF TypeOK
  <2>3. pc = "deliver" /\ pc' = "deliver" /\ UNCHANGED <<page, end>>
    BY <1>7 DEF OnIssue
  <2>4. QED
    BY <2>1, <2>2, <2>3 DEF MarkAtCursor, Upto
<1>8. CASE StreamEndPage /\ pc' \notin {"idle", "save"}
  <2>1. /\ pc = "deliver" /\ pc' = "page" /\ newHigh' = pageHigh /\ page = {}
        /\ end # NoCursor /\ cursor' = end
    BY <1>8, EndPageStep, FinishClears
  <2>2. QED
    BY <2>1 DEF MarkAtCursor, Upto
<1>9. CASE PagesUsedUp \/ BudgetExceeded \/ SaveMark \/ RunFails
  BY <1>3, <1>9, FinishClears
     DEF PagesUsedUp, BudgetExceeded, SaveMark, RunFails
<1>10. QED
  BY <1>1, <1>2, <1>3, <1>4, <1>5, <1>6, <1>7, <1>8, <1>9
     DEF Next, Outside, Resume, StartResume, StartSince, RunStep
-----------------------------------------------------------------------------
(* Oldest first: a missed issue stays ahead of the run.                     *)

(* No step of a run makes an issue missed: Linear stamps its updates later. *)
LEMMA MissedBefore ==
  ASSUME HeldInv, Handed, Clocked, [Next]_vars, UNCHANGED run,
         NEW i \in Issues, Missed(i)'
  PROVE  Missed(i) /\ stamp'[i] = stamp[i] /\ Listed(i)' = Listed(i)
<1>0. TypeOK /\ TypeOK'
  BY TypeStep DEF HeldInv, TypeInv
<1>1. since <= stamp'[i] /\ stamp'[i] < started /\ Undelivered(i)'
  BY DEF Missed, run
<1>2. CASE \E j \in Issues : Update(j)
  <2>1. PICK j \in Issues : Update(j)
    BY <1>2
  <2>2. i # j
    <3>1. SUFFICES ASSUME i = j
                   PROVE  FALSE
      OBVIOUS
    <3>2. stamp'[i] = clock
      BY <1>0, <2>1, <3>1 DEF Update, TypeOK
    <3>3. started <= clock /\ started \in Nat /\ clock \in Nat
      BY <1>0 DEF Clocked, TypeOK
    <3>4. QED
      BY <1>1, <3>2, <3>3
  <2>3. /\ ver'[i] = ver[i] /\ stamp'[i] = stamp[i]
        /\ delivered'[i] = delivered[i] /\ gone' = gone
    BY <1>0, <2>1, <2>2 DEF Update, TypeOK
  <2>4. QED
    BY <1>1, <2>3 DEF Missed, Undelivered, Listed
<1>3. CASE ~ \E j \in Issues : Update(j)
  <2>1. UNCHANGED <<ver, stamp>>
    BY <1>0, <1>3, VersionsGrow
  <2>2. Undelivered(i)
    BY <1>1, <2>1, StillUndelivered
  <2>3. QED
    BY <1>1, <2>1, <2>2 DEF Missed, Listed
<1>4. QED
  BY <1>2, <1>3

(* What the tail loop ingests is handed on as it stands.                     *)
LEMMA IngestHandsOn ==
  ASSUME HeldInv, pc = "fetched", NEW K \in Kept(page),
         Ingested(K), HandedOn(K), UNCHANGED linear,
         NEW i \in Issues, Undelivered(i)'
  PROVE  Listed(i) \notin K
<1>1. SUFFICES ASSUME Listed(i) \in K PROVE FALSE
  OBVIOUS
<1>2. Listed(i).id = i /\ Listed(i).ver = ver[i]
  BY DEF Listed
<1>3. archive'[i] = ver[i]
  BY <1>1, <1>2, IngestAdvances
<1>4. delivered'[i] = archive'[i]
  BY <1>1, <1>2 DEF HandedOn
<1>5. QED
  BY <1>3, <1>4 DEF Undelivered, linear

(* Where a missed issue is when its run's page is ingested: in the part     *)
(* kept, or no earlier than all of it, and no earlier than the mark.        *)
LEMMA MissedAtIngest ==
  ASSUME Ascending, HeldInv, MarkAtCursor, Ahead, pc = "fetched",
         NEW K \in Kept(page), NEW i \in Issues, Missed(i)
  PROVE  /\ newHigh <= stamp[i]
         /\ Listed(i) \notin K =>
              /\ \A x \in K : x.stamp <= stamp[i]
              /\ page \ K = {} /\ end # NoCursor => After(end, Listed(i))
<1> DEFINE L == Listed(i)
<1>0. /\ TypeOK /\ page \subseteq Item /\ K \subseteq page /\ IsPrefix(K, page)
      /\ Upto(newHigh, cursor)
  BY KeptIsPart DEF HeldInv, TypeInv, TypeOK, MarkAtCursor
<1>1. L \in Item /\ L.stamp = stamp[i]
  BY <1>0 DEF Listed, Item, TypeOK
<1>2. After(cursor, L)
  BY DEF Ahead, AheadOfRun, HeldInv, InHand
<1>3. newHigh <= stamp[i]
  BY <1>0, <1>1, <1>2, MarkBelow
<1>4. SUFFICES ASSUME L \notin K
               PROVE  /\ \A x \in K : x.stamp <= stamp[i]
                      /\ page \ K = {} /\ end # NoCursor => After(end, L)
  BY <1>3
<1>5. \A x \in K : Before(x, L)
  <2>1. CASE L \in page
    BY <1>0, <1>4, <2>1 DEF IsPrefix
  <2>2. CASE L \notin page
    BY <1>0, <2>2 DEF Ahead, AheadOfRun
  <2>3. QED
    BY <2>1, <2>2
<1>6. \A x \in K : x.stamp <= stamp[i]
  BY <1>0, <1>1, <1>5 DEF Before, Item
<1>7. ASSUME page \ K = {}, end # NoCursor
      PROVE  After(end, L)
  <2>1. \A x \in page : Before(x, L)
    BY <1>5, <1>7
  <2>2. QED
    BY <1>1, <1>2, <1>7, <2>1, EndIsBefore
<1>8. QED
  BY <1>6, <1>7

(* A request brings the issues in order: one it leaves out is after those.  *)
LEMMA FetchInOrder ==
  ASSUME TypeOK, Fetch, NEW i \in Issues \ gone, ver[i] > 0,
         since <= stamp[i], After(cursor, Listed(i))
  PROVE  \/ Listed(i) \in page'
         \/ hasNext' /\ \A x \in page' : Before(x, Listed(i))
<1>1. PICK P \in SUBSET Remaining : /\ page' = P /\ IsPrefix(P, Remaining)
                                     /\ hasNext' = (P # Remaining)
  BY DEF Fetch
<1>2. Listed(i).stamp = stamp[i] /\ Listed(i).ver = ver[i]
  BY DEF Listed
<1>3. Listed(i) \in Remaining
  BY <1>2 DEF Remaining, TypeOK
<1>4. QED
  BY <1>1, <1>3 DEF IsPrefix

(* So it is of an issue that is not handed on: Linear has it.               *)
LEMMA FetchLeavesAhead ==
  ASSUME HeldInv, Handed, Fetch, NEW i \in Issues, Undelivered(i),
         since <= stamp[i], After(cursor, Listed(i))
  PROVE  \/ Listed(i) \in page'
         \/ hasNext' /\ \A x \in page' : Before(x, Listed(i))
<1>1. TypeOK /\ ver[i] > 0 /\ i \notin gone
  BY DEF HeldInv, TypeInv, NothingNewer, Handed, Undelivered, TypeOK
<1>2. QED
  BY <1>1, FetchInOrder

(* Each step leaves what is missed ahead of the run.                        *)
LEMMA AheadStep ==
  ASSUME Ascending, HeldInv, Handed, Clocked, MarkAtCursor, Ahead, [Next]_vars
  PROVE  Ahead'
<1>0. TypeOK /\ TypeOK'
  BY TypeStep DEF HeldInv, TypeInv
<1>1. ASSUME NEW m, NEW c, NEW s, Start(m, c, s)
      PROVE  Ahead'
  BY <1>1 DEF Start, ClearLoop, NoCursor, Ahead, AheadOfRun, After
<1>2. CASE pc' = "idle"
  BY <1>2 DEF Ahead, AheadOfRun
<1>3. ASSUME UNCHANGED run, NEW i \in Issues, Missed(i)'
      PROVE  AheadOfRun(i)'
  <2> DEFINE L == Listed(i)
  <2>1. Missed(i) /\ stamp'[i] = stamp[i] /\ L' = L /\ Undelivered(i)'
    BY <1>3, MissedBefore DEF Missed
  <2>2. /\ L \in Item /\ L.stamp = stamp[i] /\ stamp[i] \in Nat
        /\ AheadOfRun(i)
    BY <1>0, <2>1 DEF Listed, Item, TypeOK, Ahead
  <2>3. CASE Outside
    <3>1. UNCHANGED <<pc, cursor, newHigh, page, end, todo, pageHigh>>
      BY <2>3, OutsideStep DEF loop, hand
    <3>2. QED
      BY <2>1, <2>2, <3>1 DEF AheadOfRun, After, Before
  <2>4. CASE Fetch
    <3>1. pc = "page" /\ pc' = "fetched" /\ UNCHANGED cursor
      BY <2>4 DEF Fetch
    <3>2. After(cursor, L)
      BY <2>2, <3>1 DEF AheadOfRun
    <3>3. L \in page' \/ \A x \in page' : Before(x, L)
      BY <2>1, <2>4, <3>2, FetchLeavesAhead DEF Missed
    <3>4. QED
      BY <2>1, <3>1, <3>2, <3>3 DEF AheadOfRun, After, Before
  <2>5. CASE PagesUsedUp
    <3>1. pc = "page" /\ pc' = "save" /\ UNCHANGED newHigh
      BY <2>5 DEF PagesUsedUp, loop
    <3>2. newHigh <= stamp[i]
      BY <1>0, <2>2, <3>1, MarkBelow DEF AheadOfRun, MarkAtCursor
    <3>3. QED
      BY <2>1, <3>1, <3>2 DEF AheadOfRun
  <2>6. CASE IngestPage /\ pc' # "idle"
    <3>1. PICK K \in Kept(page) :
            /\ Ingested(K) /\ HandedOn(K)
            /\ \/ pc' = "save" /\ newHigh' \in HighOf(K, newHigh)
               \/ /\ pc' = "page"
                  /\ page \ K = {} /\ end # NoCursor /\ cursor' = end
      BY <2>6, PageStep, FinishClears
    <3>2. pc = "fetched" /\ UNCHANGED linear
      BY <2>6, PageStep
    <3>3. /\ newHigh <= stamp[i] /\ \A x \in K : x.stamp <= stamp[i]
          /\ page \ K = {} /\ end # NoCursor => After(end, L)
      BY <2>1, <3>1, <3>2, IngestHandsOn, MissedAtIngest
    <3>4. CASE pc' = "save" /\ newHigh' \in HighOf(K, newHigh)
      <4>1. K \subseteq Item
        BY <1>0, KeptIsPart DEF HeldInv, TypeOK
      <4>2. newHigh' <= stamp[i]
        BY <1>0, <3>3, <3>4, <4>1, HighOfIsHighest DEF TypeOK
      <4>3. QED
        BY <2>1, <3>4, <4>2 DEF AheadOfRun
    <3>5. CASE pc' = "page" /\ page \ K = {} /\ end # NoCursor /\ cursor' = end
      BY <2>1, <3>3, <3>5 DEF AheadOfRun, After, Before
    <3>6. QED
      BY <3>1, <3>4, <3>5
  <2>7. CASE StreamIngestPage
    <3>1. PICK K \in Kept(page) : todo' = K /\ page' = page \ K
      BY <2>7 DEF StreamIngestPage
    <3>2. /\ pc = "fetched" /\ pc' = "deliver" /\ pageHigh' = newHigh
          /\ UNCHANGED end
      BY <2>7 DEF StreamIngestPage
    <3>3. /\ newHigh <= stamp[i]
          /\ L \notin K =>
               /\ \A x \in K : x.stamp <= stamp[i]
               /\ page \ K = {} /\ end # NoCursor => After(end, L)
      BY <2>1, <3>1, <3>2, MissedAtIngest
    <3>4. QED
      BY <2>1, <3>1, <3>2, <3>3 DEF AheadOfRun, After, Before
  <2>8. CASE OnIssue
    <3>1. PICK x \in todo :
            /\ \A y \in todo \ {x} : Before(x, y)
            /\ delivered' = [delivered EXCEPT ![x.id] = x.ver]
            /\ todo' = todo \ {x}
            /\ pageHigh' \in HighOf({x}, pageHigh)
      BY <2>8 DEF OnIssue
    <3>2. /\ pc = "deliver" /\ pc' = "deliver" /\ UNCHANGED <<page, end, ver>>
      BY <2>8 DEF OnIssue, linear
    <3>3. pageHigh' = pageHigh \/ pageHigh' = x.stamp
      BY <1>0, <3>1, HighOfIsHighest DEF TypeOK
    <3>4. x # L
      <4>1. delivered'[i] # ver[i]
        BY <2>1, <3>2 DEF Undelivered
      <4>2. L.id = i /\ L.ver = ver[i]
        BY DEF Listed
      <4>3. delivered'[x.id] = x.ver
        BY <1>0, <3>1 DEF TypeOK, Item
      <4>4. QED
        BY <4>1, <4>2, <4>3
    <3>5. x.stamp <= stamp[i]
      <4>1. x \in Item
        BY <1>0 DEF TypeOK
      <4>2. L \in todo => x.stamp <= L.stamp
        BY <2>2, <3>1, <3>4, <4>1 DEF Before, Item
      <4>3. QED
        BY <2>2, <3>2, <4>2 DEF AheadOfRun
    <3>6. QED
      BY <2>1, <2>2, <3>1, <3>2, <3>3, <3>4, <3>5 DEF AheadOfRun, After, Before
  <2>9. CASE StreamEndPage /\ pc' # "idle"
    <3>1. /\ pc = "deliver" /\ todo = {}
          /\ \/ pc' = "save" /\ newHigh' = pageHigh
             \/ pc' = "page" /\ page = {} /\ end # NoCursor /\ cursor' = end
      BY <2>9, EndPageStep, FinishClears
    <3>2. QED
      BY <2>1, <2>2, <3>1 DEF AheadOfRun, After, Before
  <2>10. CASE pc' = "idle"
    BY <2>10 DEF AheadOfRun
  <2>11. CASE BudgetExceeded \/ SaveMark \/ RunFails
    BY <2>10, <2>11, FinishClears DEF BudgetExceeded, SaveMark, RunFails
  <2>12. CASE \E m, c, s : Start(m, c, s)
    BY <1>1, <1>3, <2>12 DEF Ahead
  <2>13. QED
    BY <2>3, <2>4, <2>5, <2>6, <2>7, <2>8, <2>9, <2>10, <2>11, <2>12
       DEF Next, Outside, Resume, StartResume, StartSince, RunStep
<1>4. (\E m, c, s : Start(m, c, s)) \/ pc' = "idle" \/ UNCHANGED run
  BY RunKept
<1>5. QED
  BY <1>1, <1>2, <1>3, <1>4 DEF Ahead
-----------------------------------------------------------------------------
(* Newest first: what is behind the run is no older than its mark.          *)

(* A run goes on to another page only when the last one said so.            *)
LEMMA MoreStep ==
  ASSUME MoreToCome, [Next]_vars
  PROVE  MoreToCome'
<1>1. SUFFICES ASSUME pc' = "page"
               PROVE  pages' = 0 \/ hasNext'
  BY DEF MoreToCome
<1>2. CASE Outside
  BY <1>1, <1>2, OutsideStep DEF loop, hand, MoreToCome
<1>3. CASE \E m, c, s : Start(m, c, s)
  BY <1>3 DEF Start, ClearLoop
<1>4. CASE IngestPage
  BY <1>1, <1>4, PageStep, FinishClears
<1>5. CASE StreamEndPage
  BY <1>1, <1>5, EndPageStep, FinishClears
<1>6. ~(RunFails \/ (RunStep /\ ~IngestPage /\ ~StreamEndPage))
  BY <1>1, FinishClears
     DEF RunFails, RunStep, Fetch, PagesUsedUp, BudgetExceeded,
         StreamIngestPage, OnIssue, SaveMark
<1>7. QED
  BY <1>2, <1>3, <1>4, <1>5, <1>6 DEF Next, Outside, Resume, StartResume, StartSince

(* What is not after the cursor is no older than what is.                   *)
LEMMA BehindCursor ==
  ASSUME ~Ascending, cursor \in Cursor, NEW x \in Item, NEW m \in Item,
         After(cursor, x), ~After(cursor, m)
  PROVE  x.stamp <= m.stamp
BY DEF After, Before, Cursor, Item

(* Where an issue is when the run's page is ingested.                       *)
LEMMA NewerAtIngest ==
  ASSUME HeldInv, pc = "fetched", NEW K \in Kept(page),
         NEW i \in Issues, AheadOrNewer(i)
  PROVE  \/ newHigh <= stamp[i] /\ \A x \in K : x.stamp <= stamp[i]
         \/ Listed(i) \in K \cup (page \ K)
         \/ /\ hasNext
            /\ page \ K = {} /\ end # NoCursor => After(end, Listed(i))
<1>0. TypeOK /\ K \subseteq page /\ Listed(i) \in Item
  BY KeptIsPart DEF HeldInv, TypeInv, TypeOK, Listed, Item
<1>1. CASE newHigh <= stamp[i] /\ \A x \in page : x.stamp <= stamp[i]
  BY <1>0, <1>1
<1>2. CASE Listed(i) \in page
  BY <1>0, <1>2
<1>3. CASE /\ hasNext /\ After(cursor, Listed(i))
           /\ \A x \in page : Before(x, Listed(i))
  BY <1>0, <1>3, EndIsBefore
<1>4. QED
  BY <1>1, <1>2, <1>3 DEF AheadOrNewer

(* Each step leaves what is older than the mark ahead of the run.           *)
LEMMA NoneOlderStep ==
  ASSUME ~Ascending, HeldInv, Handed, Clocked, MoreToCome, NoneOlder, [Next]_vars
  PROVE  NoneOlder'
<1>0. TypeOK /\ TypeOK'
  BY TypeStep DEF HeldInv, TypeInv
<1>1. ASSUME NEW m, NEW c, NEW s, Start(m, c, s)
      PROVE  NoneOlder'
  BY <1>1 DEF Start, ClearLoop, NoCursor, NoneOlder, AheadOrNewer, After
<1>2. CASE pc' = "idle"
  BY <1>2 DEF NoneOlder, AheadOrNewer
<1>3. ASSUME UNCHANGED run, NEW i \in Issues, Undelivered(i)', since <= stamp'[i]
      PROVE  AheadOrNewer(i)'
  <2> DEFINE L == Listed(i)
  <2>1. ASSUME NEW j \in Issues, Update(j)
        PROVE  AheadOrNewer(i)'
    <3>1. /\ UNCHANGED <<pc, cursor, newHigh, page, end, todo, pageHigh, hasNext>>
          /\ UNCHANGED delivered
      BY <2>1, OutsideStep DEF Outside, loop, hand
    <3>2. CASE i = j
      <4>1. stamp'[i] = clock
        BY <1>0, <2>1, <3>2 DEF Update, TypeOK
      <4>2. newHigh <= clock /\ pageHigh <= clock
            /\ \A x \in page \cup todo : x.stamp <= clock
        BY DEF Clocked
      <4>3. QED
        BY <3>1, <4>1, <4>2 DEF AheadOrNewer
    <3>3. CASE i # j
      <4>1. ver'[i] = ver[i] /\ stamp'[i] = stamp[i] /\ gone' = gone
        BY <1>0, <2>1, <3>3 DEF Update, TypeOK
      <4>2. L' = L /\ AheadOrNewer(i)
        BY <1>3, <3>1, <4>1 DEF Listed, NoneOlder, Undelivered
      <4>3. QED
        BY <3>1, <4>1, <4>2 DEF AheadOrNewer, After, Before
    <3>4. QED
      BY <3>2, <3>3
  <2>2. SUFFICES ASSUME \A j \in Issues : ~Update(j)
                 PROVE  AheadOrNewer(i)'
    BY <2>1
  <2>3. UNCHANGED <<ver, stamp>>
    BY <1>0, <2>2, VersionsGrow
  <2>4. /\ Undelivered(i) /\ since <= stamp[i] /\ stamp'[i] = stamp[i]
        /\ L' = L /\ AheadOrNewer(i) /\ L \in Item /\ L.stamp = stamp[i]
    <3>1. Undelivered(i)
      BY <1>3, <2>3, StillUndelivered
    <3>2. QED
      BY <1>0, <1>3, <2>3, <3>1 DEF NoneOlder, Listed, Item, TypeOK
  <2>5. CASE Outside
    <3>1. UNCHANGED <<pc, cursor, newHigh, page, end, todo, pageHigh, hasNext>>
      BY <2>5, OutsideStep DEF loop, hand
    <3>2. QED
      BY <2>4, <3>1 DEF AheadOrNewer, After, Before
  <2>6. CASE Fetch
    <3>1. pc = "page" /\ pc' = "fetched" /\ UNCHANGED <<cursor, newHigh>>
      BY <2>6 DEF Fetch
    <3>2. CASE After(cursor, L)
      <4>1. \/ L \in page'
            \/ hasNext' /\ \A x \in page' : Before(x, L)
        BY <2>4, <2>6, <3>2, FetchLeavesAhead
      <4>2. QED
        BY <2>4, <3>1, <3>2, <4>1 DEF AheadOrNewer, After, Before
    <3>3. CASE ~After(cursor, L)
      <4>1. newHigh <= stamp[i]
        BY <2>4, <3>1, <3>3 DEF AheadOrNewer
      <4>2. ASSUME NEW x \in page' PROVE x.stamp <= stamp[i]
        <5>1. x \in Item /\ After(cursor, x)
          BY <1>0, <2>6, FetchBringsCurrent DEF TypeOK
        <5>2. QED
          BY <1>0, <2>4, <3>3, <5>1, BehindCursor DEF TypeOK
      <4>3. QED
        BY <2>4, <3>1, <4>1, <4>2 DEF AheadOrNewer
    <3>4. QED
      BY <3>2, <3>3
  <2>7. CASE PagesUsedUp
    <3>1. pc = "page" /\ pc' = "save" /\ pages = MaxPages /\ UNCHANGED hasNext
      BY <2>7 DEF PagesUsedUp, hand
    <3>2. hasNext
      BY <3>1, SizesAssumption DEF MoreToCome
    <3>3. QED
      BY <3>1, <3>2 DEF AheadOrNewer
  <2>8. CASE IngestPage /\ pc' # "idle"
    <3>1. PICK K \in Kept(page) :
            /\ Ingested(K) /\ HandedOn(K) /\ newHigh' \in HighOf(K, newHigh)
            /\ UNCHANGED hasNext
            /\ \/ pc' = "save" /\ page' = page \ K
               \/ /\ pc' = "page" /\ hasNext
                  /\ page \ K = {} /\ end # NoCursor /\ cursor' = end
      BY <2>8, PageStep, FinishClears
    <3>2. pc = "fetched" /\ UNCHANGED linear /\ K \subseteq Item
      BY <1>0, <2>8, PageStep, KeptIsPart DEF HeldInv, TypeOK
    <3>3. L \notin K
      BY <1>3, <3>1, <3>2, IngestHandsOn
    <3>4. \/ newHigh <= stamp[i] /\ \A x \in K : x.stamp <= stamp[i]
          \/ L \in page \ K
          \/ hasNext /\ (page \ K = {} /\ end # NoCursor => After(end, L))
      BY <2>4, <3>1, <3>2, <3>3, NewerAtIngest
    <3>5. CASE newHigh <= stamp[i] /\ \A x \in K : x.stamp <= stamp[i]
      <4>1. newHigh' <= stamp[i]
        BY <1>0, <3>1, <3>2, <3>5, HighOfIsHighest DEF TypeOK
      <4>2. QED
        BY <2>4, <3>1, <4>1 DEF AheadOrNewer
    <3>6. CASE L \in page \ K
      BY <3>1, <3>6 DEF AheadOrNewer
    <3>7. CASE hasNext /\ (page \ K = {} /\ end # NoCursor => After(end, L))
      BY <2>4, <3>1, <3>7 DEF AheadOrNewer, After, Before
    <3>8. QED
      BY <3>4, <3>5, <3>6, <3>7
  <2>9. CASE StreamIngestPage
    <3>1. PICK K \in Kept(page) : todo' = K /\ page' = page \ K
      BY <2>9 DEF StreamIngestPage
    <3>2. /\ pc = "fetched" /\ pc' = "deliver" /\ pageHigh' = newHigh
          /\ UNCHANGED <<end, hasNext>>
      BY <2>9 DEF StreamIngestPage
    <3>3. \/ newHigh <= stamp[i] /\ \A x \in K : x.stamp <= stamp[i]
          \/ L \in K \cup (page \ K)
          \/ hasNext /\ (page \ K = {} /\ end # NoCursor => After(end, L))
      BY <2>4, <3>1, <3>2, NewerAtIngest
    <3>4. QED
      BY <2>4, <3>1, <3>2, <3>3 DEF AheadOrNewer, After, Before
  <2>10. CASE OnIssue
    <3>1. PICK x \in todo :
            /\ delivered' = [delivered EXCEPT ![x.id] = x.ver]
            /\ todo' = todo \ {x}
            /\ pageHigh' \in HighOf({x}, pageHigh)
      BY <2>10 DEF OnIssue
    <3>2. /\ pc = "deliver" /\ pc' = "deliver"
          /\ UNCHANGED <<page, end, ver, hasNext>>
      BY <2>10 DEF OnIssue, linear
    <3>3. pageHigh' = pageHigh \/ pageHigh' = x.stamp
      BY <1>0, <3>1, HighOfIsHighest DEF TypeOK
    <3>4. x # L
      <4>1. delivered'[i] # ver[i]
        BY <1>3, <3>2 DEF Undelivered
      <4>2. L.id = i /\ L.ver = ver[i]
        BY DEF Listed
      <4>3. delivered'[x.id] = x.ver
        BY <1>0, <3>1 DEF TypeOK, Item
      <4>4. QED
        BY <4>1, <4>2, <4>3
    <3>5. QED
      BY <2>4, <3>1, <3>2, <3>3, <3>4 DEF AheadOrNewer, After, Before
  <2>11. CASE StreamEndPage /\ pc' # "idle"
    <3>1. /\ pc = "deliver" /\ todo = {} /\ newHigh' = pageHigh
          /\ UNCHANGED hasNext
          /\ \/ pc' = "save" /\ UNCHANGED page
             \/ pc' = "page" /\ page = {} /\ end # NoCursor /\ cursor' = end
      BY <2>11, EndPageStep, FinishClears
    <3>2. QED
      BY <2>4, <3>1 DEF AheadOrNewer, After, Before
  <2>12. CASE pc' = "idle"
    BY <2>12 DEF AheadOrNewer
  <2>13. CASE BudgetExceeded \/ SaveMark \/ RunFails
    BY <2>12, <2>13, FinishClears DEF BudgetExceeded, SaveMark, RunFails
  <2>14. CASE \E m, c, s : Start(m, c, s)
    BY <1>1, <1>3, <2>14 DEF NoneOlder, run
  <2>15. QED
    BY <2>2, <2>5, <2>6, <2>7, <2>8, <2>9, <2>10, <2>11, <2>12, <2>13, <2>14
       DEF Next, Outside, Resume, StartResume, StartSince, RunStep
<1>4. (\E m, c, s : Start(m, c, s)) \/ pc' = "idle" \/ UNCHANGED run
  BY RunKept
<1>5. QED
  BY <1>1, <1>2, <1>3, <1>4 DEF NoneOlder, run
-----------------------------------------------------------------------------
(* The saved mark.                                                          *)

(* Only a save, of a mark that is not empty, moves the mark.                *)
LEMMA ClaimMoves ==
  ASSUME [Next]_vars
  PROVE  \/ UNCHANGED <<hwm, floor, long, cut>>
         \/ SaveMark /\ newHigh # NoMark
<1>1. CASE Outside
  BY <1>1, OutsideStep
<1>2. CASE RunStep
  BY <1>2, PageStep, EndPageStep
     DEF RunStep, Fetch, PagesUsedUp, BudgetExceeded, StreamIngestPage,
         OnIssue, SaveMark, claim
<1>3. CASE \E m, c, s : Start(m, c, s)
  BY <1>3 DEF Start, claim
<1>4. CASE RunFails
  BY <1>4 DEF RunFails, claim
<1>5. QED
  BY <1>1, <1>2, <1>3, <1>4 DEF Next, Outside, Resume, StartResume, StartSince

(* Whether the saved runs kept to what the direction of the listing asks of *)
(* them.                                                                    *)
Sound == IF Ascending THEN ~long ELSE ~cut

(* A mark saved under that condition is no later than what the run found    *)
(* and did not hand on.                                                     *)
LEMMA SavedBelow ==
  ASSUME HeldInv, Clocked, Ascending => Ahead, ~Ascending => NoneOlder,
         SaveMark, newHigh # NoMark, Sound',
         NEW i \in Issues, Undelivered(i), since <= stamp[i]
  PROVE  newHigh - Overlap <= stamp[i]
<1>1. /\ newHigh \in Nat /\ clock \in Nat /\ started \in Nat
      /\ stamp[i] \in Nat /\ Overlap \in Nat /\ newHigh <= clock
      /\ long \in BOOLEAN /\ cut \in BOOLEAN /\ hasNext \in BOOLEAN
  BY SizesAssumption DEF HeldInv, TypeInv, TypeOK, Clocked
<1>2. /\ pc = "save" /\ long' = (long \/ clock - started > Overlap)
      /\ cut' = (cut \/ hasNext \/ page # {})
  BY DEF SaveMark
<1>3. CASE Ascending
  <2>1. ~(long \/ clock - started > Overlap)
    BY <1>2, <1>3, Zenon DEF Sound
  <2>2. CASE started <= stamp[i]
    BY <1>1, <2>1, <2>2
  <2>3. CASE stamp[i] < started
    <3>1. newHigh <= stamp[i]
      BY <1>2, <1>3, <2>3 DEF Ahead, AheadOfRun, Missed
    <3>2. QED
      BY <1>1, <3>1
  <2>4. QED
    BY <1>1, <2>2, <2>3
<1>4. CASE ~Ascending
  <2>1. ~(cut \/ hasNext \/ page # {})
    BY <1>2, <1>4, Zenon DEF Sound
  <2>2. newHigh <= stamp[i]
    BY <1>2, <1>4, <2>1 DEF NoneOlder, AheadOrNewer
  <2>3. QED
    BY <1>1, <2>2
<1>5. QED
  BY <1>3, <1>4

(* Saving a mark leaves nothing it vouches for below the next --resume.     *)
LEMMA LosesStep ==
  ASSUME HeldInv, Clocked, Handed, Ascending => Ahead, ~Ascending => NoneOlder,
         StreamLosesNothing, [Next]_vars
  PROVE  StreamLosesNothing'
<1>0. TypeOK /\ TypeOK'
  BY TypeStep DEF HeldInv, TypeInv
<1>1. SUFFICES ASSUME Sound', NEW i \in Issues, Covered(i)', Undelivered(i)'
               PROVE  stamp'[i] >= ApplyOverlap(hwm)'
  BY DEF StreamLosesNothing, Sound, Undelivered
<1>2. /\ hwm \in Nat /\ clock \in Nat /\ stamp[i] \in Nat /\ Overlap \in Nat
      /\ stamp'[i] \in Nat /\ newHigh \in Nat
      /\ since \in Int /\ floor \in Int
      /\ long \in BOOLEAN /\ cut \in BOOLEAN
      /\ hwm <= clock /\ newHigh <= clock
  BY <1>0, SizesAssumption DEF TypeOK, Clocked
<1>3. ASSUME Sound, Covered(i), Undelivered(i)
      PROVE  stamp[i] >= ApplyOverlap(hwm)
  BY <1>3 DEF StreamLosesNothing, Sound, Undelivered
<1>4. ASSUME NEW j \in Issues, Update(j)
      PROVE  stamp'[i] >= ApplyOverlap(hwm)'
  <2>1. UNCHANGED <<hwm, floor, long, cut, delivered, gone>>
    BY <1>4 DEF Update, claim
  <2>2. CASE i = j
    <3>1. stamp'[i] = clock
      BY <1>0, <1>4, <2>2 DEF Update, TypeOK
    <3>2. QED
      BY <1>2, <2>1, <3>1 DEF ApplyOverlap
  <2>3. CASE i # j
    <3>1. ver'[i] = ver[i] /\ stamp'[i] = stamp[i]
      BY <1>0, <1>4, <2>3 DEF Update, TypeOK
    <3>2. Sound /\ Covered(i) /\ Undelivered(i)
      BY <1>1, <2>1, <3>1 DEF Sound, Covered, Undelivered
    <3>3. QED
      BY <1>3, <2>1, <3>1, <3>2 DEF ApplyOverlap
  <2>4. QED
    BY <2>2, <2>3
<1>5. SUFFICES ASSUME \A j \in Issues : ~Update(j)
               PROVE  stamp'[i] >= ApplyOverlap(hwm)'
  BY <1>4
<1>6. UNCHANGED <<ver, stamp>> /\ Undelivered(i)
  <2>1. UNCHANGED <<ver, stamp>>
    BY <1>0, <1>5, VersionsGrow
  <2>2. QED
    BY <1>1, <2>1, StillUndelivered
<1>7. CASE UNCHANGED <<hwm, floor, long, cut>>
  <2>1. Sound /\ Covered(i)
    BY <1>1, <1>6, <1>7 DEF Sound, Covered
  <2>2. QED
    BY <1>3, <1>6, <1>7, <2>1 DEF ApplyOverlap
<1>8. CASE SaveMark /\ newHigh # NoMark
  <2>1. /\ hwm' = newHigh /\ floor' = NewFloor
        /\ long' = (long \/ clock - started > Overlap)
        /\ cut' = (cut \/ hasNext \/ page # {})
    BY <1>8 DEF SaveMark
  <2>2. Sound
    <3>1. long => long'
      BY <2>1, Zenon
    <3>2. cut => cut'
      BY <2>1, Zenon
    <3>3. QED
      BY <1>1, <3>1, <3>2, Zenon DEF Sound
  <2>3. stamp[i] >= NewFloor
    BY <1>1, <1>6, <2>1 DEF Covered
  <2>4. CASE since <= stamp[i]
    BY <1>1, <1>2, <1>6, <1>8, <2>1, <2>4, SavedBelow DEF ApplyOverlap
  <2>5. CASE stamp[i] < since
    <3>1. hwm # NoMark /\ since <= ApplyOverlap(hwm) /\ stamp[i] >= floor
      BY <1>2, <2>3, <2>5 DEF NewFloor, ApplyOverlap
    <3>2. stamp[i] >= ApplyOverlap(hwm)
      BY <1>3, <1>6, <2>2, <3>1 DEF Covered
    <3>3. QED
      BY <1>2, <2>5, <3>1, <3>2 DEF ApplyOverlap
  <2>6. QED
    BY <1>2, <2>4, <2>5
<1>9. QED
  BY <1>5, <1>7, <1>8, ClaimMoves

(* The inductive invariant: an issue a run found and has not handed on is   *)
(* ahead of it or no older than its mark, so the mark it saves is below.    *)
LEMMA IInvStep == IInv /\ [Next]_vars => IInv'
BY HeldStep, ClockStep, HandedStep, MoreStep, MarkStep, AheadStep,
   NoneOlderStep, LosesStep DEF IInv

(* It holds of a fresh archive.                                             *)
LEMMA IInvInit == Init => IInv
<1> SUFFICES ASSUME Init
             PROVE  IInv
  OBVIOUS
<1>1. Clocked /\ Handed /\ MoreToCome
  BY DEF Init, Clocked, NoMark, Handed, MoreToCome
<1>2. MarkAtCursor /\ Ahead
  BY DEF Init, MarkAtCursor, Ahead, AheadOfRun, Upto, NoCursor, NoMark
<1>3. NoneOlder
  BY DEF Init, NoneOlder, AheadOrNewer
<1>4. StreamLosesNothing
  BY DEF Init, StreamLosesNothing, Covered
<1>5. QED
  BY <1>1, <1>2, <1>3, <1>4, HeldInit DEF IInv

(* A version a run pulled and did not hand on, because a callback failed or *)
(* the process died, is inside what the next `sync --resume` asks for,      *)
(* whatever the server pages, wherever runs of either kind stop, and        *)
(* however Linear is updated meanwhile: in ascending order as long as no    *)
(* saved run outlasted the overlap, in descending order as long as every    *)
(* saved run reached the last page.                                         *)
THEOREM NothingIsLost == Spec => []StreamLosesNothing
<1>1. IInv => StreamLosesNothing
  BY DEF IInv
<1>2. IInv /\ [Next]_vars => IInv'
  BY IInvStep
<1>3. QED
  BY <1>1, <1>2, IInvInit, PTL DEF Spec

(* No update escapes between runs, under the same conditions: an issue the  *)
(* saved mark vouches for and the archive does not hold as it stands is     *)
(* inside what the next `sync --resume` asks for.                           *)
THEOREM NothingEscapes == Spec => []NoEscape
<1>1. IInv => NoEscape
  <2>1. SUFFICES ASSUME IInv, NEW i \in Issues, Behind(i)
                 PROVE  Undelivered(i)
    BY DEF IInv, NoEscape, StreamLosesNothing, Undelivered
  <2>2. /\ delivered[i] \in Nat /\ archive[i] \in Nat /\ ver[i] \in Nat
        /\ delivered[i] <= archive[i] /\ archive[i] <= ver[i]
    BY <2>1 DEF IInv, HeldInv, TypeInv, TypeOK, Handed, NothingNewer
  <2>3. QED
    BY <2>1, <2>2 DEF Behind, Undelivered
<1>2. IInv /\ [Next]_vars => IInv'
  BY IInvStep
<1>3. QED
  BY <1>1, <1>2, IInvInit, PTL DEF Spec
-----------------------------------------------------------------------------
(* A full resume keeps the mark: the issue that set it, or one updated      *)
(* since, is still ahead of the run or has been pulled by it.               *)

(* An issue that is still listed and no older than the mark.                *)
HoldsMark(j) == j \notin gone /\ ver[j] > 0 /\ hwm <= stamp[j]

(* There is one, until such an issue leaves.                                *)
MarkHeld ==
  /\ \A j \in Issues : stamp[j] > 0 => ver[j] > 0
  /\ hwm # NoMark /\ ~away => \E j \in Issues : HoldsMark(j)

(* Without --max-issues a run takes what its cursor has passed.             *)
CursorPulled ==
  cap = 0 =>
    /\ pc \in {"page", "fetched"} /\ cursor.id # 0 => cursor.stamp <= newHigh
    /\ pc = "deliver" =>
         /\ page = {}
         /\ end.id # 0 =>
              end.stamp <= pageHigh \/ \E y \in todo : end.stamp <= y.stamp

AfterPage(j) ==
  After(cursor, Listed(j)) /\ \A x \in page : Before(x, Listed(j))
AfterEnd(j) == end = NoCursor \/ After(end, Listed(j))

(* Where the mark is: pulled, in hand, or ahead of the run.                 *)
MarkAhead ==
  /\ pc = "page" =>
       \/ hwm <= newHigh
       \/ \E j \in Issues : HoldsMark(j) /\ After(cursor, Listed(j))
  /\ pc = "fetched" =>
       \/ hwm <= newHigh
       \/ \E x \in page : hwm <= x.stamp
       \/ hasNext /\ \E j \in Issues : HoldsMark(j) /\ AfterPage(j)
  /\ pc = "deliver" =>
       \/ hwm <= pageHigh
       \/ \E x \in todo : hwm <= x.stamp
       \/ hasNext /\ \E j \in Issues : HoldsMark(j) /\ AfterEnd(j)
  /\ pc = "save" => hwm <= newHigh \/ hasNext

Full == cap = 0 /\ hwm # NoMark /\ since <= ApplyOverlap(hwm)

OnTrack == Full /\ ~away => MarkAhead

MarkInv ==
  /\ HeldInv /\ Clocked /\ MoreToCome
  /\ MarkHeld /\ CursorPulled /\ OnTrack

(* Without --max-issues the whole page is kept.                             *)
LEMMA KeptIsWhole ==
  ASSUME TypeInv, cap = 0, NEW K \in Kept(page)
  PROVE  K = page
BY KeptIsPart, FS_Subset DEF Kept, TypeInv

(* An update stamps an issue no earlier than before.                        *)
LEMMA StampsGrow ==
  ASSUME TypeOK, Clocked, [Next]_vars, NEW j \in Issues
  PROVE  stamp[j] <= stamp'[j] /\ ver[j] <= ver'[j]
<1>1. stamp[j] \in Nat /\ stamp[j] <= clock /\ clock \in Nat
  BY DEF TypeOK, Clocked
<1>2. ver[j] <= ver'[j]
  BY VersionsGrow
<1>3. CASE \A i \in Issues : ~Update(i)
  BY <1>1, <1>2, <1>3, VersionsGrow
<1>4. ASSUME NEW i \in Issues, Update(i)
      PROVE  stamp[j] <= stamp'[j]
  BY <1>1, <1>4 DEF Update, TypeOK
<1>5. QED
  BY <1>2, <1>3, <1>4

(* Only a save or a leaving issue changes what is known of the mark.        *)
LEMMA AwayMoves ==
  ASSUME [Next]_vars
  PROVE  \/ UNCHANGED <<hwm, away>>
         \/ \E j \in Issues : Leave(j)
         \/ SaveMark /\ newHigh # NoMark
<1>1. CASE UNCHANGED vars \/ Tick \/ \E j \in Issues : Update(j)
  BY <1>1 DEF vars, claim, Tick, Update
<1>2. CASE RunStep
  BY <1>2, PageStep, EndPageStep
     DEF RunStep, Fetch, PagesUsedUp, BudgetExceeded, StreamIngestPage,
         OnIssue, SaveMark, claim
<1>3. CASE RunFails \/ \E m, c, s : Start(m, c, s)
  BY <1>3 DEF RunFails, Start, claim
<1>4. QED
  BY <1>1, <1>2, <1>3 DEF Next, Resume, StartResume, StartSince

(* The mark stays that of a listed issue, or below one, until one leaves.   *)
LEMMA MarkHeldStep ==
  ASSUME HeldInv, Clocked, MarkHeld, [Next]_vars
  PROVE  MarkHeld'
<1>0. TypeOK /\ TypeOK'
  BY TypeStep DEF HeldInv, TypeInv
<1>1. ASSUME NEW j \in Issues, stamp'[j] > 0
      PROVE  ver'[j] > 0
  <2>1. CASE \A i \in Issues : ~Update(i)
    BY <1>0, <1>1, <2>1, VersionsGrow DEF MarkHeld
  <2>2. ASSUME NEW i \in Issues, Update(i)
        PROVE  ver'[j] > 0
    BY <1>0, <1>1, <2>2 DEF Update, MarkHeld, TypeOK
  <2>3. QED
    BY <2>1, <2>2
<1>2. ASSUME hwm' # NoMark, ~away'
      PROVE  \E j \in Issues : HoldsMark(j)'
  <2>1. CASE UNCHANGED <<hwm, away>> /\ gone' = gone
    <3>1. PICK j \in Issues : HoldsMark(j)
      BY <1>2, <2>1 DEF MarkHeld
    <3>2. stamp[j] <= stamp'[j] /\ ver[j] <= ver'[j]
      BY <1>0, StampsGrow
    <3>3. HoldsMark(j)'
      BY <1>0, <2>1, <3>1, <3>2 DEF HoldsMark, TypeOK
    <3>4. QED
      BY <3>3
  <2>2. ASSUME NEW i \in Issues, Leave(i)
        PROVE  \E j \in Issues : HoldsMark(j)'
    <3>1. ~away /\ ~(hwm <= stamp[i])
      BY <1>2, <2>2, Zenon DEF Leave
    <3>2. /\ gone' = gone \cup {i}
          /\ UNCHANGED <<ver, stamp, hwm>>
      BY <2>2 DEF Leave
    <3>3. PICK j \in Issues : HoldsMark(j)
      BY <1>2, <3>1, <3>2 DEF MarkHeld
    <3>4. HoldsMark(j)'
      BY <3>1, <3>2, <3>3 DEF HoldsMark
    <3>5. QED
      BY <3>4
  <2>3. CASE SaveMark /\ newHigh # NoMark
    <3>1. /\ hwm' = newHigh /\ UNCHANGED <<ver, stamp, gone>>
          /\ away' = (\A i \in Issues \ gone : stamp[i] < newHigh)
      BY <2>3 DEF SaveMark, linear
    <3>2. PICK j \in Issues \ gone : ~(stamp[j] < newHigh)
      <4>1. ~ \A i \in Issues \ gone : stamp[i] < newHigh
        BY <1>2, <3>1, Zenon
      <4>2. QED
        BY <4>1
    <3>3. stamp[j] > 0 /\ newHigh <= stamp[j]
      BY <1>0, <2>3, <3>2 DEF TypeOK, NoMark
    <3>4. HoldsMark(j)'
      BY <3>1, <3>2, <3>3 DEF HoldsMark, MarkHeld
    <3>5. QED
      BY <3>4
  <2>4. UNCHANGED gone \/ \E j \in Issues : Leave(j)
    BY GoneMoves
  <2>5. QED
    BY <2>1, <2>2, <2>3, <2>4, AwayMoves
<1>3. QED
  BY <1>1, <1>2 DEF MarkHeld

(* The cursor a page ends with, when all of it is kept, is no further than  *)
(* the mark that it sets.                                                   *)
LEMMA EndIsPulled ==
  ASSUME TypeOK, pc = "fetched", CursorPulled, cap = 0,
         end \in EndCursors(page), end.id # 0
  PROVE  end.stamp <= newHigh \/ \E x \in page : end.stamp <= x.stamp
<1>1. CASE page = {}
  <2>1. end # NoCursor
    BY DEF NoCursor
  <2>2. PICK t \in 1..2 : end = [cursor EXCEPT !.tag = t]
    BY <1>1, <2>1 DEF EndCursors
  <2>3. end.id = cursor.id /\ end.stamp = cursor.stamp
    BY <2>2 DEF TypeOK, Cursor
  <2>4. QED
    BY <2>3 DEF CursorPulled
<1>2. CASE page # {}
  <2>1. PICK x \in Lasts(page) : end = [stamp |-> x.stamp, id |-> x.id, tag |-> 1]
    BY <1>2 DEF EndCursors
  <2>2. x \in page /\ end.stamp = x.stamp /\ x.stamp \in Nat
    BY <2>1 DEF Lasts, TypeOK, Item
  <2>3. QED
    BY <2>2
<1>3. QED
  BY <1>1, <1>2

(* Each step leaves the cursor no further than what was pulled.             *)
LEMMA CursorPulledStep ==
  ASSUME HeldInv, CursorPulled, [Next]_vars
  PROVE  CursorPulled'
<1>0. TypeInv /\ TypeOK /\ TypeOK'
  BY TypeStep DEF HeldInv, TypeInv
<1>1. ASSUME NEW m, NEW c, NEW t, Start(m, c, t)
      PROVE  CursorPulled'
  BY <1>1 DEF Start, ClearLoop, NoCursor, CursorPulled
<1>2. CASE pc' \in {"idle", "save"}
  BY <1>2 DEF CursorPulled
<1>3. ASSUME UNCHANGED run, cap = 0
      PROVE  CursorPulled'
  <2>1. CASE Outside
    BY <2>1, OutsideStep DEF loop, hand, run, CursorPulled
  <2>2. CASE Fetch
    BY <2>2 DEF Fetch, CursorPulled, run
  <2>3. CASE IngestPage /\ pc' \notin {"idle", "save"}
    <3>1. pc = "fetched"
      BY <2>3, PageStep
    <3>2. /\ pc' = "page" /\ newHigh' \in HighOf(page, newHigh)
          /\ cursor' = end
      BY <1>0, <1>3, <2>3, PageStep, FinishClears, KeptIsWhole
    <3>3. newHigh <= newHigh' /\ \A x \in page : x.stamp <= newHigh'
      BY <1>0, <3>2, HighOfIsHighest DEF TypeOK
    <3>4. ASSUME end.id # 0 PROVE end.stamp <= newHigh'
      <4>1. end.stamp <= newHigh \/ \E x \in page : end.stamp <= x.stamp
        BY <1>0, <1>3, <3>1, <3>4, EndIsPulled DEF HeldInv, InHand
      <4>2. QED
        BY <1>0, <3>3, <4>1 DEF TypeOK, Cursor, Item
    <3>5. QED
      BY <3>2, <3>4 DEF CursorPulled
  <2>4. CASE StreamIngestPage
    <3>1. /\ pc = "fetched" /\ pc' = "deliver" /\ pageHigh' = newHigh
          /\ UNCHANGED end /\ todo' = page /\ page' = {}
      BY <1>0, <1>3, <2>4, KeptIsWhole DEF StreamIngestPage
    <3>2. QED
      BY <1>0, <1>3, <3>1, EndIsPulled DEF HeldInv, InHand, CursorPulled
  <2>5. CASE OnIssue
    <3>1. PICK x \in todo : /\ todo' = todo \ {x}
                           /\ pageHigh' \in HighOf({x}, pageHigh)
      BY <2>5 DEF OnIssue
    <3>2. pc = "deliver" /\ pc' = "deliver" /\ UNCHANGED <<page, end>>
      BY <2>5 DEF OnIssue
    <3>3. pageHigh <= pageHigh' /\ x.stamp <= pageHigh'
      <4>1. x \in Item /\ pageHigh \in Nat
        BY <1>0 DEF TypeOK
      <4>2. QED
        BY <3>1, <4>1, HighOfIsHighest
    <3>4. QED
      BY <1>0, <1>3, <3>1, <3>2, <3>3 DEF CursorPulled, TypeOK, Cursor, Item
  <2>6. CASE StreamEndPage /\ pc' \notin {"idle", "save"}
    <3>1. /\ pc = "deliver" /\ todo = {} /\ newHigh' = pageHigh
          /\ pc' = "page" /\ cursor' = end
      BY <2>6, EndPageStep, FinishClears
    <3>2. QED
      BY <1>3, <3>1 DEF CursorPulled
  <2>7. CASE PagesUsedUp \/ BudgetExceeded \/ SaveMark \/ RunFails
    BY <1>2, <2>7, FinishClears
       DEF PagesUsedUp, BudgetExceeded, SaveMark, RunFails
  <2>8. QED
    BY <1>1, <1>2, <2>1, <2>2, <2>3, <2>4, <2>5, <2>6, <2>7
       DEF Next, Outside, Resume, StartResume, StartSince, RunStep
<1>4. (\E m, c, t : Start(m, c, t)) \/ pc' = "idle" \/ UNCHANGED run
  BY RunKept
<1>5. QED
  BY <1>1, <1>2, <1>3, <1>4 DEF CursorPulled, run
(* An update of the issue that holds the mark moves it later in the order:  *)
(* ahead still, unless the listing runs newest first, and then it was       *)
(* listed before what comes after the cursor, and the cursor had the mark.  *)
LEMMA LaterStamp ==
  ASSUME NEW c \in Cursor \cup Item, NEW x \in Item, NEW y \in Item,
         x.id = y.id, x.stamp <= y.stamp, Before(c, x)
  PROVE  Before(c, y) \/ x.stamp <= c.stamp
BY DEF Before, Cursor, Item

(* Linear's updates leave the mark pulled, in hand or ahead.                *)
LEMMA MarkAheadUpdate ==
  ASSUME HeldInv, Clocked, CursorPulled, cap = 0, MarkAhead,
         NEW k \in Issues, Update(k)
  PROVE  MarkAhead'
<1>0. TypeOK /\ TypeOK'
  BY TypeStep DEF HeldInv, TypeInv, Next
<1>1. UNCHANGED <<hwm, pc, cursor, newHigh, page, todo, end, pageHigh, hasNext,
                  gone>>
  BY DEF Update, loop, hand
<1>2. ASSUME NEW j \in Issues, HoldsMark(j)
      PROVE  /\ HoldsMark(j)'
             /\ Listed(j) \in Item /\ Listed(j)' \in Item
             /\ Listed(j).id = Listed(j)'.id
             /\ hwm <= Listed(j).stamp /\ Listed(j).stamp <= Listed(j)'.stamp
  <2>1. stamp[j] <= stamp'[j] /\ ver[j] <= ver'[j]
    BY <1>0, StampsGrow DEF Next, Outside
  <2>2. Listed(j).id = j /\ Listed(j)'.id = j
        /\ Listed(j).stamp = stamp[j] /\ Listed(j)'.stamp = stamp'[j]
    BY DEF Listed
  <2>3. Listed(j) \in Item /\ Listed(j)' \in Item
    BY <1>0 DEF Listed, Item, TypeOK
  <2>4. HoldsMark(j)'
    BY <1>0, <1>1, <1>2, <2>1 DEF HoldsMark, TypeOK
  <2>5. QED
    BY <1>2, <2>1, <2>2, <2>3, <2>4 DEF HoldsMark
(* What is before the issue is still before it, or holds the mark.          *)
<1>3. ASSUME NEW j \in Issues, HoldsMark(j),
             NEW c \in Cursor \cup Item, Before(c, Listed(j))
      PROVE  Before(c, Listed(j)') \/ hwm <= c.stamp
  <2>1. c.stamp \in Nat /\ Listed(j).stamp \in Nat /\ hwm \in Nat
    BY <1>0, <1>2, <1>3 DEF Cursor, Item, TypeOK
  <2>2. PICK x, y : x = Listed(j) /\ y = Listed(j)'
    OBVIOUS
  <2>3. Before(c, y) \/ x.stamp <= c.stamp
    BY <1>2, <1>3, <2>2, LaterStamp
  <2>4. QED
    BY <1>2, <1>3, <2>1, <2>2, <2>3
<1>4. CASE pc = "page"
  <2>1. CASE hwm <= newHigh
    BY <1>1, <1>4, <2>1 DEF MarkAhead
  <2>2. ASSUME NEW j \in Issues, HoldsMark(j), After(cursor, Listed(j))
        PROVE  MarkAhead'
    <3>1. cursor.id = 0 \/ Before(cursor, Listed(j)') \/ hwm <= cursor.stamp
      BY <1>0, <1>3, <2>2 DEF After, TypeOK
    <3>2. After(cursor, Listed(j)') \/ hwm <= newHigh
      BY <1>0, <1>4, <3>1 DEF After, CursorPulled, TypeOK, Cursor
    <3>3. QED
      BY <1>1, <1>2, <1>4, <2>2, <3>2 DEF MarkAhead, After, Before
  <2>3. QED
    BY <1>4, <2>1, <2>2 DEF MarkAhead
<1>5. CASE pc = "fetched"
  <2>1. CASE hwm <= newHigh \/ \E x \in page : hwm <= x.stamp
    BY <1>1, <1>5, <2>1 DEF MarkAhead
  <2>2. ASSUME NEW j \in Issues, HoldsMark(j), AfterPage(j), hasNext
        PROVE  MarkAhead'
    <3>1. cursor.id = 0 \/ Before(cursor, Listed(j)') \/ hwm <= cursor.stamp
      BY <1>0, <1>3, <2>2 DEF AfterPage, After, TypeOK
    <3>2. After(cursor, Listed(j)') \/ hwm <= newHigh
      BY <1>0, <1>5, <3>1 DEF After, CursorPulled, TypeOK, Cursor
    <3>3. \A x \in page : Before(x, Listed(j)') \/ hwm <= x.stamp
      BY <1>0, <1>3, <2>2 DEF AfterPage, TypeOK
    <3>4. QED
      BY <1>1, <1>2, <1>5, <2>2, <3>2, <3>3 DEF MarkAhead, AfterPage, After, Before
  <2>3. QED
    BY <1>5, <2>1, <2>2 DEF MarkAhead
<1>6. CASE pc = "deliver"
  <2>1. CASE hwm <= pageHigh \/ \E x \in todo : hwm <= x.stamp
    BY <1>1, <1>6, <2>1 DEF MarkAhead
  <2>2. ASSUME NEW j \in Issues, HoldsMark(j), AfterEnd(j), hasNext
        PROVE  MarkAhead'
    <3>1. CASE end = NoCursor \/ end.id = 0
      BY <1>1, <1>2, <1>6, <2>2, <3>1 DEF MarkAhead, AfterEnd, After
    <3>2. CASE end # NoCursor /\ end.id # 0
      <4>1. Before(end, Listed(j)') \/ hwm <= end.stamp
        BY <1>0, <1>3, <2>2, <3>2 DEF AfterEnd, After, TypeOK
      <4>2. CASE Before(end, Listed(j)')
        BY <1>1, <1>2, <1>6, <2>2, <4>2 DEF MarkAhead, AfterEnd, After, Before
      <4>3. CASE hwm <= end.stamp
        <5>1. hwm <= pageHigh \/ \E y \in todo : hwm <= y.stamp
          BY <1>0, <1>6, <3>2, <4>3 DEF CursorPulled, TypeOK, Cursor, Item
        <5>2. QED
          BY <1>1, <1>6, <5>1 DEF MarkAhead
      <4>4. QED
        BY <4>1, <4>2, <4>3
    <3>3. QED
      BY <3>1, <3>2
  <2>3. QED
    BY <1>6, <2>1, <2>2 DEF MarkAhead
<1>7. CASE pc \in {"idle", "save"}
  BY <1>1, <1>7 DEF MarkAhead
<1>8. QED
  BY <1>0, <1>4, <1>5, <1>6, <1>7 DEF TypeOK

(* A run starts with no cursor: everything is ahead of it.                  *)
LEMMA MarkAheadStart ==
  ASSUME HeldInv, Clocked, MarkHeld, hwm # NoMark, ~away,
         [Next]_vars, NEW m, NEW c, NEW t, Start(m, c, t)
  PROVE  MarkAhead'
<1>0. TypeOK
  BY DEF HeldInv, TypeInv
<1>1. /\ pc' = "page" /\ cursor' = NoCursor /\ hwm' = hwm
      /\ UNCHANGED <<ver, stamp, gone>>
  BY DEF Start, ClearLoop, linear
<1>2. PICK j \in Issues : HoldsMark(j)
  BY DEF MarkHeld
<1>3. HoldsMark(j)'
  BY <1>1, <1>2 DEF HoldsMark
<1>4. After(cursor, Listed(j))'
  BY <1>1 DEF After, NoCursor
<1>5. QED
  BY <1>1, <1>3, <1>4 DEF MarkAhead

(* A step of the run leaves the mark pulled, in hand or ahead.              *)
LEMMA MarkAheadStep ==
  ASSUME HeldInv, Clocked, MoreToCome, CursorPulled, Full, MarkAhead,
         RunStep
  PROVE  MarkAhead'
<1>0. TypeInv /\ TypeOK /\ TypeOK' /\ cap = 0 /\ Overlap \in Nat
  BY TypeStep, SizesAssumption DEF HeldInv, TypeInv, Next, Full
<1>1. ASSUME NEW j \in Issues, HoldsMark(j)
      PROVE  /\ j \notin gone /\ ver[j] > 0 /\ since <= stamp[j]
             /\ Listed(j) \in Item /\ Listed(j).stamp = stamp[j]
             /\ hwm <= stamp[j]
  <2>1. Listed(j) \in Item /\ Listed(j).stamp = stamp[j]
    BY <1>0 DEF Listed, Item, TypeOK
  <2>2. since <= stamp[j]
    BY <1>0, <1>1 DEF HoldsMark, Full, ApplyOverlap, TypeOK
  <2>3. QED
    BY <1>1, <2>1, <2>2 DEF HoldsMark
<1>2. CASE pc' = "idle"
  BY <1>2 DEF MarkAhead
<1>3. CASE Fetch
  <2>1. /\ pc = "page" /\ pc' = "fetched"
        /\ UNCHANGED <<ver, stamp, gone, hwm, cursor, newHigh>>
    BY <1>3 DEF Fetch, linear
  <2>2. CASE hwm <= newHigh
    BY <2>1, <2>2 DEF MarkAhead
  <2>3. ASSUME NEW j \in Issues, HoldsMark(j), After(cursor, Listed(j))
        PROVE  MarkAhead'
    <3>1. \/ Listed(j) \in page'
          \/ hasNext' /\ \A x \in page' : Before(x, Listed(j))
      BY <1>0, <1>1, <1>3, <2>3, FetchInOrder
    <3>2. HoldsMark(j)' /\ Listed(j)' = Listed(j) /\ hwm <= Listed(j).stamp
      BY <1>1, <2>1, <2>3 DEF HoldsMark, Listed
    <3>3. CASE Listed(j) \in page'
      BY <2>1, <3>2, <3>3 DEF MarkAhead
    <3>4. CASE hasNext' /\ \A x \in page' : Before(x, Listed(j))
      <4>1. AfterPage(j)'
        BY <2>1, <2>3, <3>2, <3>4 DEF AfterPage, After, Before
      <4>2. QED
        BY <2>1, <3>2, <3>4, <4>1 DEF MarkAhead
    <3>5. QED
      BY <3>1, <3>3, <3>4
  <2>4. QED
    BY <2>1, <2>2, <2>3 DEF MarkAhead
<1>4. CASE PagesUsedUp
  <2>1. /\ pc = "page" /\ pc' = "save" /\ pages = MaxPages
        /\ UNCHANGED hasNext
    BY <1>4 DEF PagesUsedUp, hand
  <2>2. QED
    BY <2>1, SizesAssumption DEF MoreToCome, MarkAhead
<1>5. CASE IngestPage \/ StreamIngestPage
  <2>1. pc = "fetched" /\ UNCHANGED <<ver, stamp, gone, hwm>>
    BY <1>5, PageStep DEF StreamIngestPage, linear
  <2>2. \/ hwm <= newHigh
        \/ \E x \in page : hwm <= x.stamp
        \/ hasNext /\ \E j \in Issues : HoldsMark(j) /\ AfterEnd(j)
    <3>1. ASSUME NEW j \in Issues, HoldsMark(j), AfterPage(j)
          PROVE  AfterEnd(j)
      BY <1>1, <2>1, <3>1, EndIsBefore DEF AfterPage, AfterEnd
    <3>2. QED
      BY <2>1, <3>1 DEF MarkAhead
  <2>3. CASE IngestPage /\ pc' # "idle"
    <3>1. /\ newHigh' \in HighOf(page, newHigh) /\ UNCHANGED hasNext
          /\ \/ pc' = "save"
             \/ pc' = "page" /\ end # NoCursor /\ cursor' = end
      BY <1>0, <2>3, PageStep, FinishClears, KeptIsWhole
    <3>2. newHigh <= newHigh' /\ \A x \in page : x.stamp <= newHigh'
      BY <1>0, <3>1, HighOfIsHighest DEF TypeOK
    <3>3. CASE hwm <= newHigh \/ \E x \in page : hwm <= x.stamp
      <4>1. hwm <= newHigh'
        BY <1>0, <3>2, <3>3 DEF TypeOK, Item
      <4>2. QED
        BY <2>1, <3>1, <4>1 DEF MarkAhead
    <3>4. ASSUME hasNext, NEW j \in Issues, HoldsMark(j), AfterEnd(j)
          PROVE  MarkAhead'
      <4>1. CASE pc' = "save"
        BY <3>1, <3>4, <4>1 DEF MarkAhead
      <4>2. CASE pc' = "page" /\ end # NoCursor /\ cursor' = end
        <5>1. HoldsMark(j)' /\ After(cursor, Listed(j))'
          BY <2>1, <3>4, <4>2 DEF HoldsMark, AfterEnd, After, Before, Listed
        <5>2. QED
          BY <4>2, <5>1 DEF MarkAhead
      <4>3. QED
        BY <3>1, <4>1, <4>2
    <3>5. QED
      BY <2>2, <3>3, <3>4
  <2>4. CASE StreamIngestPage
    <3>1. /\ pc' = "deliver" /\ pageHigh' = newHigh /\ todo' = page
          /\ UNCHANGED <<end, hasNext>>
      BY <1>0, <2>4, KeptIsWhole DEF StreamIngestPage
    <3>2. CASE hwm <= newHigh \/ \E x \in page : hwm <= x.stamp
      BY <2>1, <3>1, <3>2 DEF MarkAhead
    <3>3. ASSUME hasNext, NEW j \in Issues, HoldsMark(j), AfterEnd(j)
          PROVE  MarkAhead'
      <4>1. HoldsMark(j)' /\ AfterEnd(j)'
        BY <2>1, <3>1, <3>3 DEF HoldsMark, AfterEnd, After, Before, Listed
      <4>2. QED
        BY <3>1, <3>3, <4>1 DEF MarkAhead
    <3>4. QED
      BY <2>2, <3>2, <3>3
  <2>5. QED
    BY <1>2, <1>5, <2>3, <2>4
<1>6. CASE OnIssue
  <2>1. PICK x \in todo : /\ todo' = todo \ {x}
                         /\ pageHigh' \in HighOf({x}, pageHigh)
    BY <1>6 DEF OnIssue
  <2>2. /\ pc = "deliver" /\ pc' = "deliver"
        /\ UNCHANGED <<ver, stamp, gone, hwm, end, hasNext>>
    BY <1>6 DEF OnIssue, linear
  <2>3. pageHigh <= pageHigh' /\ x.stamp <= pageHigh'
    <3>1. x \in Item /\ pageHigh \in Nat
      BY <1>0 DEF TypeOK
    <3>2. QED
      BY <2>1, <3>1, HighOfIsHighest
  <2>4. CASE hwm <= pageHigh
    <3>1. hwm <= pageHigh'
      BY <1>0, <2>3, <2>4 DEF TypeOK
    <3>2. QED
      BY <2>2, <3>1 DEF MarkAhead
  <2>5. ASSUME NEW y \in todo, hwm <= y.stamp
        PROVE  MarkAhead'
    <3>1. y \in todo' \/ hwm <= pageHigh'
      BY <1>0, <2>1, <2>3, <2>5 DEF TypeOK, Item
    <3>2. QED
      BY <2>2, <2>5, <3>1 DEF MarkAhead
  <2>6. ASSUME hasNext, NEW j \in Issues, HoldsMark(j), AfterEnd(j)
        PROVE  MarkAhead'
    <3>1. HoldsMark(j)' /\ AfterEnd(j)'
      BY <2>2, <2>6 DEF HoldsMark, AfterEnd, After, Before, Listed
    <3>2. QED
      BY <2>2, <2>6, <3>1 DEF MarkAhead
  <2>7. QED
    BY <2>2, <2>4, <2>5, <2>6 DEF MarkAhead
<1>7. CASE StreamEndPage /\ pc' # "idle"
  <2>1. /\ pc = "deliver" /\ todo = {} /\ newHigh' = pageHigh
        /\ UNCHANGED <<ver, stamp, gone, hwm, hasNext>>
        /\ \/ pc' = "save"
           \/ pc' = "page" /\ end # NoCursor /\ cursor' = end
    BY <1>7, EndPageStep, FinishClears DEF linear
  <2>2. CASE hwm <= pageHigh
    BY <2>1, <2>2 DEF MarkAhead
  <2>3. ASSUME hasNext, NEW j \in Issues, HoldsMark(j), AfterEnd(j)
        PROVE  MarkAhead'
    <3>1. CASE pc' = "save"
      BY <2>1, <2>3, <3>1 DEF MarkAhead
    <3>2. CASE pc' = "page" /\ end # NoCursor /\ cursor' = end
      <4>1. HoldsMark(j)' /\ After(cursor, Listed(j))'
        BY <2>1, <2>3, <3>2 DEF HoldsMark, AfterEnd, After, Before, Listed
      <4>2. QED
        BY <3>2, <4>1 DEF MarkAhead
    <3>3. QED
      BY <2>1, <3>1, <3>2
  <2>4. QED
    BY <2>1, <2>2, <2>3 DEF MarkAhead
<1>8. CASE BudgetExceeded \/ SaveMark
  BY <1>2, <1>8, FinishClears DEF BudgetExceeded, SaveMark
<1>9. QED
  BY <1>2, <1>3, <1>4, <1>5, <1>6, <1>7, <1>8 DEF RunStep

(* An issue older than the mark that leaves is not the one that is ahead.   *)
LEMMA MarkAheadLeave ==
  ASSUME MarkAhead, NEW k \in Issues, Leave(k), ~(hwm <= stamp[k])
  PROVE  MarkAhead'
<1>1. /\ UNCHANGED <<hwm, pc, cursor, newHigh, page, todo, end, pageHigh, hasNext>>
      /\ UNCHANGED <<ver, stamp>> /\ gone' = gone \cup {k}
  BY DEF Leave, loop, hand
<1>2. ASSUME NEW j \in Issues, HoldsMark(j)
      PROVE  /\ HoldsMark(j)'
             /\ After(cursor, Listed(j)) => After(cursor, Listed(j))'
             /\ AfterPage(j) => AfterPage(j)'
             /\ AfterEnd(j) => AfterEnd(j)'
  BY <1>1, <1>2 DEF HoldsMark, AfterPage, AfterEnd, After, Before, Listed
<1>3. QED
  BY <1>1, <1>2 DEF MarkAhead

(* Every step does, and so does the start of a resume.                      *)
LEMMA OnTrackStep ==
  ASSUME HeldInv, Clocked, MoreToCome, MarkHeld, CursorPulled, OnTrack,
         [Next]_vars
  PROVE  OnTrack'
<1>1. SUFFICES ASSUME Full', ~away', pc' # "idle"
               PROVE  MarkAhead'
  BY DEF OnTrack, MarkAhead
<1>2. ASSUME NEW m, NEW c, NEW t, Start(m, c, t)
      PROVE  MarkAhead'
  <2>1. hwm # NoMark /\ ~away
    BY <1>1, <1>2 DEF Full, Start, claim
  <2>2. QED
    BY <1>2, <2>1, MarkAheadStart
<1>3. CASE ~ \E m, c, t : Start(m, c, t)
  <2>1. UNCHANGED <<run, hwm>>
    BY <1>1, <1>3, RunKept, ClaimMoves, FinishClears DEF SaveMark
  <2>2. Full /\ cap = 0
    BY <1>1, <2>1 DEF Full, run, ApplyOverlap
  <2>3. ASSUME NEW k \in Issues, Leave(k)
        PROVE  MarkAhead'
    <3>1. ~away /\ ~(hwm <= stamp[k])
      BY <1>1, <2>3, Zenon DEF Leave
    <3>2. QED
      BY <2>2, <2>3, <3>1, MarkAheadLeave DEF OnTrack
  <2>4. CASE ~ \E k \in Issues : Leave(k)
    <3>1. UNCHANGED away
      BY <1>1, <2>4, AwayMoves, FinishClears DEF SaveMark
    <3>2. MarkAhead
      BY <1>1, <2>2, <3>1 DEF OnTrack
    <3>3. CASE UNCHANGED vars \/ Tick
      BY <3>2, <3>3
         DEF vars, Tick, linear, loop, hand, MarkAhead, HoldsMark, AfterPage,
             AfterEnd, After, Before, Listed
    <3>4. CASE RunStep
      BY <2>2, <3>2, <3>4, MarkAheadStep
    <3>5. CASE \E k \in Issues : Update(k)
      BY <2>2, <3>2, <3>5, MarkAheadUpdate
    <3>6. CASE RunFails
      BY <1>1, <3>6, FinishClears DEF RunFails
    <3>7. QED
      BY <1>3, <2>4, <3>3, <3>4, <3>5, <3>6
         DEF Next, Resume, StartResume, StartSince
  <2>5. QED
    BY <2>3, <2>4
<1>4. QED
  BY <1>2, <1>3

(* The invariant holds of a fresh archive.                                  *)
LEMMA MarkInvInit == Init => MarkInv
<1>1. Init => HeldInv
  BY HeldInit
<1>2. Init => Clocked /\ MoreToCome /\ MarkHeld /\ CursorPulled /\ OnTrack
  BY DEF Init, Clocked, MoreToCome, MarkHeld, CursorPulled, OnTrack, Full,
         NoMark
<1>3. QED
  BY <1>1, <1>2 DEF MarkInv

(* And every step keeps it.                                                 *)
LEMMA MarkInvStep == MarkInv /\ [Next]_vars => MarkInv'
BY HeldStep, ClockStep, MoreStep, MarkHeldStep, CursorPulledStep, OnTrackStep
   DEF MarkInv

(* A `sync --resume` without --max-issues that reached the last page never  *)
(* lowers the mark, whatever the runs before it were and whatever the       *)
(* server pages, in either direction, unless an issue at or above the mark  *)
(* has left the listing, during the run that saved it or since: otherwise   *)
(* one is inside the overlap, updated since or not, and is pulled again.    *)
THEOREM ResumeKeepsTheMark == Spec => FullResumeKeepsMark
<1>1. MarkInv /\ [Next]_vars
        => [/\ hwm' # hwm /\ since <= ApplyOverlap(hwm) /\ cap = 0
            /\ ~hasNext /\ page = {} /\ ~away
            => hwm' >= hwm]_vars
  <2> SUFFICES ASSUME MarkInv, Next, hwm' # hwm, since <= ApplyOverlap(hwm),
                      cap = 0, ~hasNext, ~away
               PROVE  hwm' >= hwm
    OBVIOUS
  <2>1. TypeOK
    BY DEF MarkInv, HeldInv, TypeInv
  <2>2. pc = "save" /\ hwm' = newHigh
    BY ClaimMoves DEF SaveMark
  <2>3. CASE hwm = NoMark
    BY <2>1, <2>2, <2>3 DEF TypeOK, NoMark
  <2>4. CASE hwm # NoMark
    BY <2>1, <2>2, <2>4 DEF MarkInv, OnTrack, Full, MarkAhead, TypeOK
  <2>5. QED
    BY <2>3, <2>4
<1>2. QED
  BY <1>1, MarkInvInit, MarkInvStep, PTL DEF Spec, FullResumeKeepsMark
=============================================================================
