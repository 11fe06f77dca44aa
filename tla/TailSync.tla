------------------------------ MODULE TailSync ------------------------------
(***************************************************************************)
(* The live tail of lincrawl: `sync --updated-since`, `sync --resume` and  *)
(* their `--ndjson` streaming form (internal/syncer/live.go), with the     *)
(* high-water mark they persist (SaveCursor / LoadCursor of                *)
(* internal/store/store.go) and the way the CLI starts them.               *)
(*                                                                         *)
(* Linear is external: a set of issues, each with a version (bumped by     *)
(* every update) and an updatedAt stamp.  An issue that is archived or     *)
(* deleted there leaves the listing, for good.  Linear answers a page      *)
(* request with a prefix, in stamp order, of the listed issues at or after *)
(* `since` and after the cursor; a page may be short or even empty while   *)
(* hasNextPage is true.                                                    *)
(* The query does not say in which direction `orderBy: updatedAt` sorts,   *)
(* so the direction is a parameter.                                        *)
(*                                                                         *)
(* A mark and a stamp are Nat, 0 standing for the empty string.            *)
(***************************************************************************)
EXTENDS Integers, FiniteSets

CONSTANTS
  N,                \* issues are 1..N; the id breaks ties between equal stamps
  Ascending,        \* TRUE: pages come oldest stamp first; FALSE: newest first
  Modes,            \* the loops in use: "tail", "stream"
  Caps,             \* the values of --max-issues in use, 0 is no cap
  PageSize,         \* --page-size
  OverServe,        \* issues by which the server may exceed `first`
  EmptyPages,       \* whether it may send an empty page with hasNextPage true
  Overlap,          \* tailOverlap, in ticks
  MaxWallClock,     \* maxWallClock, in ticks
  MaxPages,         \* maxSyncPages
  MaxZeroItemRuns,  \* maxZeroItemRuns
  MaxClock,         \* bound on the clock
  MaxVer,           \* bound on the updates of one issue
  MaxGone,          \* bound on the issues that leave the listing
  MaxFaults,        \* bound on the runs cut down by an error or a crash
  MaxSinceRuns      \* bound on the runs started with --updated-since

ASSUME SizesAssumption ==
  /\ N \in Nat /\ PageSize \in Nat \ {0} /\ OverServe \in Nat
  /\ Overlap \in Nat /\ MaxWallClock \in Nat
  /\ MaxPages \in Nat \ {0} /\ MaxZeroItemRuns \in Nat \ {0}
ASSUME ChoicesAssumption ==
  /\ Ascending \in BOOLEAN /\ EmptyPages \in BOOLEAN
  /\ Modes \subseteq {"tail", "stream"}
  /\ Caps \subseteq Nat
ASSUME BoundsAssumption ==
  /\ MaxClock \in Nat /\ MaxVer \in Nat /\ MaxGone \in Nat
  /\ MaxFaults \in Nat /\ MaxSinceRuns \in Nat

VARIABLES
  \* Linear
  clock, ver, stamp, gone,
  \* the archive: the version held of each issue, the saved mark
  archive, hwm,
  \* the version of each issue last handed on: by a stream to its consumer, by
  \* a tail run, which has no consumer, to the archive
  delivered,
  \* what a run fixes when it starts
  mode, since, cap, started,
  \* the loop
  pc, pages, cursor, pulled, newHigh, zeroRuns,
  \* the page in hand
  page, hasNext, end, todo, pageHigh,
  \* history: the window the saved mark vouches for, whether a saved run
  \* outlasted the overlap or stopped before the last page, and whether an
  \* issue at or above the mark has left the listing since it was saved
  floor, long, cut, away,
  \* counters of the bounds
  faults, sinceRuns

linear == <<clock, ver, stamp, gone>>
run    == <<mode, since, cap, started>>
loop   == <<pages, cursor, pulled, newHigh, zeroRuns>>
hand   == <<page, hasNext, end, todo, pageHigh>>
claim  == <<floor, long, cut, away>>
bounds == <<faults, sinceRuns>>
vars   == <<linear, archive, hwm, delivered, run, pc, loop, hand, claim, bounds>>

Issues == 1..N
Item   == [id : Issues, stamp : Nat, ver : Nat]
Cursor == [stamp : Nat, id : 0..N, tag : 0..2]
NoMark == 0
NoCursor == [stamp |-> 0, id |-> 0, tag |-> 0]

TypeOK ==
  /\ clock \in Nat
  /\ ver \in [Issues -> Nat] /\ stamp \in [Issues -> Nat]
  /\ gone \subseteq Issues
  /\ archive \in [Issues -> Nat] /\ delivered \in [Issues -> Nat]
  /\ hwm \in Nat
  /\ mode \in {"tail", "stream"} /\ since \in Int
  /\ cap \in Nat /\ started \in Nat
  /\ pc \in {"idle", "page", "fetched", "deliver", "save"}
  /\ pages \in Nat /\ cursor \in Cursor /\ pulled \in Nat
  /\ newHigh \in Nat /\ zeroRuns \in Nat
  /\ page \subseteq Item /\ todo \subseteq Item
  /\ hasNext \in BOOLEAN /\ end \in Cursor /\ pageHigh \in Nat
  /\ floor \in Int /\ long \in BOOLEAN /\ cut \in BOOLEAN
  /\ away \in BOOLEAN
  /\ faults \in Nat /\ sinceRuns \in Nat

-----------------------------------------------------------------------------
(* Order of the listing.  A cursor with id 0 stands before every issue.     *)

Before(x, y) ==
  \/ IF Ascending THEN x.stamp < y.stamp ELSE y.stamp < x.stamp
  \/ x.stamp = y.stamp /\ x.id < y.id

After(c, x) == c.id = 0 \/ Before(c, x)

IsPrefix(P, S) == \A x \in P, y \in S \ P : Before(x, y)

Lasts(P) == {x \in P : \A y \in P \ {x} : Before(y, x)}

(* The issues a request with the run's `since` and cursor ranges over.      *)
Listed(i) == [id |-> i, stamp |-> stamp[i], ver |-> ver[i]]

Remaining ==
  {x \in {Listed(i) : i \in Issues \ gone} :
     x.ver > 0 /\ x.stamp >= since /\ After(cursor, x)}

(* The endCursor of a page: the key of its last issue; an empty page moves  *)
(* nowhere, and its cursor may be none, a new one, or the one it was asked  *)
(* with.                                                                    *)
EndCursors(P) ==
  IF P = {}
    THEN {NoCursor} \cup {[cursor EXCEPT !.tag = t] : t \in 1..2}
    ELSE {[stamp |-> x.stamp, id |-> x.id, tag |-> 1] : x \in Lasts(P)}

(* Slips a mutation run swaps in: the mark of the oldest issue instead of   *)
(* the newest, and the wall clock instead of what was pulled.               *)
HighOf_Oldest(P, high) ==
  IF P = {} THEN {high}
  ELSE {h \in {x.stamp : x \in P} : \A x \in P : h <= x.stamp}
HighOf_Clock(P, high) == {clock}

(* The highest of a mark and the stamps of some issues.                     *)
HighOf(P, high) ==
  {h \in {high} \cup {x.stamp : x \in P} :
     high <= h /\ \A x \in P : x.stamp <= h}

(* A slip: resuming exactly at the mark.                                    *)
ApplyOverlap_None(s) == s

ApplyOverlap(s) == s - Overlap

(* `first`: the page size, lowered to what --max-issues leaves.             *)
First == IF cap > 0 /\ cap - pulled < PageSize THEN cap - pulled ELSE PageSize

(* A slip: trusting the server to respect `first`.                          *)
Kept_Whole(P) == {P}

(* What remains of a page that exceeds --max-issues.                        *)
Kept(P) ==
  {K \in SUBSET P :
     /\ IsPrefix(K, P)
     /\ Cardinality(K) = IF cap > 0 /\ pulled + Cardinality(P) > cap
                           THEN cap - pulled ELSE Cardinality(P)}

-----------------------------------------------------------------------------
Init ==
  /\ clock = 1
  /\ ver = [i \in Issues |-> 0] /\ stamp = [i \in Issues |-> 0]
  /\ gone = {}
  /\ archive = [i \in Issues |-> 0] /\ delivered = [i \in Issues |-> 0]
  /\ hwm = NoMark
  /\ mode = "tail" /\ since = 0 /\ cap = 0 /\ started = 0
  /\ pc = "idle"
  /\ pages = 0 /\ cursor = NoCursor /\ pulled = 0 /\ newHigh = NoMark
  /\ zeroRuns = 0
  /\ page = {} /\ hasNext = FALSE /\ end = NoCursor /\ todo = {}
  /\ pageHigh = NoMark
  /\ floor = 0 /\ long = FALSE /\ cut = FALSE /\ away = FALSE
  /\ faults = 0 /\ sinceRuns = 0

Tick ==
  /\ clock < MaxClock
  /\ clock' = clock + 1
  /\ UNCHANGED <<ver, stamp, gone, archive, hwm, delivered, run, pc, loop,
                 hand, claim, bounds>>

(* Linear creates or updates an issue, or any of its labels or comments.    *)
Update(i) ==
  /\ i \notin gone /\ ver[i] < MaxVer
  /\ ver' = [ver EXCEPT ![i] = @ + 1]
  /\ stamp' = [stamp EXCEPT ![i] = clock]
  /\ UNCHANGED <<clock, gone, archive, hwm, delivered, run, pc, loop, hand,
                 claim, bounds>>

(* An issue is archived or deleted in Linear.                               *)
Leave(i) ==
  /\ i \notin gone /\ ver[i] > 0 /\ Cardinality(gone) < MaxGone
  /\ gone' = gone \cup {i}
  /\ away' = (away \/ hwm <= stamp[i])
  /\ UNCHANGED <<clock, ver, stamp, archive, hwm, delivered, run, pc, loop,
                 hand, floor, long, cut, bounds>>

(* The locals of a loop at its start, and again once the run is over.       *)
ClearLoop ==
  /\ pages' = 0 /\ cursor' = NoCursor /\ pulled' = 0 /\ newHigh' = NoMark
  /\ zeroRuns' = 0
  /\ page' = {} /\ hasNext' = FALSE /\ end' = NoCursor /\ todo' = {}
  /\ pageHigh' = NoMark

Start(m, c, s) ==
  /\ pc = "idle" /\ pc' = "page"
  /\ mode' = m /\ cap' = c
  /\ since' = ApplyOverlap(s)
  /\ started' = clock
  /\ ClearLoop
  /\ UNCHANGED <<linear, archive, hwm, delivered, claim, faults>>

(* `sync --resume`: refused while no mark is stored.                        *)
StartResume(m, c) ==
  /\ hwm # NoMark
  /\ Start(m, c, hwm)
  /\ UNCHANGED sinceRuns

(* `sync --updated-since s`: an absolute time, or a duration before now.    *)
StartSince(m, c, s) ==
  /\ sinceRuns < MaxSinceRuns
  /\ Start(m, c, s)
  /\ sinceRuns' = sinceRuns + 1

OverBudget == clock - started > MaxWallClock

(* The locals of a finished run are gone.                                   *)
Finish ==
  /\ pc' = "idle"
  /\ mode' = "tail" /\ since' = 0 /\ cap' = 0 /\ started' = 0
  /\ ClearLoop

(* One request of FetchIssuesUpdatedSince.                                  *)
Fetch ==
  /\ pc = "page" /\ pages < MaxPages /\ ~OverBudget
  /\ \E P \in SUBSET Remaining :
       /\ IsPrefix(P, Remaining) /\ Cardinality(P) <= First + OverServe
       /\ P = {} => EmptyPages \/ Remaining = {}
       /\ page' = P
       /\ hasNext' = (P # Remaining)
       /\ end' \in EndCursors(P)
  /\ pages' = pages + 1
  /\ pc' = "fetched"
  /\ UNCHANGED <<linear, archive, hwm, delivered, run, cursor, pulled, newHigh,
                 zeroRuns, todo, pageHigh, claim, bounds>>

(* The loop ends without an error when it has used up its pages.            *)
PagesUsedUp ==
  /\ pc = "page" /\ pages = MaxPages
  /\ pc' = "save"
  /\ UNCHANGED <<linear, archive, hwm, delivered, run, loop, hand, claim,
                 bounds>>

BudgetExceeded ==
  /\ pc = "page" /\ pages < MaxPages /\ OverBudget
  /\ Finish
  /\ UNCHANGED <<linear, archive, hwm, delivered, claim, bounds>>

(* What the tests at the bottom of both loops make of n issues pulled, of   *)
(* `left` (the issues cut off the page) and of the answer.                  *)
Stops(n, left) ==
  left # {} \/ (cap > 0 /\ n >= cap) \/ ~hasNext \/ end = NoCursor
Stalled(n, left) == ~Stops(n, left) /\ end = cursor
GoesOn(n, left) == ~Stops(n, left) /\ end # cursor

Turn(n, left) ==
  \/ /\ Stops(n, left)
     /\ pc' = "save"
     /\ page' = left
     /\ UNCHANGED <<cursor, hasNext, end>>
  \/ /\ GoesOn(n, left)
     /\ pc' = "page"
     /\ cursor' = end
     /\ page' = {} /\ end' = NoCursor
     /\ UNCHANGED hasNext

(* Slips: a reset to the value before the first count, a guard that fires   *)
(* one page late.                                                           *)
Emptied_OffByOne(K) == IF K = {} THEN zeroRuns + 1 ELSE -1
TooManyEmpty_Late(K) == (K = {} /\ zeroRuns >= MaxZeroItemRuns) /\ hasNext

Emptied(K) == IF K = {} THEN zeroRuns + 1 ELSE 0
TooManyEmpty(K) == Emptied(K) >= MaxZeroItemRuns /\ hasNext

(* A slip: replacing the archive by the page instead of upserting into it.  *)
Ingested_Replaced(K) ==
  archive' = [i \in Issues |-> IF \E x \in K : x.id = i
                                 THEN (CHOOSE x \in K : x.id = i).ver
                                 ELSE 0]

(* One IngestSnapshot of what the page brings, a transaction of its own.    *)
Ingested(K) ==
  archive' = [i \in Issues |-> IF \E x \in K : x.id = i
                                 THEN (CHOOSE x \in K : x.id = i).ver
                                 ELSE archive[i]]

HandedOn(K) ==
  delivered' = [i \in Issues |-> IF \E x \in K : x.id = i THEN archive'[i]
                                                      ELSE delivered[i]]

IngestPage ==
  /\ pc = "fetched" /\ mode = "tail"
  /\ \E K \in Kept(page) :
       LET n == pulled + Cardinality(K)
           left == page \ K
       IN /\ Ingested(K) /\ HandedOn(K)
          /\ \/ /\ ~TooManyEmpty(K)
                /\ Turn(n, left)
                /\ pulled' = n
                /\ newHigh' \in HighOf(K, newHigh)
                /\ zeroRuns' = Emptied(K)
                /\ UNCHANGED <<run, pages, todo, pageHigh>>
             \/ (TooManyEmpty(K) \/ Stalled(n, left)) /\ Finish
  /\ UNCHANGED <<linear, hwm, claim, bounds>>

StreamIngestPage ==
  /\ pc = "fetched" /\ mode = "stream"
  /\ \E K \in Kept(page) :
       /\ Ingested(K)
       /\ todo' = K
       /\ page' = page \ K
       /\ zeroRuns' = Emptied(K)
  /\ pageHigh' = newHigh
  /\ pc' = "deliver"
  /\ UNCHANGED <<linear, hwm, delivered, run, pages, cursor, pulled, newHigh,
                 hasNext, end, claim, bounds>>

(* onIssue returns nil for the next issue of the page.                      *)
OnIssue ==
  /\ pc = "deliver"
  /\ \E x \in todo :
       /\ \A y \in todo \ {x} : Before(x, y)
       /\ delivered' = [delivered EXCEPT ![x.id] = x.ver]
       /\ todo' = todo \ {x}
       /\ pageHigh' \in HighOf({x}, pageHigh)
  /\ pulled' = pulled + 1
  /\ UNCHANGED <<linear, archive, hwm, run, pc, pages, cursor, newHigh,
                 zeroRuns, page, hasNext, end, claim, bounds>>

(* A slip: committing the page without waiting for its callbacks.           *)
StreamEndPage_Early ==
  /\ pc = "deliver"
  /\ \/ /\ Turn(pulled, page)
        /\ newHigh' = pageHigh
        /\ UNCHANGED <<run, pages, pulled, zeroRuns, todo, pageHigh>>
     \/ Stalled(pulled, page) /\ Finish
  /\ UNCHANGED <<linear, archive, hwm, delivered, claim, bounds>>

(* Every callback of the page returned nil: the page is committed.          *)
StreamEndPage ==
  /\ pc = "deliver" /\ todo = {}
  /\ \/ /\ Turn(pulled, page)
        /\ newHigh' = pageHigh
        /\ UNCHANGED <<run, pages, pulled, zeroRuns, todo, pageHigh>>
     \/ Stalled(pulled, page) /\ Finish
  /\ UNCHANGED <<linear, archive, hwm, delivered, claim, bounds>>

(* The window a saved mark vouches for: the run's own, joined to the one    *)
(* before it when the run began inside what --resume would have covered.    *)
NewFloor ==
  IF hwm = NoMark \/ since > ApplyOverlap(hwm) \/ floor > since
    THEN since ELSE floor

SaveMark ==
  /\ pc = "save"
  /\ \/ /\ newHigh # NoMark
        /\ hwm' = newHigh
        /\ floor' = NewFloor
        /\ long' = (long \/ clock - started > Overlap)
        /\ cut' = (cut \/ hasNext \/ page # {})
        /\ away' = (\A i \in Issues \ gone : stamp[i] < newHigh)
     \/ newHigh = NoMark /\ UNCHANGED <<hwm, claim>>
  /\ Finish
  /\ UNCHANGED <<linear, archive, delivered, bounds>>

(* A request, an ingest, a callback or the save returns an error, or the    *)
(* process dies: the run is over and what it committed stays.               *)
RunFails ==
  /\ pc # "idle" /\ faults < MaxFaults
  /\ faults' = faults + 1
  /\ Finish
  /\ UNCHANGED <<linear, archive, hwm, delivered, claim, sinceRuns>>

RunStep ==
  \/ Fetch \/ PagesUsedUp \/ BudgetExceeded
  \/ IngestPage \/ StreamIngestPage \/ OnIssue \/ StreamEndPage \/ SaveMark

Resume == \E m \in Modes, c \in Caps : StartResume(m, c)

Next ==
  \/ Tick
  \/ \E i \in Issues : Update(i) \/ Leave(i)
  \/ Resume
  \/ \E m \in Modes, c \in Caps, s \in 0..clock : StartSince(m, c, s)
  \/ RunStep
  \/ RunFails

Spec == Init /\ [][Next]_vars

(* A run goes on until it returns, and the refresh is scheduled again and   *)
(* again; nothing obliges Linear to update an issue or a run to fail.       *)
FairSpec == Spec /\ WF_vars(RunStep) /\ WF_vars(Resume)

-----------------------------------------------------------------------------
(* An issue Linear still lists is behind when the archive does not hold its *)
(* current version.                                                         *)
Behind(i) == i \notin gone /\ archive[i] # ver[i]

Covered(i) == hwm # NoMark /\ stamp[i] >= floor

(* No update escapes between runs: an issue of the window the saved mark    *)
(* vouches for that is not archived as it stands is still inside what the   *)
(* next --resume asks for.  In ascending order it rests on the overlap,     *)
(* hence on saved runs that did not outlast it; in descending order on      *)
(* saved runs that reached the last page.                                   *)
NoEscape ==
  (IF Ascending THEN ~long ELSE ~cut) =>
    \A i \in Issues : Covered(i) /\ Behind(i) => stamp[i] >= ApplyOverlap(hwm)

(* A broken consumer of `--ndjson` loses nothing: a version that the run    *)
(* which pulled it did not hand on, because a callback failed, is still     *)
(* inside the next --resume, whatever runs of either kind follow.           *)
StreamLosesNothing ==
  (IF Ascending THEN ~long ELSE ~cut) =>
    \A i \in Issues \ gone : Covered(i) /\ delivered[i] # ver[i]
                               => stamp[i] >= ApplyOverlap(hwm)

(* A page ingested late never puts an older version over a newer one.       *)
ArchiveNeverRegresses == [][\A i \in Issues : archive'[i] >= archive[i]]_vars

(* --max-issues caps what a run ingests, whatever the server sends.         *)
CapRespected == cap > 0 => pulled + Cardinality(todo) <= cap

(* A run never asks for another page after maxZeroItemRuns empty ones: the  *)
(* tail loop keeps to it, the docs say so of both loops.                    *)
EmptyPageGuard == pc = "page" /\ mode = "tail" => zeroRuns < MaxZeroItemRuns

EmptyPageGuardOfBoth == pc = "page" => zeroRuns < MaxZeroItemRuns

(* A resume without --max-issues that reached the last page never lowers    *)
(* the mark, whatever the runs before it were, unless an issue at or above  *)
(* it has left the listing, during the run that saved it or since: the save *)
(* compares nothing, and rests on the overlap to have pulled one again.     *)
FullResumeKeepsMark ==
  [][/\ hwm' # hwm /\ since <= ApplyOverlap(hwm) /\ cap = 0
     /\ ~hasNext /\ page = {} /\ ~away
     => hwm' >= hwm]_vars

(* Scheduled refreshes catch up once Linear falls quiet: every issue of the *)
(* window ends up archived as it stands.                                    *)
CaughtUp == \A i \in Issues : Covered(i) => ~Behind(i)
CatchUp == <>[](~long => CaughtUp)
=============================================================================
