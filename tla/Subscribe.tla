------------------------------ MODULE Subscribe ------------------------------
(***************************************************************************)
(* The other machine: `subscribe` verifies a tenant store (VerifiedSnap-   *)
(* shots of internal/tenantstore/verify.go) and ingests what its manifest  *)
(* lists, `import` ingests one artifact, and `sync --resume` and `sync     *)
(* --updated-since` keep the same archive up to date from Linear, all      *)
(* beside the publishers of module Artifact, who put their files where     *)
(* these commands read them.                                               *)
(*                                                                         *)
(* One command at a time is followed here; those that sync come between    *)
(* its steps whenever the lock is free (WriterMutex), each as one step, so *)
(* that no update falls into a run and the overlap is 0; what happens      *)
(* inside a run is TailSync's.  Where a run stops is open: its pages are   *)
(* used up, --max-issues is reached, or the listing ends.                  *)
(* An ingest is one atomic update of the archive (ArchiveContent).         *)
(***************************************************************************)
EXTENDS Artifact, Sequences

CONSTANT MaxListed   \* bound on the manifest

ASSUME ListAssumption == MaxListed \in Nat

VARIABLES
  dest,      \* the archive that is ingested into
  mark,      \* its saved high-water mark
  floor,     \* history: the stamp from which on the mark vouches
  locked,    \* whether its `<db>.lock` exists
  step,      \* the next step of the command
  plan,      \* the paths the command is to ingest
  nth,       \* how many of them it has checked, or ingested
  read,      \* the artifact it has decrypted and not ingested yet
  got,       \* history: what it has ingested since it took the lock
  undone     \* history: issues an ingest has put back that it vouched for

run == <<step, plan, nth, read, got>>
subVars == <<dest, mark, floor, locked, run, undone>>

Steps == {"idle", "check", "acquire", "read", "ingest"}

SubTypeOK ==
  /\ TypeOK
  /\ dest \in Contents /\ mark \in 0..MaxStamp /\ floor \in 0..MaxStamp
  /\ locked \in BOOLEAN
  /\ step \in Steps
  /\ plan \in Seq(Paths) /\ nth \in 0..Len(plan)
  /\ read \in Contents \cup {Absent}
  /\ got \in Seq(Contents) /\ Len(got) <= Len(plan)
  /\ undone \subseteq Issues

SubInit ==
  /\ Init
  /\ dest = Nothing /\ mark = 0 /\ floor = 0
  /\ locked = FALSE
  /\ step = "idle" /\ plan = <<>> /\ nth = 0 /\ read = Absent /\ got = <<>>
  /\ undone = {}

-----------------------------------------------------------------------------
(* The manifest is the operator's, who may list any paths in any order,     *)
(* whatever is there; the command reads it once.                            *)
Manifests == UNION {[1..n -> Paths] : n \in 0..MaxListed}

StartSubscribe(manifest) ==
  /\ step = "idle" /\ step' = "check"
  /\ plan' = manifest
  /\ UNCHANGED <<vars, dest, mark, floor, locked, nth, read, got, undone>>

(* Verify asks of a listed file that it is there, is not empty, and is      *)
(* listed once.                                                             *)
Passes(k) ==
  /\ file[plan[k]] # Absent /\ file[plan[k]].stage # "empty"
  /\ \A j \in 1..(k - 1) : plan[j] # plan[k]

CheckNext ==
  /\ step = "check" /\ nth < Len(plan) /\ Passes(nth + 1)
  /\ nth' = nth + 1
  /\ UNCHANGED <<vars, dest, mark, floor, locked, step, plan, read,
                 got, undone>>

WalkTree ==
  /\ step = "check" /\ nth = Len(plan)
  /\ step' = "acquire" /\ nth' = 0
  /\ UNCHANGED <<vars, dest, mark, floor, locked, plan, read, got,
                 undone>>

(* The command ends.  A slip: keeping the place in the list.                *)
Quit_KeepPlace ==
  /\ step' = "idle" /\ plan' = <<>> /\ read' = Absent /\ got' = <<>>
  /\ UNCHANGED nth

Quit ==
  /\ step' = "idle" /\ plan' = <<>> /\ read' = Absent /\ got' = <<>>
  /\ nth' = 0

(* Verify has a finding.  It goes on collecting others, to the same end.    *)
RefuseStore ==
  /\ step = "check" /\ nth < Len(plan) /\ ~Passes(nth + 1)
  /\ Quit
  /\ UNCHANGED <<vars, dest, mark, floor, locked, undone>>

(* What age lets a reader have: a file with its final chunk.  A slip: what  *)
(* there is of it.                                                          *)
Readable_Part(q) == file[q] # Absent /\ file[q].stage # "empty"

Readable(q) == file[q] # Absent /\ file[q].stage \in {"whole", "safe"}

(* `import` decrypts its one artifact before it takes the lock.             *)
StartImport(q) ==
  /\ step = "idle" /\ Readable(q)
  /\ step' = "acquire" /\ plan' = <<q>> /\ read' = file[q].holds
  /\ UNCHANGED <<vars, dest, mark, floor, locked, nth, got, undone>>

-----------------------------------------------------------------------------
Importing == read # Absent

(* A slip: going on without the lock.                                       *)
AcquireLock_None ==
  /\ step = "acquire" /\ ~locked
  /\ step' = IF Importing THEN "ingest" ELSE "read"
  /\ UNCHANGED <<vars, locked, dest, mark, floor, plan, nth, read,
                 got, undone>>

AcquireLock ==
  /\ step = "acquire" /\ ~locked /\ locked' = TRUE
  /\ step' = IF Importing THEN "ingest" ELSE "read"
  /\ UNCHANGED <<vars, dest, mark, floor, plan, nth, read, got,
                 undone>>

RefuseLocked ==
  /\ step = "acquire" /\ locked
  /\ Quit
  /\ UNCHANGED <<vars, dest, mark, floor, locked, undone>>

ReadNext ==
  /\ step = "read" /\ nth < Len(plan) /\ Readable(plan[nth + 1])
  /\ read' = file[plan[nth + 1]].holds
  /\ step' = "ingest"
  /\ UNCHANGED <<vars, dest, mark, floor, locked, plan, nth, got,
                 undone>>

(* The content of an archive once c is ingested: what c does not have stays. *)
(* A slip: c in its place.                                                  *)
Over_Replace(d, c) == c

Over(d, c) == [i \in Issues |-> IF c[i] # 0 THEN c[i] ELSE d[i]]

(* The issues the mark vouches for: it has passed their last update, so     *)
(* that no resume will ask for it again.                                    *)
Vouched == {i \in Issues : floor <= linear[i] /\ linear[i] < mark}

(* An import or a subscribe leaves the mark alone.  A slip: moving it on.   *)
MarkAfter_Moved(c) == CHOOSE s \in 0..MaxStamp :
  (\E i \in Issues : c[i] = s) /\ \A i \in Issues : c[i] <= s

MarkAfter(c) == mark

IngestNext ==
  /\ step = "ingest" /\ step' = "read"
  /\ dest' = Over(dest, read)
  /\ mark' = MarkAfter(read)
  /\ nth' = nth + 1 /\ read' = Absent
  /\ got' = Append(got, read)
  /\ undone' = {i \in Vouched :
       /\ dest'[i] # linear[i]
       /\ i \in undone \/ (read[i] # 0 /\ read[i] < dest[i])}
  /\ UNCHANGED <<vars, floor, locked, plan>>

(* The deferred close and release, whatever the outcome.                    *)
End ==
  /\ Quit
  /\ locked' = FALSE
  /\ UNCHANGED <<dest, mark, floor, undone>>

Finished == step = "read" /\ nth = Len(plan) /\ End /\ UNCHANGED vars

(* The next artifact cannot be read: it is gone, or has been cut short.     *)
ReadFails ==
  /\ step = "read" /\ nth < Len(plan) /\ ~Readable(plan[nth + 1])
  /\ End /\ UNCHANGED vars

(* The walk finds something, the disk fails, a transaction is rolled back.  *)
RunFails ==
  /\ step # "idle" /\ FaultElsewhere
  /\ IF step \in {"read", "ingest"} THEN End
     ELSE /\ Quit
          /\ UNCHANGED <<dest, mark, floor, locked, undone>>

(* The process dies: its lock stays.                                        *)
RunCrashes ==
  /\ step # "idle" /\ FaultElsewhere
  /\ Quit
  /\ UNCHANGED <<dest, mark, floor, locked, undone>>

(* The operator removes the lock of a command that is dead.                 *)
ClearLock ==
  /\ locked /\ step \notin {"read", "ingest"}
  /\ locked' = FALSE
  /\ UNCHANGED <<vars, dest, mark, floor, run, undone>>

-----------------------------------------------------------------------------
(* What a sync from s on asks for.                                          *)
Since(s) == {i \in Issues : linear[i] # 0 /\ linear[i] >= s}

(* It pulls the first issues of the listing, in whichever direction this    *)
(* runs (TailSync), and may stop anywhere.                                  *)
FromOldest(page, S) == \A i \in page, j \in S \ page : linear[i] < linear[j]
FromNewest(page, S) == \A i \in page, j \in S \ page : linear[j] < linear[i]

Pages(s) ==
  {page \in SUBSET Since(s) :
     FromOldest(page, Since(s)) \/ FromNewest(page, Since(s))}

Pulled(d, page) == [i \in Issues |-> IF i \in page THEN linear[i] ELSE d[i]]

(* From where on the mark vouches when a run has pulled all the updates     *)
(* there are from s on up to its mark: from s, and from as far back as the  *)
(* mark before, when s is inside what that one vouches for.                 *)
Joined(s) == IF mark = 0 \/ mark < s \/ s < floor THEN s ELSE floor

Sync(s, page) ==
  /\ ~locked /\ page # {}
  /\ dest' = Pulled(dest, page)
  /\ \E i \in page : /\ \A j \in page : linear[j] <= linear[i]
                     /\ mark' = linear[i]
  /\ \/ FromOldest(page, Since(s)) /\ floor' = Joined(s)
     \/ /\ ~FromOldest(page, Since(s))
        /\ \E i \in page : /\ \A j \in page : linear[i] <= linear[j]
                           /\ floor' = linear[i]
  /\ undone' = undone \ page
  /\ UNCHANGED <<vars, locked, run>>

(* `sync --resume` and `sync --updated-since s`, by another command.        *)
Resume == mark # 0 /\ \E page \in Pages(mark) : Sync(mark, page)

SyncSince(s) == \E page \in Pages(s) : Sync(s, page)

(* Either fails, after some pages: it saves no mark.                        *)
SyncFails(page) ==
  /\ ~locked /\ FaultElsewhere
  /\ dest' = Pulled(dest, page)
  /\ undone' = undone \ page
  /\ UNCHANGED <<mark, floor, locked, run>>

-----------------------------------------------------------------------------
RunStep ==
  \/ CheckNext \/ WalkTree \/ RefuseStore
  \/ AcquireLock \/ RefuseLocked
  \/ ReadNext \/ ReadFails \/ IngestNext \/ Finished

SubNext ==
  \/ Next /\ UNCHANGED subVars
  \/ \E manifest \in Manifests : StartSubscribe(manifest)
  \/ \E q \in Paths : StartImport(q)
  \/ RunStep \/ RunFails \/ RunCrashes \/ ClearLock
  \/ Resume
  \/ \E s \in 1..MaxStamp :
       SyncSince(s) \/ \E page \in Pages(s) : SyncFails(page)

SubSpec == SubInit /\ [][SubNext]_<<vars, subVars>>

-----------------------------------------------------------------------------
(* Nothing is ingested but states the published archive was in: never a     *)
(* part of one, though `subscribe` verifies, and an operator may list or    *)
(* import, a file that is still being written or was cut short.             *)
OnlyWholeStates == read \in past \cup {Absent}

(* Until the command gives the lock back, an issue is as the last of the    *)
(* artifacts ingested that has it left it: each is applied over the one     *)
(* before, and no sync comes between them.                                  *)
AppliedInOrder ==
  \A i \in Issues, k \in DOMAIN got :
    /\ got[k][i] # 0
    /\ \A m \in DOMAIN got : m > k => got[m][i] = 0
    => dest[i] = got[k][i]

(* The mark can be trusted: an issue whose last update it has passed is in  *)
(* the archive with that update, wherever the runs that saved a mark        *)
(* stopped and whatever was ingested and failed between them.  Two things   *)
(* are outside: updates older than those a run has pulled, when it began    *)
(* after the mark, or stopped early in a listing that runs newest first     *)
(* (`floor`); and issues an older artifact has put back (`undone`).         *)
MarkVouches == \A i \in Vouched \ undone : dest[i] = linear[i]
=============================================================================
