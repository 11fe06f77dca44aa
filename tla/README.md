# Formal models of lincrawl

lincrawl copies issues from Linear into a local SQLite archive, and moves that
archive between machines. This directory holds TLA+ models of the parts of it
whose correctness depends on order, concurrency or failure, the TLC
configurations that check them, and TLAPS proofs of theorems about them.
`PROJECT.json` maps each definition to the source lines it stands for.

## The system

| component | state | operations | interacts through |
|---|---|---|---|
| tail sync (`internal/syncer/live.go`) | the locals of one run: since, page count, cursor, issues pulled, new high-water mark, empty-page count | `IngestIssuesUpdatedSince`, `StreamIssuesUpdatedSince`, `applyOverlap` | requests to Linear; `IngestSnapshot` per page; `SaveCursor` at the end; a callback per issue when streaming |
| file lock (`internal/lock/lock.go`) | the file `<db>.lock` | `Acquire`, `Release` | taken by `sync`, `import`, `subscribe` around everything they do to the store |
| store, ingest side (`internal/store/store.go`) | tables of entities, issues, issue labels, comments, full-text index, `sync_state` | `Open`, `IngestSnapshot`, `IngestStream`, `SaveCursor`, `LoadCursor` | one SQLite transaction per snapshot; readers see committed states |
| store, read side (`store.go`, `export.go`) | none of its own | `Snapshot`, `ExportNDJSON`, `Show`, `Search`, `Counts` | read-only connections beside a writer |
| Linear client (`internal/linear/client.go`) | attempt count, page cursor | `do`/`doOnce` with retry, `paginate`, nested label and comment drains | HTTP to Linear |
| artifact (`internal/archive/archive.go`) | an encrypted JSONL file | `SnapshotRecords`, `RecordsSnapshot`, `WriteEncryptedJSONL`, `ReadEncryptedJSONL` | written by `publish` and `archive`, read by `import` and `subscribe` |
| tenant store (`internal/tenantstore/verify.go`) | a directory with a manifest and artifacts | `Verify`, `VerifiedSnapshots` | read by `store verify` and `subscribe` |
| commands (`internal/cli/cli.go`) | none between runs | `sync`, `import`, `subscribe`, `publish`, `export`, `show`, `search`, ... | compose all of the above |
| guard, config, field masks, validation, build info | none | input checks | none |

What is hard about it, and what each component must get right:

- **Tail sync.** Issues change while they are being paged through, a run may
  die anywhere, and all that survives between runs is the archive and one
  time stamp. No update may fall out of what the next `--resume` asks for;
  a page ingested late must not undo a newer one; the caps and guards must
  hold whatever the server sends; scheduled refreshes should catch up.
- **File lock.** Several commands start at once, fail on any line, or die.
  There must be one writer at a time, no mark may be lost between its load and
  its save, a file must be removed only by its creator, and every error path
  must give the lock back.
- **Ingest.** A statement fails in the middle of a batch; a hash decides that
  there is nothing to do; an index is derived from other tables; an issue comes
  before the entities it names. A batch must be atomic, and hash, index and
  references must agree with the tables.
- **Reads.** A reader takes the archive in many queries while a writer
  commits. What `publish` signs and ships must be one state of the archive, and
  importing what was exported must give back what there was.
- **Linear client.** Pages are drained while items come and go, requests fail and
  are sent again. A call that succeeds must have everything, once; the server's
  Retry-After must be honoured; every call must return.
- **Artifact, tenant store, publish, subscribe.** A publisher may fail or die at any
  call, and its file is there for others to verify and read all the while; a list of
  artifacts is not one transaction; an older artifact may go over a newer archive. A
  path is written once and freed by every error, no part of an archive is ingested,
  artifacts are applied one over the other, and the mark must not vouch for updates
  that no sync brought.

## Modules

| module | models | abstract over |
|---|---|---|
| `TailSync` | both live loops, the saved mark, `--resume` and `--updated-since` | an issue is a version and a stamp; times are ticks; the cursor is the key of the last issue of a page |
| `TailSync_proofs` | theorems about `TailSync`: types, the archive, the guards | |
| `TailEscape_proofs` | theorems about `TailSync`: what the saved mark vouches for, in both directions of the listing | |
| `FileLock` | `Acquire`, `Release` and the commands under them, system call by system call | what a command ingests; `sync`, `import` and `subscribe` differ only in whether they load and save the mark and in answering a dry run |
| `WriterMutex` | the abstract promise of the lock | everything but who holds it and who has the store open |
| `FileLock_proofs` | theorems about `FileLock` | |
| `Ingest` | `IngestSnapshot`, one loop turn per step | the five entity tables are one; SHA-256 is injective; texts are opaque |
| `ArchiveContent` | the abstract archive: content by issue, batches whole or not at all | |
| `Ingest_proofs` | theorems about `Ingest` | |
| `StoreReads` | `Snapshot`, `ExportNDJSON` and `Show`, query by query, beside the tables of `Ingest`; `SnapshotRecords`, `RecordsSnapshot`, and the document, whole or cut, ingested into an empty archive | the writer commits one issue at a time, in one step |
| `StoreReads_proofs` | theorems about `StoreReads` | |
| `LinearClient` | one call of the client: `do` and its retries, `paginate`, the nested drains, the three fetches built from them | an item is its position in its connection; HTTP is answered, failed for a retry, or failed for good |
| `LinearClient_proofs` | theorems about `LinearClient` | |
| `Artifact` | `publish`: a Snapshot, then `WriteEncryptedJSONL` call by call, with failures, crashes, losses of power and the operator's clean-up | an archive is a stamp per issue; a file is a stage and what it holds; encryption is that a cut file is known for one |
| `WriteOnce` | what `publish --out` promises of a path: free, a draft, or an artifact for good | everything but what is at the path |
| `Artifact_proofs` | theorems about `Artifact` | |
| `Subscribe` | `subscribe`, `store verify`'s checks under it, `import`, and other commands' `sync --resume` and `sync --updated-since`, composed with the publishers of `Artifact` | a sync is one step, which may stop at any page; an ingest is one step |
| `Subscribe_proofs` | theorems about `Subscribe` | |
| `MCIngest`, `MCStoreReads`, `MCSubscribe` | constants and symmetry for TLC | |

### TailSync

`Linear` is external: each issue has a version `ver` and the `stamp` of its last
update; `Update` may happen between any two steps. `Fetch` is one
`FetchIssuesUpdatedSince`: any prefix, in listing order, of the issues at or
after `since` and after the cursor, of at most `First + OverServe` issues,
empty only if nothing remains or `EmptyPages`. The query does not say which
direction `orderBy: updatedAt` sorts in, so `Ascending` is a constant and both
directions are checked. `IngestPage` is the body of the tail loop from the cut at
`--max-issues` to the stall test; the streaming loop is `StreamIngestPage`,
one `OnIssue` per callback, and `StreamEndPage`. `SaveMark` is the end of both.
`RunFails` stands for any returned error and for the death of the process.
An issue's labels and comments count as part of its version: that Linear bumps
`updatedAt` when they change is an assumption of the program and of the model.
`Leave` archives or deletes an issue: no request lists it any more. What is said of the
archive is said of the issues that are left, as the code keeps what it has of the others;
an issue that comes back to the listing is not modelled.

Five variables are history only. `floor` is the earliest stamp the saved mark
vouches for: a run that starts at or below what `--resume` would ask for extends
the window, any other (a first run, or an `--updated-since` that starts later)
starts a new one. `long` records that a saved run lasted longer than the
overlap, `cut` that a saved run stopped before the last page. `away` records that an
issue no older than the saved mark has left the listing since that mark was saved, or
that by then none was left. `delivered` is the version of each issue last handed on, by a stream to its
consumer, by a tail run to the archive.

### FileLock and WriterMutex

A process runs command after command; its `pc` is the place between two system calls.
`lockFile` is the identity of the file that has the name, by its creator; `open` is the
set of commands with a writable database handle. A command is of one of four kinds: it
loads a mark and saves one (`--resume`), saves one without loading it
(`--updated-since`), saves none, or answers a dry run. `Crash` loses the handles and leaves
the file. The refinement maps `lockFile` to `holder` and `open` to `users`.

### Ingest and ArchiveContent

`tx` is what the open transaction sees, `db` what is committed. `Begin` upserts the
entities a snapshot lists; `IngestIssue` is one turn of the issue loop with its early
`continue`; `Rollback` is any failing statement, a failing commit, or a crash
followed by SQLite's recovery. `StubMissingRefs` covers all that an issue mentions: its
references and the authors of its comments (`Mentioned`). An entity that is listed is
never refused: the `team_id` of states and labels, which the code writes as an empty
string, and its foreign key are not in the model. The refinement maps the tables to what `show` or
`export` gives of each issue.

### StoreReads

It extends `Ingest` with one reader. `StartRead` chooses the job, `ReadTable` is one of
the entity queries (they run in a fixed order), `ReadIssues` the issue rows, `ReadLabels`
and `ReadComments` the two queries per issue, `EndRead` hands the document over or
gives up on an error. Both jobs run the same queries. `Snapshot` runs them in a read
transaction: `pinned` is the state its first query saw, which SQLite's WAL mode keeps
for it. `ExportNDJSON` has no transaction, so each query reads `db` as it is by then.
A writer's step is a whole commit, as a reader cannot see less. `Restored` is
what `sync --stdin`, `import` or `subscribe` make of the document in an empty archive:
an export goes through `IngestStream`, which refuses an empty stream, while a snapshot of
no records is imported like any other.
`during` is history: the states the archive was in while the read went on.

`Show` starts at `ShowRow`, whose joins bring the names of the issue's team and state
(`Joined`); of its project, assignee and creator it gives the ids. Then it reads labels,
joined to their names, and comments, in statements of their own. `Sent` is
what an export has handed on by now: an issue goes out after its comments are read, so
a stream that ends early, or that the size cap of `IngestStream` cuts between two
envelopes, has an issue with all of it or not at all. A snapshot goes the way of
`publish`: `SnapshotRecords` takes it apart into one record per entity, issue and
comment, and `RecordsSnapshot` puts the records together in any order.

### Artifact and WriteOnce

A publisher's `pc` is its next system call: the exclusive create (`CreateFile`,
`RefuseExisting`), what reaches the file (`FlushRecords`, `FinishFile` with age's final
chunk), the sync, the close. A failing call (`WriteFails`) leads to the deferred removal
(`Undo`), which may fail as well. `Crash` runs nothing; `PowerLoss` may also take away or
empty any file that was not synced. Two publishers may have the same `--out`:
`publish` takes no lock. `Discard` is the operator who removes what a dead publisher
left. `kept` is the set of paths reported as published, `strays` the paths where a crash or a
failed removal left a file, `past` the states the published archive was in. `Slot` is the
refinement: a path in `kept` with a whole file is its content, any other file a draft.

### Subscribe

One command at a time is followed: `StartSubscribe` reads the manifest once, any list of
paths that the operator may have written; `CheckNext` is one listed file of `Verify`, `WalkTree` its end, `AcquireLock` comes after the checks,
and then each artifact is read (`ReadNext`) and ingested (`IngestNext`) in turn.
`StartImport` decrypts before it asks for the lock. All the while publishers go on,
files come and go, and other commands sync when the lock is free: `Resume` from the saved
mark, `SyncSince` from any stamp, or `SyncFails`, which has ingested some pages and saves
no mark. A sync pulls the first issues of the listing, in either direction, and may stop
anywhere (`Pages`): at its cap, at the page limit, or at the end; its mark is the highest
stamp it pulled, and is saved whatever the mark was before. `RunFails` is an error anywhere: what was ingested stays, as each snapshot is a
transaction of its own and the list of them is none. `dest` is the archive ingested into,
`mark` its high-water mark, `got` what the command has ingested since it took the lock.
Two variables are history: `floor`, the stamp from which the mark vouches for the archive,
and `undone`, the issues it vouched for that an ingest has put back. A run that listed
from the oldest has pulled everything from its `since` up to its mark, and joins what the
mark before vouched for if it began inside that (`Joined`); one that listed from the newest and
stopped early vouches only from the oldest issue it pulled.

### LinearClient

A connection is a list that grows at its end and loses items anywhere, at any time.
`FirstAnswered` is the request for issues that brings the first page of their labels and
comments; `PageAnswered` is one page of `paginate` or of a nested drain, with its ends
(no next page, no cursor), its error for a cursor that does not move, and
`PagesExceeded` at `maxPaginationPages`. `FailsRetryably`, `FailsForGood`,
`Cancelled` and `Tick` are `do` around each of them. `steady` (what was there
from the call's start) and `adrift` (a page that was not the last came without a
cursor) are history, and so is `ban`, what is left of the last Retry-After.

## Runs

| run | checks | result |
|---|---|---|
| `tail_oldest_first` | `TypeOK`, `NoEscape`, `StreamLosesNothing`, `CapRespected`, `EmptyPageGuard`, `ArchiveNeverRegresses`, `FullResumeKeepsMark` | hold |
| `tail_newest_first` | `NoEscape`, `StreamLosesNothing`, `FullResumeKeepsMark` when the listing is newest first and an issue may leave it | hold, the first two given `~cut` |
| `tail_catch_up` | `CatchUp` (liveness) without `--max-issues` | holds |
| `tail_capped_catch_up` | `CatchUp` with `--max-issues 1` | violated |
| `tail_stream_empty` | `EmptyPageGuardOfBoth`, the guard for the streaming loop too | violated |
| `lock_exclusion` | `TypeOK`, `WritersExclusive`, `MarkNotOvertaken`, `RemovesItsOwn`, `ImplementsMutex`, `LockComesFree` (liveness) | hold |
| `lock_dry_run` | `DryRunLeavesStoreAlone` | violated |
| `ingest_store` | `TypeOK`, `FtsMirrors`, `HashFaithful`, `RefsExist`, `StubsNeverBlank`, `ImplementsArchive` | hold while a comment stays under its issue |
| `reads_snapshot` | `ReaderTypeOK`, `SnapshotIsOnePoint`, `ShownAsStored`, `CutExportKeepsIssuesWhole` | hold |
| `reads_torn` | `ExportRoundTrips` beside a writer | violated |
| `publish_subscribe` | `SubTypeOK`, `RetryFindsPathFree`, `ImplementsWriteOnce`, `OnlyWholeStates`, `AppliedInOrder`, `MarkVouches` | hold |
| `client` | `TypeOK`, `DrainComplete`, `NoDuplicates`, `RateLimitHonoured`, `CallReturns` (liveness) | hold |

The violated ones are the four findings of `PROJECT.json`:

1. The issues of the overlap count against `--max-issues`. With as many of them
   as the cap, each resume pulls the same ones, saves the same mark, and never
   gets to the rest, although the skill recommends exactly that schedule.
2. The streaming loop lacks the empty-page guard that the architecture document
   lists for it.
3. A dry run of every mode but `--stdin` takes the lock and opens (creates,
   migrates) the database, although the skill says it does not touch SQLite.
4. An export beside a sync can join the rows of one committed state to the labels or
   comments of another, although the documents say that `export | sync --stdin`
   round-trips. `Snapshot` reads the same in one transaction and does not.

Some properties hold under a condition that is part of what they say:

- `NoEscape` and `StreamLosesNothing`: in ascending order the guarantee rests on the
  overlap. A run that takes longer than 60 seconds from its first request to its save
  may let an update escape, and `~long` excludes such runs. In descending order
  the first page already carries the highest stamp, and a run that saves before the last
  page (a cap, the page limit) jumps over the rest: `~cut` excludes those.
- `DrainComplete` excludes `adrift` calls: the code takes a page without a cursor for the
  last one.
- `FullResumeKeepsMark` speaks of one complete, uncapped resume, whatever runs came before
  it. It excludes `away`: when an issue at or above the mark has left the listing, the
  run's own highest stamp may be lower, and the code saves it without a comparison. The
  next resume then pulls more, not less.
- `NoDuplicates` and `DrainComplete` rest on Linear sending a cursor with every page that has
  items; from a nested first page without one, the code would drain from the start.
- `RateLimitHonoured` is about one call: the client keeps nothing from one to the next.
- `SnapshotIsOnePoint` speaks of an export only when nothing it could see was committed
  while it ran and it wrote something, and `CutExportKeepsIssuesWhole` of an export beside
  which nothing was committed. A prefix with nothing in it is refused, and only that is.
- `ShownAsStored` holds beside any commits, but each of the three answers of `show` may be
  of another moment.
- `FtsMirrors` holds while a comment stays under the issue it was created under
  (`CommentsOf`). A comment id that turns up under a second issue takes its row along and
  leaves its words in the first issue's index row.
- `RetryFindsPathFree` excludes the paths in `strays`: no deferred function runs in a
  process that was killed.
- `MarkVouches` is about the stamps from `floor` up to the mark: an `--updated-since` run
  that begins above the mark, and a newest-first run that stops early, leave a gap below
  that nobody pulls. It also excludes the issues in `undone`. Importing an older artifact puts older
  content over newer, and the mark, which an import leaves alone, is ahead of it: no
  resume asks for such an issue again until it changes at Linear.
- `LockComesFree` promises nothing after a crash or a failed removal, which leave the
  file behind for good.

### Bounds

- `TailSync`: two issues, two versions each, three clock ticks, pages of one issue
  (over-full pages of two), three pages, an overlap of one tick, one failing run, one
  `--updated-since` run besides any number of resumes. Two issues are enough for a page
  boundary between a seen and an unseen issue, for equal stamps, and for an update that
  moves an issue behind or ahead of the cursor. `tail_oldest_first` has a budget of two
  ticks, so that runs outlast the overlap; the other passing runs have one. One issue may
  leave the listing (`MaxGone`) in `tail_newest_first` and `tail_catch_up`; in
  `tail_oldest_first`, the largest, none does, and the proofs cover both.
  `CHECK_DEADLOCK FALSE`: the clock and the versions run out, and a system with no
  mark and no start left may stop.
- `FileLock`: two processes that run one command after another, two faults, marks up to
  2; the mark wraps at its bound. A third contender adds nothing to an exclusive create,
  and the proofs cover any number.
- `Ingest`: two issues, two identifiers so that a conflict is possible, one reference, two
  comments, of which one has an author, batches of up to two.
- `StoreReads`: two issues, a team that `show` joins, a person whom it does not and who wrote
  the comment, a label, and two states during a read: what the reader saw before and
  after one commit is all that tearing needs. Beside a read the writer commits from a
  selection (`Ingests`, `Listed`) in which an issue may change its identifier, team,
  label and comment, and two issues may want the same identifier.
- `PublishSubscribe`: one publisher that may publish again and again, two paths, two issues,
  stamps up to two, a manifest of at most two lines, one failure, crash or loss of power.
  So a file can be at every stage when it is verified, read or imported, an artifact
  can be older than the archive in one issue and newer in the other, a second
  publish can meet the first one's file, and a sync can stop between two issues, begin
  above the mark, or go back below it. Two publishers at one path are covered by the
  proofs, which take any number of anything. Issues and paths are symmetric: nothing
  orders them.
- `LinearClient`: two connections of two items at most, pages of one item, two pages,
  three attempts, no Retry-After or one of three ticks. A drain then ends in each of its
  ways, on a later page as well as on the first; three ticks exceed every backoff, so
  both arms of the delay are taken.

### Fairness

`FairSpec` of `TailSync` assumes that a run goes on until it returns (the process is
scheduled and the 90 s HTTP timeout ends every request) and that the operator's
schedule starts a resume again and again (`WF(Resume)`); nothing is assumed of
Linear's updates, of faults, or of the clock. `FairSpec` of `FileLock` assumes that a
started command runs until it returns. `FairSpec` of `LinearClient` assumes the same of
a call: the HTTP client's timeout ends every request, and timers fire. Nothing obliges
a request to succeed.

## Proofs

The assumptions are those the modules name: types of the constants, positive page sizes
and limits, and that a null value (no process, no file, no row) is none of the values it
stands beside. `StayAssumption` of `Ingest` alone says something of the world.

`TailSync_proofs` proves, for any number of issues and any limits:

- `TypeCorrect`: the types. The strengthening `TypeInv` adds that the page in hand is
  finite, without which the cut at `--max-issues` (a cardinality) means nothing.
- `ArchiveAdvances`: `ArchiveNeverRegresses`. By itself it is not inductive: a page is
  ingested some time after it was fetched. `HeldInv` says that the page in hand holds one
  version of each issue, no older than the archive's and no newer than Linear's; only
  one run at a time has a page in hand, which is what the lock is for.
- `CapHolds` and `EmptyPagesGuarded`: the two guards, together with the fact that only a
  stream has callbacks outstanding (`GuardInv`).

`TailEscape_proofs` proves `StreamLosesNothing` (`NothingIsLost`), `NoEscape`
(`NothingEscapes`) and `FullResumeKeepsMark` (`ResumeKeepsTheMark`), in both directions of
the listing. Only the constants' types and positive limits are assumed; `~long` and
`~cut` are conditions within the properties.

For the first two the inductive invariant `IInv` is about `Undelivered` issues: those of
which Linear has a version that was not handed on. As what is handed on is what was
ingested (`Handed`), an issue the archive is behind with is undelivered, so `NoEscape`
follows from `StreamLosesNothing`. Where an undelivered issue of the run's window can
be differs with the direction:

- Oldest first, one that was there when the run began (`Missed`) is ahead of the run
  (`AheadOfRun`): after the cursor, in the page in hand, or no earlier than the mark
  the run is about to save. That needs the mark to be no later than the cursor
  (`MarkAtCursor`) and no stamp in the future (`Clocked`). A later update is inside
  the overlap, as the run did not outlast it.
- Newest first, the mark is the first issue's, and an undelivered issue is ahead of the
  run or no older than the mark (`AheadOrNewer`): an update moves an issue from behind the
  cursor to the front of the list, where the run does not return, but gives it a stamp
  no earlier than the mark. A run that has no next page and nothing cut off has nothing
  ahead of it; `MoreToCome` says so of a run that stops at its page limit.

An issue stamped before the run's window is what the previous mark vouched for already:
hence `StreamLosesNothing` is itself a part of `IInv`. One lemma per part of the
invariant has one step per action.

`FullResumeKeepsMark` has an invariant of its own, `MarkInv`. Unless one has left, some
issue that is still listed is stamped no earlier than the saved mark (`MarkHeld`),
whatever happened to the one that set it, and it is in the window of a resume, by the
overlap. Without `--max-issues` a run
has pulled what its cursor has passed (`CursorPulled`), so that issue is pulled, in
hand, or ahead of the run (`MarkAhead`); if an update takes it back to the front of a
newest-first list, then the cursor, and with it the run's own mark, is already past the
saved one (`MarkAheadUpdate`). Nothing is asked of the runs before: what they skipped does
not matter, only that the mark was a listed issue's stamp.

`FileLock_proofs` proves, for any set of commands and any bounds, that every variable
keeps its type (`TypeCorrect`), that at most one command has the store open
(`Exclusion`), that a loaded mark is not overtaken (`NoLostMark`), that the file is
removed only by its creator (`RemovalIsOwn`), and that the lock implements
`WriterMutex` (`Refinement`). None of the last four is inductive by itself. The
strengthening says that a command which is past the exclusive create and before the
removal is the creator of the file, that a command with the store open is between open
and close, and that a resuming command's loaded mark is the stored one until it saves.
`Inductive` shows it is preserved, one step per action; the theorems follow from it.

`Ingest_proofs` proves all six properties of `ingest_store` for any issues, references,
comments and batches. `Good` says of one state of the tables that comments are where they
belong and that hash, index and references agree with the rows. It is kept by each group of
statements (`EntitiesOnly`, `StubsOnly`, `RewrittenIsGood`) and so by a turn of the loop,
whichever way the hash sends it (`TurnIsGood`), in what the transaction sees and in what
is committed. For the refinement, `Pending` says which mention of an issue the open
transaction reflects: the last one before the loop's place. `StayAssumption`, that no
comment belongs to two issues, is what `FtsMirrors`, and that rewriting an issue leaves
the others alone, rest on.

`Artifact_proofs` proves, for any number of publishers, paths, issues and faults, the types
(`TypeCorrect`), `RetryFindsPathFree` (`RetryIsSafe`), and that publishing implements
`WriteOnce` (`Implements`). Its inductive invariant `AInv` says that from the create to
the close or the removal a publisher's file is there, is nobody else's and was never
reported (`OwnFile`, `OneWriter`), how far the file is at each call (`StageOfCall`), that
a whole file holds a state the archive was in (`FromPast`), and that what was reported is
on the disk (`KeptSafe`). The assumptions are that the bounds are numbers and that "no
file", "draft", a file and a content are four different things.

`Subscribe_proofs` proves all six properties of `publish_subscribe` for any manifest and any
number of everything. `CommandIsElsewhere` shows that to the publishers each step of the
command is nothing or a failure elsewhere, so `AInv` and the refinement carry over. On
top of it `SInv` says where the command is in its list at each step (`PlaceInList`), that
it holds the lock while it reads and ingests (`HoldsLock`), that no published state is
ahead of Linear (`BehindLinear`), and that the mark is no later than some issue's last
update (`MarkReached`), without which a new update might land below it. `SyncKeepsMark` is
the step of `MarkVouches` for runs that stop anywhere: what was not pulled of the run's
window is past its mark or below its floor, and below the window the mark before vouches,
or nothing does. `LastWins` is the
step of `AppliedInOrder`: one more artifact over an archive that is as the last of those
before left it.

`StoreReads_proofs` proves all four properties of `reads_snapshot`, for any archive, any
documents and any number of commits beside a read. `ReadsInv` says of each state the
reader may be reading that what it has so far is as that state has it
(`ReadFrom`: the rows, the tables, that no issue is missing): of the
state a transaction is pinned to, and, for `export`, of the only state there was.
`ShowSoFar` says of `show`, beside any commits, that each of the queries it has made gave
what the issue had at some moment of the call; that no label is lost in its join comes from
`RefsExist`. To get from there to what the other side ingests, two lemmas say what ingesting a
document does. `IngestedIs` describes the fold over its issues by the function that
records the state after each of them (`FoldExists`; which elements the fold chooses
first does not matter) and shows what each turn adds to the archive.
`RecordsRoundTrip` shows that taking a snapshot apart into records and putting them
together in any order gives the snapshot. `RowsAssumption` and `DocumentsAssumption` say
that "absent" is no row, comment, content, archive or document.

`LinearClient_proofs` proves all four safety properties of `client`, for any connections,
lists, page sizes and limits. `IInv` says of each connection how far it has been read
(`Reached`), that the list taken from it is increasing, hence without duplicates
(`InSequence`), that nothing of it lies beyond that point (`TakenSoFar`), and that no item
which was there from the start is missing up to it (`MissingNothing`), or at all once the
connection is done. `BanWithinWait` is `RateLimitHonoured` while a call sleeps.
The model takes the least connection, a page as a sorted list, and powers of two for the
backoff; the facts about them come from the least counterexample of a set of natural
numbers (`HasLeast`, from the library's `WFMin`) and the cardinalities of finite sets,
not from an induction over an operator.

Every safety property that a passing run checks is stated by a theorem. Liveness
(`LockComesFree`, `CatchUp`, `CallReturns`) stays with TLC: the prover does not handle
fairness. So do the four violated properties, which a counterexample settles. Where TLC
has bounds in the model (`MaxClock`, `MaxVer`, `MaxFaults`, `MaxSinceRuns` and the like)
the theorems hold for every value of them.

## Not modelled, and what comes next

1. Liveness, which is model-checked at the bounds above only.
2. The composition of several locked writers with `Ingest` and `TailSync`: `Subscribe`
   takes one ingest and one sync for a step; what the proofs take for granted, that
   one run at a time writes, comes from `WriterMutex` and is not composed mechanically.
3. The stored `updated_at`, which the content hash does not cover.

Of the modelled components, these parts stand behind a nondeterministic failure or are left
out:

- `Verify`'s rules about paths, symbolic links and forbidden names compare text: the
  walk's failure in `RunFails` stands for any of their findings.
- Malformed input, and `Snapshot.Validate`, are refused before anything is written.
- The entry of a new file in its directory is taken to be on the disk once the file is
  synced, as the code assumes; SQLite's own durability is assumed.
- When `WriteEncryptedJSONL` gives up it still closes the writers of zstd and age before it
  removes the file. After a write that failed neither writes any more, and a record cannot
  fail to be encoded, so no final chunk is taken to follow.
- `Search` is one query, and `Counts` and `status` are numbers that nothing depends on.

Left out for good: `guard` (text matching), configuration loading, field masks,
argument validation, error wording, full-text ranking and snippets, encryption and
compression: no state, or formatting.
