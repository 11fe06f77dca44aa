------------------------------- MODULE Ingest -------------------------------
(***************************************************************************)
(* IngestSnapshot of internal/store/store.go: one transaction that upserts *)
(* the entities of a snapshot, then each of its issues with its labels,    *)
(* its comments, its content hash and its row of the full-text index.      *)
(*                                                                         *)
(* The five entity tables (teams, workflow_states, users, labels,          *)
(* projects) are one table here, referenced by an issue's `refs`: a row is *)
(* missing, a stub with an empty name, or named.  An entity that is listed  *)
(* is written whatever its own team is: the team_id of a label or of a      *)
(* state is not modelled, nor is its foreign key.  SHA-256 is the identity  *)
(* on what it covers.  A writer holds `<db>.lock` (module FileLock), so    *)
(* there is one transaction at a time; readers see what is committed.      *)
(***************************************************************************)
EXTENDS Naturals, Sequences, FiniteSets

CONSTANTS
  IssueIds, Refs, Comments,
  Idents,         \* identifiers, UNIQUE in the schema
  Texts,          \* title, description, priority
  Bodies,         \* what a comment says
  Names,          \* the non-empty names of entities
  CommentsOf,     \* the comments a snapshot may put under each issue
  AuthorsOf,      \* who wrote each comment, nobody when Linear does not say
  MaxBatch,       \* bound on the issues of a snapshot
  Absent, Stub    \* no row; an empty name

ASSUME NamesAssumption ==
  Absent \notin Names /\ Stub \notin Names /\ Absent # Stub
ASSUME BodiesAssumption == Absent \notin Bodies
ASSUME CommentsAssumption == CommentsOf \in [IssueIds -> SUBSET Comments]
ASSUME AuthorsAssumption == AuthorsOf \in [Comments -> SUBSET Refs]

(* A comment is created under one issue and stays there.                    *)
ASSUME StayAssumption ==
  \A i, j \in IssueIds : i # j => CommentsOf[i] \cap CommentsOf[j] = {}
ASSUME BatchAssumption == MaxBatch \in Nat

VARIABLES
  db,      \* the committed tables
  tx,      \* the tables as the open transaction sees them
  inTx,    \* whether one is open
  snap,    \* the issues of the snapshot it ingests
  next     \* the place in snap of the issue its loop has come to

vars == <<db, tx, inTx, snap, next>>

(* What is ingested of an issue, and what its hash covers.                  *)
Content(i) ==
  [ident : Idents, text : Texts, refs : SUBSET Refs,
   said : {f \in [Comments -> Bodies \cup {Absent}] :
             \A c \in Comments \ CommentsOf[i] : f[c] = Absent}]

Contents == UNION {Content(i) : i \in IssueIds}

IssueInputs ==
  UNION {[id : {i}, content : Content(i)] : i \in IssueIds}

Row     == [ident : Idents, text : Texts, hash : Contents]
Comment == [issue : IssueIds, body : Bodies]
FtsRow  == [ident : Idents, text : Texts, words : SUBSET Bodies]

ASSUME RowsAssumption == Absent \notin Row \cup Comment \cup Contents

Database ==
  [ents     : [Refs -> Names \cup {Stub, Absent}],
   rows     : [IssueIds -> Row \cup {Absent}],
   refs     : [IssueIds -> SUBSET Refs],
   comments : [Comments -> Comment \cup {Absent}],
   fts      : [IssueIds -> FtsRow \cup {Absent}]]

Empty ==
  [ents     |-> [r \in Refs |-> Absent],
   rows     |-> [i \in IssueIds |-> Absent],
   refs     |-> [i \in IssueIds |-> {}],
   comments |-> [c \in Comments |-> Absent],
   fts      |-> [i \in IssueIds |-> Absent]]

TypeOK ==
  /\ db \in Database /\ tx \in Database
  /\ inTx \in BOOLEAN
  /\ snap \in Seq(IssueInputs) /\ next \in 1..(Len(snap) + 1)

-----------------------------------------------------------------------------
(* The statements of the transaction, on the tables t.                      *)

(* Every entity the snapshot lists is upserted, an empty name included.     *)
UpsertEntities(t, listed) ==
  [t EXCEPT !.ents =
     [r \in Refs |-> IF listed[r] = Absent THEN @[r] ELSE listed[r]]]

(* What an issue refers to: its own references and its comments' authors.   *)
(* A slip: leaving the authors out.                                         *)
Mentioned_NoAuthors(content) == content.refs

Mentioned(content) ==
  content.refs \cup
    UNION {AuthorsOf[c] : c \in {d \in Comments : content.said[d] # Absent}}

(* stubMissingRefs: INSERT OR IGNORE.  Slips: INSERT OR REPLACE; no stubs.  *)
StubMissingRefs_Replace(t, refs) ==
  [t EXCEPT !.ents = [r \in Refs |-> IF r \in refs THEN Stub ELSE @[r]]]
StubMissingRefs_Never(t, refs) == t

StubMissingRefs(t, refs) ==
  [t EXCEPT !.ents =
     [r \in Refs |-> IF r \in refs /\ @[r] = Absent THEN Stub ELSE @[r]]]

(* issueContentHash.  A slip: leaving the comments out.                     *)
ContentHash_NoComments(c) == [c EXCEPT !.said = [d \in Comments |-> Absent]]

ContentHash(c) == c

Unchanged(t, x) ==
  t.rows[x.id] # Absent /\ t.rows[x.id].hash = ContentHash(x.content)

(* The UNIQUE identifier belongs to another issue.                          *)
IdentifierTaken(t, x) ==
  \E j \in IssueIds \ {x.id} :
    t.rows[j] # Absent /\ t.rows[j].ident = x.content.ident

UpsertIssue(t, x) ==
  [t EXCEPT
     !.rows[x.id] = [ident |-> x.content.ident, text |-> x.content.text,
                     hash |-> ContentHash(x.content)],
     !.refs[x.id] = x.content.refs]

(* The issue's comments are purged, then those it has now are upserted by   *)
(* id, whichever issue they were under.  A slip: no purge.                  *)
ReplaceComments_NoPurge(t, x) ==
  [t EXCEPT !.comments =
     [c \in Comments |->
        IF x.content.said[c] # Absent
          THEN [issue |-> x.id, body |-> x.content.said[c]]
          ELSE @[c]]]

ReplaceComments(t, x) ==
  [t EXCEPT !.comments =
     [c \in Comments |->
        IF x.content.said[c] # Absent
          THEN [issue |-> x.id, body |-> x.content.said[c]]
        ELSE IF @[c] # Absent /\ @[c].issue = x.id THEN Absent
        ELSE @[c]]]

CommentsUnder(t, i) ==
  {c \in Comments : t.comments[c] # Absent /\ t.comments[c].issue = i}

(* rebuildFTSForIssue reads the tables back.  A slip: inserting only when   *)
(* the issue has no row in the index yet.                                   *)
RebuildFts_Once(t, i) ==
  IF t.fts[i] # Absent THEN t
  ELSE [t EXCEPT !.fts[i] =
          [ident |-> t.rows[i].ident, text |-> t.rows[i].text,
           words |-> {t.comments[c].body : c \in CommentsUnder(t, i)}]]

RebuildFts(t, i) ==
  [t EXCEPT !.fts[i] =
     [ident |-> t.rows[i].ident, text |-> t.rows[i].text,
      words |-> {t.comments[c].body : c \in CommentsUnder(t, i)}]]

Rewritten(t, x) == RebuildFts(ReplaceComments(UpsertIssue(t, x), x), x.id)

(* One turn of the issue loop: the references are stubbed, then either the  *)
(* hash says there is nothing to do or the issue is rewritten, which fails  *)
(* when its identifier is taken.                                            *)
Accepts(t, x) == Unchanged(t, x) \/ ~IdentifierTaken(t, x)

WithIssue(t, x) ==
  LET stubbed == StubMissingRefs(t, Mentioned(x.content))
  IN IF Unchanged(stubbed, x) THEN stubbed ELSE Rewritten(stubbed, x)

-----------------------------------------------------------------------------
Init ==
  /\ db = Empty /\ tx = Empty /\ inTx = FALSE /\ snap = <<>> /\ next = 1

Batches == UNION {[1..n -> IssueInputs] : n \in 0..MaxBatch}

Listings == [Refs -> Names \cup {Stub, Absent}]

Begin(listed, issues) ==
  /\ ~inTx
  /\ inTx' = TRUE
  /\ tx' = UpsertEntities(db, listed)
  /\ snap' = issues /\ next' = 1
  /\ UNCHANGED db

IngestIssue ==
  /\ inTx /\ next <= Len(snap)
  /\ Accepts(tx, snap[next])
  /\ tx' = WithIssue(tx, snap[next])
  /\ next' = next + 1
  /\ UNCHANGED <<db, inTx, snap>>

EndTx == inTx' = FALSE /\ tx' = Empty /\ snap' = <<>> /\ next' = 1

(* A slip: keeping the place in the loop for the next snapshot.             *)
Commit_KeepPlace ==
  /\ inTx /\ next > Len(snap)
  /\ db' = tx
  /\ inTx' = FALSE /\ tx' = Empty /\ snap' = <<>>
  /\ UNCHANGED next

Commit ==
  /\ inTx /\ next > Len(snap)
  /\ db' = tx
  /\ EndTx

(* A statement fails (a taken identifier among the reasons), the commit     *)
(* fails, or the process dies: the deferred Rollback, or SQLite's recovery, *)
(* leaves what was committed.  A slip: committing what there is.            *)
Rollback_Keep ==
  /\ inTx
  /\ db' = tx
  /\ EndTx

Rollback ==
  /\ inTx
  /\ EndTx
  /\ UNCHANGED db

Next ==
  \/ \E listed \in Listings, issues \in Batches : Begin(listed, issues)
  \/ IngestIssue
  \/ Commit
  \/ Rollback

Spec == Init /\ [][Next]_vars

-----------------------------------------------------------------------------
(* What `show` and `export` give of an issue.                               *)
View(t, i) ==
  IF t.rows[i] = Absent THEN Absent
  ELSE [ident |-> t.rows[i].ident, text |-> t.rows[i].text,
        refs  |-> t.refs[i],
        said  |-> [c \in Comments |-> IF c \in CommentsUnder(t, i)
                                        THEN t.comments[c].body ELSE Absent]]

(* The full-text index mirrors the issue rows and the comment bodies.       *)
Mirrors(t) ==
  \A i \in IssueIds :
    IF t.rows[i] = Absent THEN t.fts[i] = Absent
    ELSE t.fts[i] = [ident |-> t.rows[i].ident, text |-> t.rows[i].text,
                     words |-> {t.comments[c].body : c \in CommentsUnder(t, i)}]
FtsMirrors == Mirrors(db)

(* The stored hash is the hash of what is stored, so the short-circuit of a *)
(* re-ingest never skips an issue whose stored content differs.             *)
HashedAsStored(t) ==
  \A i \in IssueIds :
    t.rows[i] # Absent => t.rows[i].hash = ContentHash(View(t, i))
HashFaithful == HashedAsStored(db)

(* A sparse pull leaves no dangling reference: every entity an issue or a   *)
(* comment names has a row, and every comment has its issue.                *)
RefsResolve(t) ==
  /\ \A i \in IssueIds : \A r \in t.refs[i] : t.ents[r] # Absent
  /\ \A c \in Comments : t.comments[c] # Absent =>
       /\ t.rows[t.comments[c].issue] # Absent
       /\ \A r \in AuthorsOf[c] : t.ents[r] # Absent
RefsExist == RefsResolve(db)

(* Ingesting an issue never blanks the name of an entity it refers to.      *)
StubsNeverBlank ==
  [][inTx /\ inTx' => \A r \in Refs : tx.ents[r] \in Names
                                        => tx'.ents[r] = tx.ents[r]]_vars

(* A transaction is a single atomic update of the content of the issues it  *)
(* mentions, the hash short-circuit and the purges notwithstanding.         *)
Archive == INSTANCE ArchiveContent
             WITH content <- [i \in IssueIds |-> View(db, i)],
                  busy <- inTx, batch <- snap
ImplementsArchive == Archive!Spec
=============================================================================
