----------------------------- MODULE StoreReads -----------------------------
(***************************************************************************)
(* A reader of the archive beside the writer of module Ingest: Snapshot    *)
(* (what `publish` takes) and ExportNDJSON (what `export` writes), both of *)
(* internal/store/export.go, and Show of internal/store/store.go.          *)
(*                                                                         *)
(* The first two read the entity tables one after the other, then the      *)
(* issue rows, then the labels and the comments of each issue.  Snapshot   *)
(* does so in a read transaction, which SQLite pins to the state its first *)
(* query sees; the queries of ExportNDJSON and of Show are statements of   *)
(* their own, each of which sees what is committed by then.                *)
(***************************************************************************)
EXTENDS Ingest, FiniteSetsExt

CONSTANTS
  Tables,      \* the entity tables, as a sequence of sets of references
  Labels,      \* the references kept in issue_labels, not in the issue row
  Joined,      \* teams and workflow states, whose names Show looks up
  Ingests,     \* the issues the writer may ingest beside a read
  Listed,      \* and the entities its snapshots may list
  MaxCommits   \* bound on the committed states a read lives through

ASSUME TablesAssumption ==
  /\ Labels \subseteq Refs
  /\ Tables \in Seq(SUBSET Refs)
  /\ UNION {Tables[k] : k \in DOMAIN Tables} = Refs
  /\ Joined \subseteq Refs \ Labels
ASSUME WriterAssumption == Ingests \subseteq IssueInputs /\ Listed \subseteq Listings
ASSUME CommitsAssumption == MaxCommits \in Nat \ {0}

(* What a document holds: entities and issues, in any state of being read.  *)
Documents == [ents : Listings, issues : [IssueIds -> Contents \cup {Absent}]]

ASSUME DocumentsAssumption == Absent \notin Database \cup Documents

VARIABLES
  job,      \* "none", or one of Jobs
  at,       \* the query it has come to
  pinned,   \* the tables its transaction reads, Absent when it has none
  doc,      \* what it has read
  left,     \* the issues whose labels and comments it has yet to read
  during    \* history: what was committed at some moment of the read

reader == <<job, at, pinned, doc, left, during>>

Jobs    == {"snapshot", "export", "show"}
Queries == {"idle", "entities", "row", "labels", "comments", "done"}

NoDoc ==
  [ents   |-> [r \in Refs |-> Absent],
   rows   |-> [i \in IssueIds |-> Absent],
   refs   |-> [i \in IssueIds |-> {}],
   said   |-> [i \in IssueIds |-> [c \in Comments |-> Absent]],
   tables |-> 0]

Docs ==
  [ents   : [Refs -> Names \cup {Stub, Absent}],
   rows   : [IssueIds -> Row \cup {Absent}],
   refs   : [IssueIds -> SUBSET Refs],
   said   : [IssueIds -> [Comments -> Bodies \cup {Absent}]],
   tables : 0..Len(Tables)]

(* All a document of the archive t should hold.                             *)
Whole(t) == [ents |-> t.ents, issues |-> [i \in IssueIds |-> View(t, i)]]

ReaderTypeOK ==
  /\ job \in Jobs \cup {"none"}
  /\ at \in Queries
  /\ pinned \in Database \cup {Absent}
  /\ doc \in Docs
  /\ left \subseteq IssueIds
  /\ IsFiniteSet(during) /\ Cardinality(during) <= MaxCommits

-----------------------------------------------------------------------------
ReaderInit ==
  /\ job = "none" /\ at = "idle" /\ pinned = Absent
  /\ doc = NoDoc /\ left = {} /\ during = {}

(* The tables a query reads.  A slip: reading outside the transaction.      *)
Source_Latest == db

Source == IF pinned # Absent THEN pinned ELSE db

(* The first query of a transaction pins what all of them see.              *)
Pin == pinned' = IF job = "snapshot" THEN Source ELSE Absent

StartRead(j) ==
  /\ job = "none" /\ job' = j
  /\ at' = IF j = "show" THEN "row" ELSE "entities"
  /\ during' = {Whole(db)}
  /\ UNCHANGED <<pinned, doc, left>>

(* The tables come in a fixed order.                                        *)
ReadTable ==
  /\ at = "entities" /\ doc.tables < Len(Tables)
  /\ Pin
  /\ LET k == doc.tables + 1
     IN doc' = [doc EXCEPT !.tables = k,
                           !.ents = [r \in Refs |-> IF r \in Tables[k]
                                                      THEN Source.ents[r]
                                                      ELSE @[r]]]
  /\ UNCHANGED <<job, at, left, during>>

(* All the issue rows, with the references they carry, in one query.        *)
ReadIssues ==
  /\ at = "entities" /\ doc.tables = Len(Tables)
  /\ Pin
  /\ doc' = [doc EXCEPT
               !.rows = Source.rows,
               !.refs = [i \in IssueIds |-> Source.refs[i] \ Labels]]
  /\ left' = {i \in IssueIds : Source.rows[i] # Absent}
  /\ at' = IF left' = {} THEN "done" ELSE "labels"
  /\ UNCHANGED <<job, during>>

(* Show's first query: the row with that id or that identifier, and by its  *)
(* joins the key of its team and the name of its state.  Of its project,    *)
(* its assignee and its creator it gives the ids.  No such issue ends it.   *)
ShowRow(i) ==
  /\ at = "row" /\ Source.rows[i] # Absent
  /\ doc' = [doc EXCEPT
               !.rows[i] = Source.rows[i],
               !.refs[i] = Source.refs[i] \ Labels,
               !.ents = [r \in Refs |-> IF r \in Source.refs[i] \cap Joined
                                          THEN Source.ents[r] ELSE Absent]]
  /\ left' = {i} /\ at' = "labels"
  /\ UNCHANGED <<job, pinned, during>>

(* The next issue's labels, then its comments.  Snapshot and ExportNDJSON   *)
(* take the labels' ids; Show joins them to their names, and so gives no    *)
(* label that has no row of its own.                                        *)
Current == CHOOSE i \in left : TRUE

ReadLabels ==
  /\ at = "labels"
  /\ Pin
  /\ LET labels == {r \in Source.refs[Current] \cap Labels :
                      job = "show" => Source.ents[r] # Absent}
     IN doc' = [doc EXCEPT
                  !.refs[Current] = @ \cup labels,
                  !.ents = [r \in Refs |-> IF job = "show" /\ r \in labels
                                             THEN Source.ents[r] ELSE @[r]]]
  /\ at' = "comments"
  /\ UNCHANGED <<job, left, during>>

(* A slip: keeping the rows and not the bodies.                             *)
ReadComments_Rows ==
  /\ at = "comments"
  /\ Pin
  /\ doc' = [doc EXCEPT !.said[Current] = Source.comments]
  /\ left' = left \ {Current}
  /\ at' = IF left' = {} THEN "done" ELSE "labels"
  /\ UNCHANGED <<job, during>>

ReadComments ==
  /\ at = "comments"
  /\ Pin
  /\ doc' = [doc EXCEPT !.said[Current] =
               [c \in Comments |-> IF c \in CommentsUnder(Source, Current)
                                     THEN Source.comments[c].body
                                     ELSE Absent]]
  /\ left' = left \ {Current}
  /\ at' = IF left' = {} THEN "done" ELSE "labels"
  /\ UNCHANGED <<job, during>>

(* The document is handed over, or a query fails and there is none.         *)
EndRead ==
  /\ job # "none"
  /\ job' = "none" /\ at' = "idle" /\ pinned' = Absent
  /\ doc' = NoDoc /\ left' = {} /\ during' = {}

ReaderStep ==
  \/ \E j \in Jobs : StartRead(j)
  \/ \E i \in IssueIds : ShowRow(i)
  \/ ReadTable \/ ReadIssues \/ ReadLabels \/ ReadComments
  \/ EndRead

(* A writer commits a snapshot of at most one issue; what it has not        *)
(* committed no reader sees.  The read remembers what was there.            *)
Commits ==
  \E listed \in Listed :
    LET t == UpsertEntities(db, listed)
    IN \/ db' = t
       \/ \E x \in Ingests : Accepts(t, x) /\ db' = WithIssue(t, x)

WriterStep ==
  /\ Commits
  /\ during' = IF at \in {"idle", "done"} THEN during
                 ELSE during \cup {Whole(db')}
  /\ Cardinality(during') <= MaxCommits
  /\ UNCHANGED <<tx, inTx, snap, next, job, at, pinned, doc, left>>

ReadsInit == Init /\ ReaderInit

ReadsNext == WriterStep \/ (ReaderStep /\ UNCHANGED vars)

ReadsSpec == ReadsInit /\ [][ReadsNext]_<<vars, reader>>

-----------------------------------------------------------------------------
(* The other end.  What is handed on is the entities and the issues         *)
(* written so far, each issue once its labels and comments are there.       *)

(* A slip: an issue goes out before its comments are read.                  *)
Sent_Early ==
  {i \in IssueIds : doc.rows[i] # Absent}
    \ (IF at = "comments" THEN left \ {Current} ELSE left)

Sent == {i \in IssueIds : doc.rows[i] # Absent} \ left

Document ==
  [ents   |-> doc.ents,
   issues |-> [i \in IssueIds |->
                 IF i \in Sent
                   THEN [ident |-> doc.rows[i].ident, text |-> doc.rows[i].text,
                         refs  |-> doc.refs[i], said |-> doc.said[i]]
                   ELSE Absent]]

(* What `publish` archives: a record for each entity, issue and comment.  A *)
(* comment's record names its issue.                                        *)
SnapshotRecords(d) ==
  LET issues == {i \in IssueIds : d.issues[i] # Absent}
  IN {[type |-> "entity", id |-> r, name |-> d.ents[r]] :
        r \in {e \in Refs : d.ents[e] # Absent}}
     \cup {[type |-> "issue", id |-> i, ident |-> d.issues[i].ident,
            text |-> d.issues[i].text, refs |-> d.issues[i].refs] : i \in issues}
     \cup UNION {{[type |-> "comment", id |-> c, issue |-> i,
                   body |-> d.issues[i].said[c]] :
                     c \in {m \in Comments : d.issues[i].said[m] # Absent}} :
                  i \in issues}

(* The records put together again, in whatever order they come; there is no *)
(* document when a comment's issue is missing.                              *)
RecordsSnapshot(records) ==
  LET Of(type, id) == {x \in records : x.type = type /\ x.id = id}
      Body(c, i) == {x \in Of("comment", c) : x.issue = i}
      Only(S) == CHOOSE x \in S : TRUE
  IN IF \E x \in records : x.type = "comment" /\ Of("issue", x.issue) = {}
     THEN Absent
     ELSE [ents   |-> [r \in Refs |-> IF Of("entity", r) = {} THEN Absent
                                      ELSE Only(Of("entity", r)).name],
           issues |-> [i \in IssueIds |->
             IF Of("issue", i) = {} THEN Absent
             ELSE LET x == Only(Of("issue", i))
                  IN [ident |-> x.ident, text |-> x.text, refs |-> x.refs,
                      said  |-> [c \in Comments |->
                                   IF Body(c, i) = {} THEN Absent
                                   ELSE Only(Body(c, i)).body]]]]

(* The document ingested into an empty archive, by `sync --stdin`, `import` *)
(* or `subscribe`: one transaction, which gives up on a taken identifier.   *)
Ingested(d) ==
  LET IngestIssueOf(i, t) ==
        LET x == [id |-> i, content |-> d.issues[i]]
        IN IF t # Absent /\ Accepts(t, x) THEN WithIssue(t, x) ELSE Absent
  IN IF d = Absent THEN Absent
     ELSE FoldSet(IngestIssueOf, UpsertEntities(Empty, d.ents),
                  {i \in IssueIds : d.issues[i] # Absent})

(* `sync --stdin` refuses a stream that ends before its first object; a     *)
(* snapshot of no records is imported like any other.                       *)
Nothing == [ents   |-> [r \in Refs |-> Absent],
            issues |-> [i \in IssueIds |-> Absent]]

IngestStream(d) == IF d = Nothing THEN Absent ELSE Ingested(d)

Restored ==
  IF job = "snapshot" THEN Ingested(RecordsSnapshot(SnapshotRecords(Document)))
                      ELSE IngestStream(Document)

(* What `publish` takes is a state the archive was in, and importing it     *)
(* elsewhere gives that state.  So does what `export` writes when nothing   *)
(* it could see changed meanwhile and there was something to write.         *)
SnapshotIsOnePoint ==
  (/\ at = "done"
   /\ \/ job = "snapshot"
      \/ job = "export" /\ Cardinality(during) = 1 /\ Document # Nothing)
  => Restored # Absent /\ Whole(Restored) \in during

(* What Show has of the issue i in each of its three queries, against a     *)
(* moment t of the archive.                                                 *)
RowShown(t, i) ==
  /\ t.issues[i] # Absent
  /\ doc.rows[i].ident = t.issues[i].ident
  /\ doc.rows[i].text = t.issues[i].text
  /\ doc.refs[i] \ Labels = t.issues[i].refs \ Labels
  /\ \A r \in Refs \ Labels :
       doc.ents[r] = IF r \in t.issues[i].refs \cap Joined THEN t.ents[r]
                                                          ELSE Absent

LabelsShown(t, i) ==
  /\ t.issues[i] # Absent
  /\ doc.refs[i] \cap Labels = t.issues[i].refs \cap Labels
  /\ \A r \in t.issues[i].refs \cap Labels : doc.ents[r] = t.ents[r]

CommentsShown(t, i) ==
  t.issues[i] # Absent /\ doc.said[i] = t.issues[i].said

(* Whatever is committed beside it, `show` gives a row with the names of    *)
(* its team and state, a list of labels with their names and a list of      *)
(* comments that the issue each had, as a whole, at some moment of the      *)
(* call.  No label of the issue is lost in the join.  When nothing is       *)
(* committed meanwhile there is one moment, and the three agree.            *)
ShownAsStored ==
  at = "done" /\ job = "show" =>
    \A i \in Sent : /\ \E t \in during : RowShown(t, i)
                    /\ \E t \in during : LabelsShown(t, i)
                    /\ \E t \in during : CommentsShown(t, i)

(* An export that breaks off, or that the size limit of `sync --stdin` cuts *)
(* between two envelopes, is ingested as far as it goes, and refused only   *)
(* when it goes nowhere: each issue is there as it was exported, with all   *)
(* its labels and comments, or it is not there at all.                      *)
CutExportKeepsIssuesWhole ==
  job = "export" /\ Cardinality(during) = 1 =>
    /\ Restored = Absent <=> Document = Nothing
    /\ Restored # Absent =>
         \A i \in IssueIds : Restored.rows[i] # Absent =>
           \A t \in during : View(Restored, i) = t.issues[i]

(* `export | sync --stdin` round-trips without loss: what comes out of an   *)
(* archive with anything in it makes the other archive what this one was at *)
(* some moment of the export.                                               *)
ExportRoundTrips ==
  at = "done" /\ job = "export" /\ Document # Nothing
    => Restored # Absent /\ Whole(Restored) \in during
=============================================================================
