------------------------- MODULE StoreReads_proofs -------------------------
(***************************************************************************)
(* Proofs about StoreReads, for any archive, any documents and any number  *)
(* of commits beside a read.                                               *)
(*                                                                         *)
(* Three facts carry them.  Ingesting a document that an archive could     *)
(* have given makes an archive that gives this document (IngestedIs);      *)
(* taking a document apart into records and putting it together again      *)
(* loses nothing (RecordsRoundTrip); and what a reader holds is, as far as *)
(* it has come, what one state of the archive has (ReadsInv); what Show has *)
(* is so for each of its three queries (ShowSoFar).                         *)
(***************************************************************************)
EXTENDS StoreReads, Ingest_proofs, WellFoundedInduction, FiniteSetTheorems

-----------------------------------------------------------------------------
(* Folds                                                                    *)

(* A set of natural numbers that is not empty has a least element.          *)
LEMMA HasLeast ==
  ASSUME NEW T, T \subseteq Nat, T # {}
  PROVE  \E x \in T : \A y \in T : x <= y
<1>1. PICK x \in T : \A y \in T : ~(<<y, x>> \in OpToRel(<, Nat))
  BY NatLessThanWellFounded, WFMin
<1>2. \A y \in T : ~(y < x)
  BY <1>1 DEF OpToRel
<1>3. QED
  BY <1>2

(* The element of a set that a fold takes first.                            *)
OneOf(s) == CHOOSE y \in s : TRUE

LEMMA Chosen ==
  ASSUME NEW S, IsFiniteSet(S), NEW s \in SUBSET S, s # {}
  PROVE  LET x == OneOf(s)
         IN  /\ x \in s /\ s \ {x} \in SUBSET S
             /\ IsFiniteSet(s) /\ Cardinality(s) \in Nat \ {0}
             /\ Cardinality(s \ {x}) = Cardinality(s) - 1
<1> DEFINE x == OneOf(s)
<1>1. x \in s
  BY DEF OneOf
<1> HIDE DEF x
<1>2. IsFiniteSet(s) /\ Cardinality(s) \in Nat
  BY FS_Subset, FS_CardinalityType
<1>3. Cardinality(s) # 0
  BY <1>2, FS_EmptySet
<1>4. Cardinality(s \ {x}) = Cardinality(s) - 1
  BY <1>1, <1>2, FS_RemoveElement
<1>5. QED
  BY <1>1, <1>2, <1>3, <1>4 DEF x

IsFold(f, S, base, Turn) ==
  \A s \in SUBSET S :
    f[s] = IF s = {} THEN base ELSE Turn[<<OneOf(s), f[s \ {OneOf(s)}]>>]

(* The function by which FoldSet folds a finite set exists: one is found    *)
(* for the sets of each size from one for the smaller ones.                 *)
LEMMA FoldExists ==
  ASSUME NEW S, IsFiniteSet(S), NEW V, NEW base \in V,
         NEW Turn \in [S \X V -> V]
  PROVE  \E f \in [SUBSET S -> V] : IsFold(f, S, base, Turn)
<1> DEFINE Folds(f, s) == f[s] = IF s = {} THEN base
                                 ELSE Turn[<<OneOf(s), f[s \ {OneOf(s)}]>>]
           UpTo(n) == \E f \in [SUBSET S -> V] : \A s \in SUBSET S :
                        Cardinality(s) <= n => Folds(f, s)
           Bad == {n \in Nat : ~UpTo(n)}
<1>1. \A s \in SUBSET S : s # {} =>
        /\ OneOf(s) \in s /\ s \ {OneOf(s)} \in SUBSET S
        /\ Cardinality(s) \in Nat \ {0}
        /\ Cardinality(s \ {OneOf(s)}) = Cardinality(s) - 1
  BY Chosen
<1>2. {} \in SUBSET S /\ Cardinality({}) = 0
  BY FS_EmptySet
<1>3. Bad = {}
  <2>1. SUFFICES ASSUME Bad # {} PROVE FALSE
    OBVIOUS
  <2>2. PICK n \in Bad : \A m \in Bad : n <= m
    <3>1. Bad \subseteq Nat
      OBVIOUS
    <3> HIDE DEF Bad
    <3>2. QED
      BY <2>1, <3>1, HasLeast
  <2>3. n \in Nat /\ ~UpTo(n)
    BY <2>2
  <2>4. CASE n = 0
    <3> DEFINE f == [s \in SUBSET S |-> base]
    <3>1. ASSUME NEW s \in SUBSET S, Cardinality(s) <= 0 PROVE s = {}
      <4>1. ~(Cardinality(s) \in Nat \ {0})
        BY <3>1
      <4>2. QED
        BY <1>1, <4>1
    <3>2. f \in [SUBSET S -> V] /\ \A s \in SUBSET S : s = {} => Folds(f, s)
      OBVIOUS
    <3>3. QED
      BY <2>3, <2>4, <3>1, <3>2
  <2>5. CASE n # 0
    <3>1. n - 1 \in Nat /\ UpTo(n - 1)
      <4>1. n - 1 \in Nat /\ ~(n <= n - 1)
        BY <2>3, <2>5
      <4>2. n - 1 \notin Bad
        BY <2>2, <4>1
      <4>3. QED
        BY <4>1, <4>2
    <3>2. PICK f \in [SUBSET S -> V] : \A s \in SUBSET S :
            Cardinality(s) <= n - 1 => Folds(f, s)
      BY <3>1
    <3> DEFINE g == [s \in SUBSET S |->
                       IF Cardinality(s) = n
                         THEN Turn[<<OneOf(s), f[s \ {OneOf(s)}]>>] ELSE f[s]]
    <3>3. \A s \in SUBSET S : Cardinality(s) = n => s # {}
      BY <1>2, <2>5
    <3>4. \A s \in SUBSET S : s # {} =>
            Turn[<<OneOf(s), f[s \ {OneOf(s)}]>>] \in V
      BY <1>1
    <3>5. g \in [SUBSET S -> V]
      BY <3>3, <3>4
    <3>6. ASSUME NEW s \in SUBSET S, Cardinality(s) <= n
          PROVE  Folds(g, s)
      <4>1. CASE s = {}
        <5>1. Folds(f, s) /\ g[s] = f[s]
          BY <1>2, <2>5, <3>1, <3>2, <4>1
        <5>2. QED
          BY <4>1, <5>1
      <4>2. CASE s # {}
        <5>1. /\ s \ {OneOf(s)} \in SUBSET S /\ Cardinality(s) \in Nat
              /\ Cardinality(s \ {OneOf(s)}) = Cardinality(s) - 1
          BY <1>1, <4>2
        <5>2. g[s \ {OneOf(s)}] = f[s \ {OneOf(s)}]
          BY <2>3, <3>6, <5>1
        <5>3. CASE Cardinality(s) = n
          BY <4>2, <5>2, <5>3
        <5>4. CASE Cardinality(s) # n
          <6>1. Folds(f, s) /\ g[s] = f[s]
            BY <2>3, <3>2, <3>6, <5>1, <5>4
          <6>2. QED
            BY <4>2, <5>2, <6>1
        <5>5. QED
          BY <5>3, <5>4
      <4>3. QED
        BY <4>1, <4>2
    <3>7. UpTo(n)
      BY <3>5, <3>6
    <3>8. QED
      BY <2>3, <3>7
  <2>6. QED
    BY <2>4, <2>5
<1>4. Cardinality(S) \in Nat /\ UpTo(Cardinality(S))
  BY <1>3, FS_CardinalityType
<1>5. \A s \in SUBSET S : Cardinality(s) <= Cardinality(S)
  BY FS_Subset
<1>6. QED
  BY <1>4, <1>5 DEF IsFold
-----------------------------------------------------------------------------
(* Archives                                                                 *)

(* The issues an archive has.                                               *)
Stored(t) == {i \in IssueIds : t.rows[i] # Absent}

UniqueIdents(t) ==
  \A i, j \in Stored(t) : i # j => t.rows[i].ident # t.rows[j].ident

Sound(t) == Good(t) /\ UniqueIdents(t) /\ IsFiniteSet(Stored(t))

(* What an archive gives of an issue it has is content that could have been *)
(* ingested, and names only entities it has.                                *)
LEMMA ViewIs ==
  ASSUME NEW t, Good(t), NEW i \in IssueIds
  PROVE  /\ t.rows[i] = Absent => View(t, i) = Absent
         /\ t.rows[i] # Absent =>
              /\ View(t, i) \in Content(i) /\ View(t, i) \in Contents
              /\ View(t, i) # Absent
              /\ View(t, i).ident = t.rows[i].ident
              /\ View(t, i).text = t.rows[i].text
              /\ View(t, i).refs = t.refs[i]
              /\ View(t, i).said = [c \in Comments |->
                   IF c \in CommentsUnder(t, i) THEN t.comments[c].body
                                                ELSE Absent]
              /\ \A r \in Mentioned(View(t, i)) : t.ents[r] # Absent
<1> SUFFICES ASSUME t.rows[i] # Absent
             PROVE  /\ View(t, i) \in Content(i) /\ View(t, i) \in Contents
                    /\ View(t, i) # Absent
                    /\ View(t, i).ident = t.rows[i].ident
                    /\ View(t, i).text = t.rows[i].text
                    /\ View(t, i).refs = t.refs[i]
                    /\ View(t, i).said = [c \in Comments |->
                         IF c \in CommentsUnder(t, i) THEN t.comments[c].body
                                                      ELSE Absent]
                    /\ \A r \in Mentioned(View(t, i)) : t.ents[r] # Absent
  BY DEF View
<1> DEFINE said == [c \in Comments |-> IF c \in CommentsUnder(t, i)
                                         THEN t.comments[c].body ELSE Absent]
<1>1. /\ t.rows[i].ident \in Idents /\ t.rows[i].text \in Texts
      /\ t.refs[i] \in SUBSET Refs
  BY DEF Good, Database, Row
<1>2. said \in [Comments -> Bodies \cup {Absent}]
  BY DEF Good, Database, Comment, CommentsUnder
<1>3. \A c \in Comments \ CommentsOf[i] : said[c] = Absent
  BY DEF Good, CommentsInPlace, CommentsUnder
<1> HIDE DEF said
<1>4. View(t, i) = [ident |-> t.rows[i].ident, text |-> t.rows[i].text,
                    refs |-> t.refs[i], said |-> said]
  BY DEF View, said
<1>5. View(t, i) \in Content(i)
  BY <1>1, <1>2, <1>3, <1>4 DEF Content
<1>6. View(t, i) \in Contents
  BY <1>5 DEF Contents
<1>7. View(t, i) # Absent
  BY <1>6, RowsAssumption
<1>8. \A r \in Mentioned(View(t, i)) : t.ents[r] # Absent
  <2>1. \A r \in t.refs[i] : t.ents[r] # Absent
    BY DEF Good, RefsResolve
  <2>2. ASSUME NEW c \in Comments, said[c] # Absent
        PROVE  \A r \in AuthorsOf[c] : t.ents[r] # Absent
    BY <2>2 DEF Good, RefsResolve, CommentsUnder, said
  <2>3. QED
    BY <1>4, <2>1, <2>2 DEF Mentioned
<1>9. QED
  BY <1>4, <1>5, <1>6, <1>7, <1>8 DEF said

LEMMA EmptyIsSound == Sound(Empty)
<1>1. Stored(Empty) = {}
  BY DEF Stored, Empty
<1>2. QED
  BY <1>1, EmptyIsGood, FS_EmptySet DEF Sound, UniqueIdents

LEMMA EntitiesSound ==
  ASSUME NEW t, Sound(t), NEW listed \in Listings,
         NEW u, u = UpsertEntities(t, listed)
  PROVE  Sound(u) /\ \A i \in IssueIds : View(u, i) = View(t, i)
<1>1. /\ u \in Database /\ u.rows = t.rows /\ u.refs = t.refs
      /\ u.comments = t.comments /\ u.fts = t.fts
      /\ \A r \in Refs : t.ents[r] # Absent => u.ents[r] # Absent
  BY EntitiesOnly DEF Sound, Good
<1>2. Good(u) /\ \A i \in IssueIds : View(u, i) = View(t, i)
  BY <1>1, GoodStays, SameView DEF Sound
<1>3. QED
  BY <1>1, <1>2 DEF Sound, UniqueIdents, Stored

(* An issue that is accepted leaves identifiers unique, and the entities    *)
(* alone when it refers to those that are there.                            *)
LEMMA TurnSound ==
  ASSUME NEW t, Sound(t), NEW x \in IssueInputs, Accepts(t, x),
         NEW u, u = WithIssue(t, x)
  PROVE  /\ Sound(u) /\ View(u, x.id) = x.content
         /\ \A j \in IssueIds \ {x.id} : View(u, j) = View(t, j)
         /\ (\A r \in Mentioned(x.content) : t.ents[r] # Absent) => u.ents = t.ents
<1>1. /\ x.id \in IssueIds /\ x.content \in Contents
      /\ Mentioned(x.content) \in SUBSET Refs
  BY InputShape
<1>2. /\ Good(t) /\ Good(u) /\ View(u, x.id) = x.content
      /\ \A j \in IssueIds \ {x.id} : View(u, j) = View(t, j)
  BY TurnIsGood DEF Sound
<1>3. ASSUME NEW j \in IssueIds \ {x.id}
      PROVE  /\ j \in Stored(u) <=> j \in Stored(t)
             /\ j \in Stored(t) => u.rows[j].ident = t.rows[j].ident
  <2>1. /\ View(u, j) = View(t, j)
        /\ u.rows[j] = Absent <=> View(u, j) = Absent
        /\ t.rows[j] = Absent <=> View(t, j) = Absent
    BY <1>2, <1>3, ViewIs
  <2>2. ASSUME t.rows[j] # Absent PROVE u.rows[j].ident = t.rows[j].ident
    <3>1. View(t, j).ident = t.rows[j].ident
      BY <1>2, <2>2, ViewIs
    <3>2. View(u, j).ident = u.rows[j].ident
      BY <1>2, <2>1, <2>2, ViewIs
    <3>3. QED
      BY <2>1, <3>1, <3>2
  <2>3. QED
    BY <2>1, <2>2 DEF Stored
<1>4. x.id \in Stored(u) /\ u.rows[x.id].ident = x.content.ident
  <2>1. View(u, x.id) # Absent
    BY <1>1, <1>2, RowsAssumption
  <2>2. QED
    BY <1>1, <1>2, <2>1, ViewIs DEF Stored
<1>5. Stored(u) = Stored(t) \cup {x.id}
  BY <1>1, <1>3, <1>4 DEF Stored
<1>6. IsFiniteSet(Stored(u))
  BY <1>5, FS_AddElement DEF Sound
<1>7. ASSUME NEW j \in Stored(t), j # x.id
      PROVE  t.rows[j].ident # x.content.ident
  <2>1. CASE Unchanged(t, x)
    <3>1. x.id \in Stored(t) /\ View(t, x.id) = x.content
      BY <1>1, <1>2, <2>1
         DEF Unchanged, Good, HashedAsStored, ContentHash, Stored
    <3>2. t.rows[x.id].ident = x.content.ident
      BY <1>1, <1>2, <3>1, ViewIs DEF Stored
    <3>3. QED
      BY <1>7, <3>1, <3>2 DEF Sound, UniqueIdents
  <2>2. CASE ~IdentifierTaken(t, x)
    BY <1>7, <2>2 DEF IdentifierTaken, Stored
  <2>3. QED
    BY <2>1, <2>2 DEF Accepts
<1>8. UniqueIdents(u)
  <2>1. SUFFICES ASSUME NEW i \in Stored(u), NEW j \in Stored(u), i # j
                 PROVE  u.rows[i].ident # u.rows[j].ident
    BY DEF UniqueIdents
  <2>2. i \in IssueIds /\ j \in IssueIds
    BY DEF Stored
  <2>3. CASE i = x.id \/ j = x.id
    BY <1>3, <1>4, <1>7, <2>1, <2>2, <2>3
  <2>4. CASE i # x.id /\ j # x.id
    BY <1>3, <2>1, <2>2, <2>4 DEF Sound, UniqueIdents
  <2>5. QED
    BY <2>3, <2>4
<1>9. ASSUME \A r \in Mentioned(x.content) : t.ents[r] # Absent
      PROVE  u.ents = t.ents
  <2>1. t \in Database
    BY <1>2 DEF Good
  <2> DEFINE s == StubMissingRefs(t, Mentioned(x.content))
  <2>2. s \in Database
    BY <1>1, <2>1, StubsOnly
  <2>3. s.ents = t.ents
    BY <1>9, <2>1 DEF StubMissingRefs, Database
  <2> HIDE DEF s
  <2>4. u = s \/ u = Rewritten(s, x)
    BY DEF WithIssue, s
  <2>5. QED
    <3>1. u = Rewritten(s, x) => u.ents = s.ents
      BY <2>2 DEF Rewritten, RebuildFts, ReplaceComments, UpsertIssue, Database
    <3>2. QED
      BY <2>3, <2>4, <3>1
<1>10. QED
  BY <1>2, <1>6, <1>8, <1>9 DEF Sound
-----------------------------------------------------------------------------
(* Documents                                                                *)

IssuesOf(d) == {i \in IssueIds : d.issues[i] # Absent}

(* A document an archive could have given, in whole or in part.             *)
IsDocument(d) ==
  /\ d \in Documents
  /\ \A i \in IssuesOf(d) : d.issues[i] \in Content(i)
  /\ \A i, j \in IssuesOf(d) : i # j => d.issues[i].ident # d.issues[j].ident
  /\ IsFiniteSet(IssuesOf(d))

(* One that has every entity its issues and their comments refer to.        *)
IsComplete(d) ==
  \A i \in IssuesOf(d) : \A r \in Mentioned(d.issues[i]) : d.ents[r] # Absent

InputOf(d, i) == [id |-> i, content |-> d.issues[i]]

Turned(d, i, t) ==
  IF t # Absent /\ Accepts(t, InputOf(d, i)) THEN WithIssue(t, InputOf(d, i))
                                             ELSE Absent

LEMMA InputOfTyped ==
  ASSUME NEW d, IsDocument(d), NEW i \in IssuesOf(d)
  PROVE  InputOf(d, i) \in IssueInputs
BY DEF IsDocument, IssuesOf, InputOf, IssueInputs

LEMMA TurnTyped ==
  ASSUME NEW t \in Database, NEW x \in IssueInputs
  PROVE  WithIssue(t, x) \in Database
<1> DEFINE s == StubMissingRefs(t, Mentioned(x.content))
<1>1. s \in Database
  BY InputShape, StubsOnly
<1> HIDE DEF s
<1>2. WithIssue(t, x) = s \/ WithIssue(t, x) = Rewritten(s, x)
  BY DEF WithIssue, s
<1>3. QED
  BY <1>1, <1>2, RewrittenIs

(* Ingesting a document is turning its issues one after the other.          *)
LEMMA IngestedFolds ==
  ASSUME NEW d, IsDocument(d)
  PROVE  \E f : /\ Ingested(d) = f[IssuesOf(d)]
                /\ \A s \in SUBSET IssuesOf(d) :
                     f[s] = IF s = {} THEN UpsertEntities(Empty, d.ents)
                            ELSE Turned(d, OneOf(s), f[s \ {OneOf(s)}])
<1> DEFINE S == IssuesOf(d)
           base == UpsertEntities(Empty, d.ents)
           V == Database \cup {Absent}
           Turn == [p \in S \X V |-> Turned(d, p[1], p[2])]
           Solves(g) == g = [s \in SUBSET S |->
                               IF s = {} THEN base
                               ELSE Turned(d, OneOf(s), g[s \ {OneOf(s)}])]
<1>1. d # Absent /\ d.ents \in Listings
  BY DocumentsAssumption DEF IsDocument, Documents
<1>2. base \in V
  BY <1>1, EmptyIsGood, EntitiesOnly DEF Good
<1>3. ASSUME NEW i \in S, NEW t \in V PROVE Turned(d, i, t) \in V
  BY InputOfTyped, TurnTyped DEF Turned
<1>4. Turn \in [S \X V -> V]
  BY <1>3
<1>5. IsFiniteSet(S)
  BY DEF IsDocument
<1>6. \E g : Solves(g)
  <2> HIDE DEF S, base, V
  <2>1. PICK f \in [SUBSET S -> V] : IsFold(f, S, base, Turn)
    <3> HIDE DEF Turn, Solves
    <3>1. QED
      BY <1>2, <1>4, <1>5, FoldExists
  <2>2. ASSUME NEW s \in SUBSET S
        PROVE  f[s] = IF s = {} THEN base
                      ELSE Turned(d, OneOf(s), f[s \ {OneOf(s)}])
    <3> DEFINE x == OneOf(s)
    <3>1. s # {} => x \in S /\ f[s \ {x}] \in V
      BY <2>1 DEF OneOf
    <3> HIDE DEF x
    <3>2. s # {} => Turn[<<x, f[s \ {x}]>>] = Turned(d, x, f[s \ {x}])
      BY <3>1
    <3>3. f[s] = IF s = {} THEN base ELSE Turn[<<x, f[s \ {x}]>>]
      BY <2>1 DEF x, IsFold
    <3>4. QED
      BY <3>2, <3>3 DEF x
  <2>3. Solves(f)
    <3> DEFINE e == [s \in SUBSET S |->
                       IF s = {} THEN base
                       ELSE Turned(d, OneOf(s), f[s \ {OneOf(s)}])]
    <3>1. DOMAIN f = SUBSET S /\ f = [s \in SUBSET S |-> f[s]]
      BY <2>1
    <3>2. \A s \in SUBSET S : f[s] = e[s]
      BY <2>2
    <3>3. f = e
      BY <3>1, <3>2
    <3>4. QED
      BY <3>3
  <2>4. QED
    BY <2>3
<1> DEFINE iter == CHOOSE g : Solves(g)
<1>7. Solves(iter)
  BY <1>6
<1>8. Ingested(d) = iter[S]
  BY <1>1 DEF Ingested, FoldSet, MapThenFoldSet, Turned, InputOf, IssuesOf, OneOf
<1> HIDE DEF iter
<1>9. QED
  BY <1>7, <1>8
(* What an archive is once the issues s of the document d are in.           *)
Holds(t, d, s) ==
  /\ Sound(t)
  /\ \A i \in IssueIds : View(t, i) = IF i \in s THEN d.issues[i] ELSE Absent
  /\ IsComplete(d) => t.ents = d.ents

LEMMA NoneHeld ==
  ASSUME NEW d, IsDocument(d)
  PROVE  Holds(UpsertEntities(Empty, d.ents), d, {})
<1> DEFINE t == UpsertEntities(Empty, d.ents)
<1>1. d.ents \in Listings
  BY DEF IsDocument, Documents
<1>2. Sound(t) /\ \A i \in IssueIds : View(t, i) = View(Empty, i)
  BY <1>1, EmptyIsSound, EntitiesSound
<1>3. \A i \in IssueIds : View(Empty, i) = Absent
  BY DEF View, Empty
<1>4. t.ents = d.ents
  BY <1>1 DEF UpsertEntities, Empty, Listings
<1>5. QED
  BY <1>2, <1>3, <1>4 DEF Holds

LEMMA OneMoreHeld ==
  ASSUME NEW d, IsDocument(d), NEW s \in SUBSET IssuesOf(d), NEW x \in s,
         NEW t, Holds(t, d, s \ {x})
  PROVE  Holds(Turned(d, x, t), d, s)
<1> DEFINE in == InputOf(d, x)
<1>1. in \in IssueInputs /\ x \in IssuesOf(d) /\ x \in IssueIds
  BY InputOfTyped DEF IssuesOf
<1>2. in.id = x /\ in.content = d.issues[x]
  BY DEF InputOf
<1> HIDE DEF in
<1>3. t \in Database /\ t # Absent /\ Sound(t) /\ Good(t)
  BY DocumentsAssumption DEF Holds, Sound, Good
<1>4. Accepts(t, in)
  <2>1. SUFFICES ASSUME NEW j \in IssueIds \ {x}, t.rows[j] # Absent
                 PROVE  t.rows[j].ident # d.issues[x].ident
    BY <1>2 DEF Accepts, IdentifierTaken
  <2>2. View(t, j) # Absent /\ View(t, j).ident = t.rows[j].ident
    BY <1>3, <2>1, ViewIs
  <2>3. j \in s /\ View(t, j) = d.issues[j]
    BY <2>2 DEF Holds
  <2>4. QED
    BY <1>1, <2>2, <2>3 DEF IsDocument
<1>5. Turned(d, x, t) = WithIssue(t, in)
  BY <1>3, <1>4 DEF Turned, in
<1> DEFINE u == WithIssue(t, in)
<1>6. /\ Sound(u) /\ View(u, x) = d.issues[x]
      /\ \A j \in IssueIds \ {x} : View(u, j) = View(t, j)
      /\ (\A r \in Mentioned(d.issues[x]) : t.ents[r] # Absent) => u.ents = t.ents
  BY <1>1, <1>2, <1>3, <1>4, TurnSound
<1> HIDE DEF u
<1>7. ASSUME NEW j \in IssueIds
      PROVE  View(u, j) = IF j \in s THEN d.issues[j] ELSE Absent
  BY <1>6 DEF Holds
<1>8. IsComplete(d) => u.ents = d.ents
  BY <1>1, <1>6 DEF Holds, IsComplete
<1>9. QED
  BY <1>5, <1>6, <1>7, <1>8 DEF Holds, u

(* Ingesting a document makes an archive that gives it.                     *)
LEMMA IngestedIs ==
  ASSUME NEW d, IsDocument(d)
  PROVE  Holds(Ingested(d), d, IssuesOf(d))
<1> DEFINE S == IssuesOf(d)
<1>1. PICK f : /\ Ingested(d) = f[S]
               /\ \A s \in SUBSET S :
                    f[s] = IF s = {} THEN UpsertEntities(Empty, d.ents)
                           ELSE Turned(d, OneOf(s), f[s \ {OneOf(s)}])
  BY IngestedFolds
<1>2. IsFiniteSet(S)
  BY DEF IsDocument
<1> DEFINE Bad == {n \in Nat : \E s \in SUBSET S :
                                 Cardinality(s) = n /\ ~Holds(f[s], d, s)}
<1>3. Bad = {}
  <2>1. SUFFICES ASSUME Bad # {} PROVE FALSE
    OBVIOUS
  <2>2. PICK n \in Bad : \A m \in Bad : n <= m
    <3>1. Bad \subseteq Nat
      OBVIOUS
    <3> HIDE DEF Bad
    <3>2. QED
      BY <2>1, <3>1, HasLeast
  <2>3. PICK s \in SUBSET S : Cardinality(s) = n /\ ~Holds(f[s], d, s)
    BY <2>2
  <2>4. CASE s = {}
    BY <1>1, <2>3, <2>4, NoneHeld
  <2>5. CASE s # {}
    <3> DEFINE x == OneOf(s)
    <3>1. /\ x \in s /\ s \ {x} \in SUBSET S
          /\ Cardinality(s) \in Nat \ {0}
          /\ Cardinality(s \ {x}) = Cardinality(s) - 1
      BY <1>2, <2>5, Chosen
    <3>2. f[s] = Turned(d, x, f[s \ {x}])
      BY <1>1, <2>5
    <3> HIDE DEF x
    <3>3. n - 1 \in Nat /\ ~(n <= n - 1) /\ Cardinality(s \ {x}) = n - 1
      BY <2>3, <3>1
    <3>4. n - 1 \notin Bad
      BY <2>2, <3>3
    <3>5. Holds(f[s \ {x}], d, s \ {x})
      BY <3>1, <3>3, <3>4
    <3>6. QED
      BY <2>3, <3>1, <3>2, <3>5, OneMoreHeld
  <2>6. QED
    BY <2>4, <2>5
<1>4. Cardinality(S) \in Nat
  BY <1>2, FS_CardinalityType
<1>5. Holds(f[S], d, S)
  BY <1>3, <1>4
<1>6. QED
  BY <1>1, <1>5

(* A document whose every issue refers to what it has, ingested, is what    *)
(* the archive then is.                                                     *)
LEMMA IngestedWhole ==
  ASSUME NEW d, IsDocument(d), IsComplete(d)
  PROVE  Ingested(d) # Absent /\ Whole(Ingested(d)) = d
<1>1. Holds(Ingested(d), d, IssuesOf(d))
  BY IngestedIs
<1>2. Ingested(d) # Absent
  BY <1>1, DocumentsAssumption DEF Holds, Sound, Good
<1>3. d = [ents |-> d.ents, issues |-> d.issues]
      /\ d.issues = [i \in IssueIds |-> d.issues[i]]
  BY DEF IsDocument, Documents
<1>4. \A i \in IssueIds : View(Ingested(d), i) = d.issues[i]
  BY <1>1 DEF Holds, IssuesOf
<1>5. QED
  BY <1>1, <1>2, <1>3, <1>4 DEF Holds, Whole
-----------------------------------------------------------------------------
(* Records                                                                  *)

EntityRecord(d, r) == [type |-> "entity", id |-> r, name |-> d.ents[r]]

IssueRecord(d, i) ==
  [type |-> "issue", id |-> i, ident |-> d.issues[i].ident,
   text |-> d.issues[i].text, refs |-> d.issues[i].refs]

CommentRecord(d, i, c) ==
  [type |-> "comment", id |-> c, issue |-> i, body |-> d.issues[i].said[c]]

(* Which records there are of an entity, of an issue, and of a comment      *)
(* under an issue.                                                          *)
LEMMA RecordsAre ==
  ASSUME NEW d, NEW R, R = SnapshotRecords(d)
  PROVE  /\ \A r \in Refs : {x \in R : x.type = "entity" /\ x.id = r} =
              IF d.ents[r] = Absent THEN {} ELSE {EntityRecord(d, r)}
         /\ \A i \in IssueIds : {x \in R : x.type = "issue" /\ x.id = i} =
              IF d.issues[i] = Absent THEN {} ELSE {IssueRecord(d, i)}
         /\ \A i \in IssuesOf(d), c \in Comments :
              {x \in {y \in R : y.type = "comment" /\ y.id = c} : x.issue = i} =
                IF d.issues[i].said[c] = Absent THEN {}
                                                ELSE {CommentRecord(d, i, c)}
         /\ \A x \in R : x.type = "comment" => x.issue \in IssuesOf(d)
<1>1. \A x : x \in R <=>
        \/ \E r \in Refs : d.ents[r] # Absent /\ x = EntityRecord(d, r)
        \/ \E i \in IssuesOf(d) : x = IssueRecord(d, i)
        \/ \E i \in IssuesOf(d), c \in Comments :
             d.issues[i].said[c] # Absent /\ x = CommentRecord(d, i, c)
  BY DEF SnapshotRecords, IssuesOf, EntityRecord, IssueRecord, CommentRecord
<1>2. \A r : /\ EntityRecord(d, r).type = "entity"
             /\ EntityRecord(d, r).id = r
  BY DEF EntityRecord
<1>3. \A i : /\ IssueRecord(d, i).type = "issue"
             /\ IssueRecord(d, i).id = i
  BY DEF IssueRecord
<1>4. \A i, c : /\ CommentRecord(d, i, c).type = "comment"
                /\ CommentRecord(d, i, c).id = c
                /\ CommentRecord(d, i, c).issue = i
  BY DEF CommentRecord
<1>5. \A r \in Refs : {x \in R : x.type = "entity" /\ x.id = r} =
        IF d.ents[r] = Absent THEN {} ELSE {EntityRecord(d, r)}
  BY <1>1, <1>2, <1>3, <1>4
<1>6. \A i \in IssueIds : {x \in R : x.type = "issue" /\ x.id = i} =
        IF d.issues[i] = Absent THEN {} ELSE {IssueRecord(d, i)}
  BY <1>1, <1>2, <1>3, <1>4 DEF IssuesOf
<1>7. \A i \in IssuesOf(d), c \in Comments :
        {x \in {y \in R : y.type = "comment" /\ y.id = c} : x.issue = i} =
          IF d.issues[i].said[c] = Absent THEN {} ELSE {CommentRecord(d, i, c)}
  BY <1>1, <1>2, <1>3, <1>4
<1>8. \A x \in R : x.type = "comment" => x.issue \in IssuesOf(d)
  BY <1>1, <1>2, <1>3, <1>4
<1>9. QED
  BY <1>5, <1>6, <1>7, <1>8

(* Taken apart and put together again, a document is what it was.           *)
LEMMA RecordsRoundTrip ==
  ASSUME NEW d, IsDocument(d)
  PROVE  RecordsSnapshot(SnapshotRecords(d)) = d
<1> DEFINE R == SnapshotRecords(d)
           Of(type, id) == {x \in R : x.type = type /\ x.id = id}
           Body(c, i) == {x \in Of("comment", c) : x.issue = i}
           Only(T) == CHOOSE x \in T : TRUE
           issue(i) == LET x == Only(Of("issue", i))
                       IN [ident |-> x.ident, text |-> x.text, refs |-> x.refs,
                           said  |-> [c \in Comments |->
                                        IF Body(c, i) = {} THEN Absent
                                        ELSE Only(Body(c, i)).body]]
           ents == [r \in Refs |-> IF Of("entity", r) = {} THEN Absent
                                   ELSE Only(Of("entity", r)).name]
           issues == [i \in IssueIds |-> IF Of("issue", i) = {} THEN Absent
                                         ELSE issue(i)]
<1>1. /\ \A r \in Refs : Of("entity", r) =
           IF d.ents[r] = Absent THEN {} ELSE {EntityRecord(d, r)}
      /\ \A i \in IssueIds : Of("issue", i) =
           IF d.issues[i] = Absent THEN {} ELSE {IssueRecord(d, i)}
      /\ \A i \in IssuesOf(d), c \in Comments : Body(c, i) =
           IF d.issues[i].said[c] = Absent THEN {} ELSE {CommentRecord(d, i, c)}
      /\ \A x \in R : x.type = "comment" => x.issue \in IssuesOf(d)
  BY RecordsAre
<1>2. ~\E x \in R : x.type = "comment" /\ Of("issue", x.issue) = {}
  <2> HIDE DEF R
  <2>1. \A i \in IssuesOf(d) : Of("issue", i) # {}
    BY <1>1 DEF IssuesOf
  <2>2. QED
    BY <1>1, <2>1
<1>3. RecordsSnapshot(R) = [ents |-> ents, issues |-> issues]
  <2> HIDE DEF R
  <2>1. QED
    BY <1>2 DEF RecordsSnapshot
<1> HIDE DEF R, Of, Body
<1>4. \A y : Only({y}) = y
  OBVIOUS
<1> HIDE DEF Only
<1>5. d.ents \in Listings /\ d.issues \in [IssueIds -> Contents \cup {Absent}]
      /\ d = [ents |-> d.ents, issues |-> d.issues]
  BY DEF IsDocument, Documents
<1>6. ents = d.ents
  <2>1. \A r \in Refs : ents[r] = d.ents[r]
    <3>1. SUFFICES ASSUME NEW r \in Refs PROVE ents[r] = d.ents[r]
      OBVIOUS
    <3>2. d.ents[r] # Absent => Only(Of("entity", r)) = EntityRecord(d, r)
      BY <1>1, <1>4
    <3>3. EntityRecord(d, r).name = d.ents[r]
      BY DEF EntityRecord
    <3>4. Of("entity", r) = {} <=> d.ents[r] = Absent
      BY <1>1
    <3>5. QED
      BY <3>2, <3>3, <3>4
  <2>2. d.ents \in [Refs -> Names \cup {Stub, Absent}]
    BY <1>5 DEF Listings
  <2>3. QED
    BY <2>1, <2>2
<1>7. ASSUME NEW i \in IssuesOf(d) PROVE issue(i) = d.issues[i]
  <2>1. i \in IssueIds /\ d.issues[i] \in Content(i) /\ d.issues[i] # Absent
    BY <1>7 DEF IssuesOf, IsDocument
  <2>2. /\ d.issues[i] = [ident |-> d.issues[i].ident,
                          text |-> d.issues[i].text,
                          refs |-> d.issues[i].refs,
                          said |-> d.issues[i].said]
        /\ d.issues[i].said \in [Comments -> Bodies \cup {Absent}]
    BY <2>1 DEF Content
  <2>3. Only(Of("issue", i)) = IssueRecord(d, i)
    BY <1>1, <1>4, <2>1
  <2>4. ASSUME NEW c \in Comments
        PROVE  (IF Body(c, i) = {} THEN Absent ELSE Only(Body(c, i)).body)
                 = d.issues[i].said[c]
    <3>1. /\ Body(c, i) = {} <=> d.issues[i].said[c] = Absent
          /\ Body(c, i) # {} => Body(c, i) = {CommentRecord(d, i, c)}
      BY <1>1, <1>7
    <3>2. Body(c, i) # {} => Only(Body(c, i)) = CommentRecord(d, i, c)
      BY <1>4, <3>1
    <3>3. CommentRecord(d, i, c).body = d.issues[i].said[c]
      BY DEF CommentRecord
    <3>4. QED
      BY <3>1, <3>2, <3>3
  <2>5. [c \in Comments |-> IF Body(c, i) = {} THEN Absent
                            ELSE Only(Body(c, i)).body] = d.issues[i].said
    BY <2>2, <2>4
  <2>6. QED
    BY <2>2, <2>3, <2>5 DEF IssueRecord
<1>8. issues = d.issues
  <2> HIDE DEF issue
  <2>1. \A i \in IssueIds : issues[i] = d.issues[i]
    BY <1>1, <1>7 DEF IssuesOf
  <2>2. QED
    BY <1>5, <2>1
<1>9. QED
  BY <1>3, <1>5, <1>6, <1>8 DEF R
-----------------------------------------------------------------------------
(* The inductive invariant                                                  *)

(* How far a read has come, by where it is.                                 *)
Stage ==
  /\ at = "idle" <=> job = "none"
  /\ at = "row" => job = "show"
  /\ at = "entities" => job \in {"snapshot", "export"}
  /\ at \in {"idle", "row"} \/ (at = "entities" /\ doc.tables = 0) => doc = NoDoc
  /\ at \in {"idle", "row", "entities"} =>
       left = {} /\ \A i \in IssueIds : doc.rows[i] = Absent
  /\ at \in {"labels", "comments"} <=> left # {}
  /\ \A i \in left : doc.rows[i] # Absent
  /\ job # "show" /\ at \in {"labels", "comments", "done"} =>
       doc.tables = Len(Tables)

(* Only `publish` reads in a transaction, from its first query on.          *)
PinnedByPublish ==
  /\ pinned # Absent => job = "snapshot"
  /\ job = "snapshot" /\ pinned = Absent => at = "entities" /\ doc.tables = 0

(* What has been read of the tables and of the issues is as w has it.       *)
LabelsRead(i) == i \notin left \/ (at = "comments" /\ i = Current)

RowsAsIn(w) ==
  \A i \in IssueIds : doc.rows[i] # Absent =>
    /\ w.issues[i] # Absent
    /\ doc.rows[i].ident = w.issues[i].ident
    /\ doc.rows[i].text = w.issues[i].text
    /\ doc.refs[i] = w.issues[i].refs \ (IF LabelsRead(i) THEN {} ELSE Labels)
    /\ i \notin left => doc.said[i] = w.issues[i].said

TablesAsIn(w) ==
  job # "show" =>
    \A r \in Refs : doc.ents[r] = IF \E k \in 1..doc.tables : r \in Tables[k]
                                    THEN w.ents[r] ELSE Absent

NoneMissing(w) ==
  job # "show" /\ at \in {"labels", "comments", "done"} =>
    \A i \in IssueIds : doc.rows[i] = Absent => w.issues[i] = Absent

ReadFrom(w) == RowsAsIn(w) /\ TablesAsIn(w) /\ NoneMissing(w)

(* `publish` reads one state of the archive, and one it had meanwhile;      *)
(* `export` does when it had only one.                                      *)
ReadsThePinned ==
  pinned # Absent =>
    /\ Sound(pinned)
    /\ \A w : w = Whole(pinned) => w \in during /\ ReadFrom(w)

ReadsTheOnly ==
  job = "export" => \A w : during = {w} => ReadFrom(w)

DuringReal ==
  /\ \A w \in during : \E t \in Database : Sound(t) /\ w = Whole(t)
  /\ at \notin {"idle", "done"} => \A w : w = Whole(db) => w \in during

ReadsInv ==
  /\ ReaderTypeOK /\ Sound(db) /\ Stage /\ PinnedByPublish
  /\ ReadsThePinned /\ ReadsTheOnly /\ DuringReal

(* The tables a variable holds, at the next state.                          *)
LEMMA PinnedIs ==
  ASSUME NEW s, pinned' = s
  PROVE  (Sound(pinned)' <=> Sound(s)) /\ Whole(pinned)' = Whole(s)
BY DEF Sound, Good, CommentsInPlace, Mirrors, HashedAsStored, RefsResolve,
       UniqueIdents, Stored, Whole, View, CommentsUnder

LEMMA DbIs ==
  ASSUME NEW s, db' = s
  PROVE  /\ Sound(db)' <=> Sound(s)
         /\ Whole(db)' = Whole(s) /\ Whole(db') = Whole(s)
BY DEF Sound, Good, CommentsInPlace, Mirrors, HashedAsStored, RefsResolve,
       UniqueIdents, Stored, Whole, View, CommentsUnder

(* What a query sees is an archive.                                         *)
LEMMA SourceIs ==
  ASSUME ReadsInv
  PROVE  /\ Sound(Source) /\ Source \in Database /\ Source # Absent
         /\ job # "snapshot" => Source = db
BY DocumentsAssumption
   DEF ReadsInv, ReadsThePinned, PinnedByPublish, Source, Sound, Good

LEMMA WholeIs ==
  ASSUME NEW t, NEW w, w = Whole(t)
  PROVE  w.ents = t.ents /\ \A i \in IssueIds : w.issues[i] = View(t, i)
BY DEF Whole

(* A document of which nothing is read agrees with any archive.             *)
LEMMA NothingRead ==
  ASSUME ReadsInv, doc = NoDoc, at \in {"idle", "row", "entities"}, NEW w
  PROVE  ReadFrom(w)
BY DEF ReadFrom, RowsAsIn, TablesAsIn, NoneMissing, NoDoc

LEMMA CurrentIs ==
  ASSUME ReadsInv, at \in {"labels", "comments"}
  PROVE  Current \in left /\ Current \in IssueIds /\ doc.rows[Current] # Absent
<1>1. left # {} /\ left \subseteq IssueIds
  BY DEF ReadsInv, Stage, ReaderTypeOK
<1>2. Current \in left
  BY <1>1 DEF Current
<1>3. QED
  BY <1>1, <1>2 DEF ReadsInv, Stage

(* The fields of the document.                                              *)
LEMMA DocShape ==
  ASSUME ReadsInv
  PROVE  /\ doc \in Docs
         /\ doc.ents \in [Refs -> Names \cup {Stub, Absent}]
         /\ doc.rows \in [IssueIds -> Row \cup {Absent}]
         /\ doc.refs \in [IssueIds -> SUBSET Refs]
         /\ doc.said \in [IssueIds -> [Comments -> Bodies \cup {Absent}]]
         /\ doc.tables \in 0..Len(Tables) /\ Len(Tables) \in Nat
BY TablesAssumption DEF ReadsInv, ReaderTypeOK, Docs
-----------------------------------------------------------------------------
(* The queries.  Each, answered from the archive Source, leaves the reader  *)
(* with what that archive has as far as it has come.                        *)

Kept(w) ==
  /\ doc' \in Docs /\ at' \in Queries \ {"idle"} /\ left' \subseteq IssueIds
  /\ Stage' /\ job' = job /\ (job # "show" /\ ReadFrom(w) => ReadFrom(w)')
  /\ at \in {"entities", "row", "labels", "comments"}
  /\ at' = "entities" => doc'.tables # 0

LEMMA TableRead ==
  ASSUME ReadsInv, ReadTable, NEW w, w = Whole(Source)
  PROVE  Kept(w)
<1>1. /\ at = "entities" /\ doc.tables < Len(Tables)
      /\ at' = at /\ job' = job /\ left' = left
  BY DEF ReadTable
<1>2. /\ job \in {"snapshot", "export"} /\ left = {}
      /\ \A i \in IssueIds : doc.rows[i] = Absent
  BY <1>1 DEF ReadsInv, Stage
<1> DEFINE k == doc.tables + 1
           ents == [r \in Refs |-> IF r \in Tables[k] THEN Source.ents[r]
                                                      ELSE doc.ents[r]]
<1>3. doc' = [doc EXCEPT !.tables = k, !.ents = ents]
  BY DEF ReadTable
<1>4. k \in 1..Len(Tables) /\ doc.tables \in Nat
  BY <1>1, DocShape
<1>5. ents \in [Refs -> Names \cup {Stub, Absent}]
  BY DocShape, SourceIs DEF Database
<1> HIDE DEF k, ents
<1>6. /\ doc' \in Docs /\ doc'.tables = k /\ doc'.ents = ents
      /\ doc'.rows = doc.rows /\ doc'.refs = doc.refs /\ doc'.said = doc.said
  <2>1. k \in 0..Len(Tables)
    BY <1>4
  <2>2. QED
    BY <1>3, <1>5, <2>1, DocShape DEF Docs
<1>7. Stage'
  BY <1>1, <1>2, <1>4, <1>6 DEF Stage
<1>8. ReadFrom(w) => TablesAsIn(w)'
  <2>1. SUFFICES ASSUME ReadFrom(w), NEW r \in Refs
                 PROVE  ents[r] = IF \E m \in 1..k : r \in Tables[m]
                                    THEN w.ents[r] ELSE Absent
    BY <1>6 DEF TablesAsIn
  <2>2. doc.ents[r] = IF \E m \in 1..doc.tables : r \in Tables[m]
                        THEN w.ents[r] ELSE Absent
    BY <1>2, <2>1 DEF ReadFrom, TablesAsIn
  <2>3. ents[r] = IF r \in Tables[k] THEN w.ents[r] ELSE doc.ents[r]
    BY WholeIs DEF ents
  <2>4. (\E m \in 1..k : r \in Tables[m])
          <=> r \in Tables[k] \/ \E m \in 1..doc.tables : r \in Tables[m]
    BY <1>4 DEF k
  <2>5. QED
    BY <2>2, <2>3, <2>4
<1>9. RowsAsIn(w)' /\ NoneMissing(w)'
  BY <1>1, <1>2, <1>6 DEF RowsAsIn, NoneMissing
<1>10. left' \subseteq IssueIds /\ at' \in Queries \ {"idle"} /\ k # 0
  BY <1>1, <1>2, <1>4 DEF Queries
<1>11. QED
  BY <1>1, <1>6, <1>7, <1>8, <1>9, <1>10 DEF Kept, ReadFrom

LEMMA IssuesRead ==
  ASSUME ReadsInv, ReadIssues, NEW w, w = Whole(Source)
  PROVE  Kept(w)
<1>1. /\ at = "entities" /\ doc.tables = Len(Tables) /\ job' = job
      /\ left' = {i \in IssueIds : Source.rows[i] # Absent}
      /\ at' = IF left' = {} THEN "done" ELSE "labels"
  BY DEF ReadIssues
<1>2. job \in {"snapshot", "export"}
  BY <1>1 DEF ReadsInv, Stage
<1>3. PICK t : t = Source
  OBVIOUS
<1>4. Good(t) /\ t \in Database /\ w = Whole(t)
  BY <1>3, SourceIs DEF Sound
<1> DEFINE refs == [i \in IssueIds |-> t.refs[i] \ Labels]
<1>5. doc' = [doc EXCEPT !.rows = t.rows, !.refs = refs]
  BY <1>3 DEF ReadIssues
<1>6. t.rows \in [IssueIds -> Row \cup {Absent}] /\ refs \in [IssueIds -> SUBSET Refs]
  BY <1>4 DEF Database
<1> HIDE DEF refs
<1>7. /\ doc' \in Docs /\ doc'.rows = t.rows /\ doc'.refs = refs
      /\ doc'.ents = doc.ents /\ doc'.said = doc.said
      /\ doc'.tables = doc.tables
  BY <1>5, <1>6, DocShape DEF Docs
<1>8. Stage'
  BY <1>1, <1>2, <1>3, <1>7 DEF Stage
<1>9. \A i \in IssueIds : w.issues[i] = View(t, i)
  BY <1>4, WholeIs
<1>10. RowsAsIn(w)'
  <2>1. SUFFICES ASSUME NEW i \in IssueIds, t.rows[i] # Absent
                 PROVE  /\ w.issues[i] # Absent
                        /\ t.rows[i].ident = w.issues[i].ident
                        /\ t.rows[i].text = w.issues[i].text
                        /\ refs[i] = w.issues[i].refs
                                       \ (IF LabelsRead(i)' THEN {} ELSE Labels)
                        /\ i \in left'
    BY <1>7 DEF RowsAsIn
  <2>2. i \in left' /\ at' = "labels"
    BY <1>1, <1>3, <2>1
  <2>3. ~LabelsRead(i)'
    BY <2>2 DEF LabelsRead
  <2>4. QED
    BY <1>4, <1>9, <2>1, <2>2, <2>3, ViewIs DEF refs
<1>11. ReadFrom(w) => TablesAsIn(w)'
  BY <1>1, <1>7 DEF ReadFrom, TablesAsIn
<1>12. NoneMissing(w)'
  BY <1>4, <1>7, <1>9, ViewIs DEF NoneMissing
<1>13. at' \in Queries \ {"idle"} /\ at' # "entities" /\ left' \subseteq IssueIds
  BY <1>1 DEF Queries
<1>14. QED
  BY <1>1, <1>7, <1>8, <1>10, <1>11, <1>12, <1>13 DEF Kept, ReadFrom

LEMMA RowOfOneRead ==
  ASSUME ReadsInv, NEW n \in IssueIds, ShowRow(n),
         NEW w, w = Whole(Source)
  PROVE  Kept(w)
<1>1. /\ at = "row" /\ Source.rows[n] # Absent
      /\ left' = {n} /\ at' = "labels" /\ job' = job
  BY DEF ShowRow
<1>2. job = "show" /\ \A i \in IssueIds : doc.rows[i] = Absent
  BY <1>1 DEF ReadsInv, Stage
<1>3. PICK t : t = Source
  OBVIOUS
<1>4. t \in Database
  BY <1>3, SourceIs
<1> DEFINE own == t.refs[n] \ Labels
           ents == [r \in Refs |-> IF r \in t.refs[n] \cap Joined THEN t.ents[r]
                                                                ELSE Absent]
<1>5. doc' = [doc EXCEPT !.rows[n] = t.rows[n], !.refs[n] = own, !.ents = ents]
  BY <1>3 DEF ShowRow
<1>6. /\ t.rows[n] \in Row \cup {Absent} /\ own \in SUBSET Refs
      /\ ents \in [Refs -> Names \cup {Stub, Absent}]
  BY <1>4 DEF Database
<1> HIDE DEF own, ents
<1>7. /\ doc' \in Docs
      /\ doc'.rows = [doc.rows EXCEPT ![n] = t.rows[n]]
  BY <1>5, <1>6, DocShape DEF Docs
<1>8. /\ doc'.rows[n] = t.rows[n]
      /\ \A i \in IssueIds : i # n => doc'.rows[i] = Absent
  BY <1>2, <1>7, DocShape
<1>9. Stage'
  BY <1>1, <1>2, <1>3, <1>8 DEF Stage
<1>10. at' \in Queries \ {"idle"} /\ at' # "entities" /\ left' \subseteq IssueIds
  BY <1>1 DEF Queries
<1>11. QED
  BY <1>1, <1>2, <1>7, <1>9, <1>10 DEF Kept

LEMMA LabelsOfOneRead ==
  ASSUME ReadsInv, ReadLabels, NEW w, w = Whole(Source)
  PROVE  Kept(w)
<1>1. at = "labels" /\ at' = "comments" /\ job' = job /\ left' = left
  BY DEF ReadLabels
<1>2. PICK n : n = Current
  OBVIOUS
<1>3. /\ n \in left /\ n \in IssueIds /\ doc.rows[n] # Absent
      /\ left \subseteq IssueIds
  BY <1>1, <1>2, CurrentIs DEF ReadsInv, ReaderTypeOK
<1>4. Current' = n
  BY <1>1, <1>2 DEF Current
<1>5. PICK t : t = Source
  OBVIOUS
<1>6. Good(t) /\ t \in Database /\ w = Whole(t)
  BY <1>5, SourceIs DEF Sound
<1> DEFINE labels == {r \in t.refs[n] \cap Labels :
                        job = "show" => t.ents[r] # Absent}
           ents == [r \in Refs |-> IF job = "show" /\ r \in labels
                                     THEN t.ents[r] ELSE doc.ents[r]]
<1>7. doc' = [doc EXCEPT !.refs[n] = @ \cup labels, !.ents = ents]
  BY <1>2, <1>5 DEF ReadLabels
<1>8. /\ labels \in SUBSET Refs
      /\ ents \in [Refs -> Names \cup {Stub, Absent}]
  BY <1>3, <1>6, DocShape DEF Database
<1> HIDE DEF labels, ents
<1>9. /\ doc' \in Docs /\ doc'.ents = ents /\ doc'.said = doc.said
      /\ doc'.tables = doc.tables /\ doc'.rows = doc.rows
      /\ doc'.refs = [doc.refs EXCEPT ![n] = @ \cup labels]
  BY <1>3, <1>7, <1>8, DocShape DEF Docs
<1>10. /\ doc'.refs[n] = doc.refs[n] \cup labels
       /\ \A i \in IssueIds : i # n => doc'.refs[i] = doc.refs[i]
  BY <1>3, <1>9, DocShape
<1>11. Stage'
  BY <1>1, <1>3, <1>9 DEF ReadsInv, Stage
<1>12. w.ents = t.ents /\ \A i \in IssueIds : w.issues[i] = View(t, i)
  BY <1>6, WholeIs
<1>13. job # "show" /\ ReadFrom(w) => /\ w.issues[n].refs = t.refs[n]
                                     /\ labels = t.refs[n] \cap Labels
  <2>1. ReadFrom(w) => w.issues[n] # Absent
    BY <1>3 DEF ReadFrom, RowsAsIn
  <2>2. QED
    BY <1>3, <1>6, <1>12, <2>1, ViewIs DEF labels
<1>14. job # "show" /\ ReadFrom(w) => RowsAsIn(w)'
  <2>1. SUFFICES ASSUME job # "show", ReadFrom(w), NEW i \in IssueIds, doc.rows[i] # Absent
                 PROVE  doc'.refs[i] = w.issues[i].refs
                                  \ (IF LabelsRead(i)' THEN {} ELSE Labels)
    BY <1>1, <1>9 DEF ReadFrom, RowsAsIn
  <2>2. doc.refs[i] = w.issues[i].refs
                        \ (IF LabelsRead(i) THEN {} ELSE Labels)
    BY <2>1 DEF ReadFrom, RowsAsIn
  <2>3. CASE i = n
    <3>1. ~LabelsRead(i) /\ LabelsRead(i)'
      BY <1>1, <1>3, <1>4, <2>3 DEF LabelsRead
    <3>2. QED
      BY <1>10, <1>13, <2>1, <2>2, <2>3, <3>1
  <2>4. CASE i # n
    <3>1. LabelsRead(i)' <=> LabelsRead(i)
      BY <1>1, <1>4, <2>4 DEF LabelsRead
    <3>2. QED
      BY <1>10, <2>2, <2>4, <3>1
  <2>5. QED
    BY <2>3, <2>4
<1>15. ReadFrom(w) => TablesAsIn(w)'
  BY <1>1, <1>9 DEF ReadFrom, TablesAsIn, ents
<1>16. ReadFrom(w) => NoneMissing(w)'
  BY <1>1, <1>9 DEF ReadFrom, NoneMissing
<1>17. at' \in Queries \ {"idle"} /\ at' # "entities" /\ left' \subseteq IssueIds
  BY <1>1, <1>3 DEF Queries
<1>18. QED
  BY <1>1, <1>9, <1>11, <1>14, <1>15, <1>16, <1>17 DEF Kept, ReadFrom

LEMMA CommentsOfOneRead ==
  ASSUME ReadsInv, ReadComments, NEW w, w = Whole(Source)
  PROVE  Kept(w)
<1>1. PICK n : n = Current
  OBVIOUS
<1>2. /\ at = "comments" /\ job' = job /\ left' = left \ {n}
      /\ at' = IF left' = {} THEN "done" ELSE "labels"
  BY <1>1 DEF ReadComments
<1>3. /\ n \in left /\ n \in IssueIds /\ doc.rows[n] # Absent
      /\ left \subseteq IssueIds
  BY <1>1, <1>2, CurrentIs DEF ReadsInv, ReaderTypeOK
<1>4. PICK t : t = Source
  OBVIOUS
<1>5. Good(t) /\ t \in Database /\ w = Whole(t)
  BY <1>4, SourceIs DEF Sound
<1> DEFINE said == [c \in Comments |-> IF c \in CommentsUnder(t, n)
                                         THEN t.comments[c].body ELSE Absent]
<1>6. doc' = [doc EXCEPT !.said[n] = said]
  BY <1>1, <1>4 DEF ReadComments
<1>7. said \in [Comments -> Bodies \cup {Absent}]
  BY <1>5 DEF Database, Comment, CommentsUnder
<1>8. ReadFrom(w) => w.issues[n].said = said
  <2>1. w.issues[n] = View(t, n) /\ (ReadFrom(w) => w.issues[n] # Absent)
    BY <1>3, <1>5, WholeIs DEF ReadFrom, RowsAsIn
  <2>2. QED
    BY <1>3, <1>5, <2>1, ViewIs
<1> HIDE DEF said
<1>9. /\ doc' \in Docs /\ doc'.ents = doc.ents /\ doc'.refs = doc.refs
      /\ doc'.tables = doc.tables /\ doc'.rows = doc.rows
      /\ doc'.said = [doc.said EXCEPT ![n] = said]
  BY <1>3, <1>6, <1>7, DocShape DEF Docs
<1>10. /\ doc'.said[n] = said
       /\ \A i \in IssueIds : i # n => doc'.said[i] = doc.said[i]
  BY <1>3, <1>9, DocShape
<1>11. Stage'
  BY <1>2, <1>3, <1>9 DEF ReadsInv, Stage
<1>12. ReadFrom(w) => RowsAsIn(w)'
  <2>1. SUFFICES ASSUME ReadFrom(w), NEW i \in IssueIds, doc.rows[i] # Absent
                 PROVE  /\ doc.refs[i] = w.issues[i].refs
                             \ (IF LabelsRead(i)' THEN {} ELSE Labels)
                        /\ i \notin left' => doc'.said[i] = w.issues[i].said
    BY <1>9 DEF ReadFrom, RowsAsIn
  <2>2. LabelsRead(i)' <=> LabelsRead(i)
    BY <1>1, <1>2, <1>3 DEF LabelsRead
  <2>3. /\ doc.refs[i] = w.issues[i].refs
                           \ (IF LabelsRead(i) THEN {} ELSE Labels)
        /\ i \notin left => doc.said[i] = w.issues[i].said
    BY <2>1 DEF ReadFrom, RowsAsIn
  <2>4. QED
    BY <1>2, <1>8, <1>10, <2>1, <2>2, <2>3
<1>13. ReadFrom(w) => TablesAsIn(w)' /\ NoneMissing(w)'
  BY <1>2, <1>9 DEF ReadFrom, TablesAsIn, NoneMissing
<1>14. at' \in Queries \ {"idle"} /\ at' # "entities" /\ left' \subseteq IssueIds
  BY <1>2, <1>3 DEF Queries
<1>15. QED
  BY <1>2, <1>9, <1>11, <1>12, <1>13, <1>14 DEF Kept, ReadFrom

Query ==
  \/ \E i \in IssueIds : ShowRow(i)
  \/ ReadTable \/ ReadIssues \/ ReadLabels \/ ReadComments

LEMMA QueryReads ==
  ASSUME ReadsInv, Query, NEW w, w = Whole(Source)
  PROVE  Kept(w)
BY RowOfOneRead, TableRead, IssuesRead, LabelsOfOneRead, CommentsOfOneRead DEF Query

LEMMA QueryKeeps ==
  ASSUME ReadsInv, Query, UNCHANGED vars
  PROVE  ReadsInv'
<1>1. PICK t : t = Source
  OBVIOUS
<1>2. PICK w : w = Whole(t)
  OBVIOUS
<1>3. Kept(w) /\ Sound(t) /\ t \in Database /\ t # Absent
  BY <1>1, <1>2, QueryReads, SourceIs
<1>4. /\ at \in {"entities", "row", "labels", "comments"} /\ job' = job
      /\ job \in Jobs /\ db' = db
  BY <1>3 DEF Kept, ReadsInv, ReaderTypeOK, Stage, vars
<1>5. during' = during /\ pinned' = IF job = "snapshot" THEN t ELSE Absent
  <2>1. ASSUME NEW i \in IssueIds, ShowRow(i)
        PROVE  during' = during /\ pinned' = pinned /\ job = "show"
    BY <2>1 DEF ShowRow, ReadsInv, Stage
  <2>2. CASE \E i \in IssueIds : ShowRow(i)
    BY <2>1, <2>2 DEF ReadsInv, PinnedByPublish
  <2>3. CASE ReadTable \/ ReadIssues \/ ReadLabels \/ ReadComments
    BY <1>1, <2>3 DEF ReadTable, ReadIssues, ReadLabels, ReadComments, Pin
  <2>4. QED
    BY <2>2, <2>3 DEF Query
<1>6. w \in during
  <2>1. CASE pinned # Absent
    BY <1>1, <1>2, <2>1 DEF Source, ReadsInv, ReadsThePinned
  <2>2. CASE pinned = Absent
    BY <1>1, <1>2, <1>4, <2>2 DEF Source, ReadsInv, DuringReal
  <2>3. QED
    BY <2>1, <2>2
<1>7. job = "snapshot" => ReadFrom(w)
  <2>1. SUFFICES ASSUME job = "snapshot" PROVE ReadFrom(w)
    OBVIOUS
  <2>2. CASE pinned # Absent
    BY <1>1, <1>2, <2>2 DEF Source, ReadsInv, ReadsThePinned
  <2>3. CASE pinned = Absent
    <3>1. at = "entities" /\ doc = NoDoc
      BY <2>1, <2>3 DEF ReadsInv, PinnedByPublish, Stage
    <3>2. QED
      BY <3>1, NothingRead
  <2>4. QED
    BY <2>2, <2>3
<1>8. job = "export" /\ during = {w} => ReadFrom(w)
  BY DEF ReadsInv, ReadsTheOnly
<1>9. ReaderTypeOK'
  BY <1>3, <1>4, <1>5 DEF Kept, ReaderTypeOK, ReadsInv
<1>10. Sound(db)'
  BY <1>4, DbIs DEF ReadsInv
<1>11. PinnedByPublish'
  BY <1>3, <1>4, <1>5 DEF PinnedByPublish
<1>12. ReadsThePinned'
  <2>1. SUFFICES ASSUME pinned' # Absent
                 PROVE  /\ Sound(pinned)'
                        /\ \A v : v = Whole(pinned)' => v \in during' /\ ReadFrom(v)'
    BY DEF ReadsThePinned
  <2>2. pinned' = t /\ job = "snapshot"
    BY <1>5, <2>1
  <2>3. Sound(pinned)' /\ Whole(pinned)' = w
    BY <1>2, <1>3, <2>2, PinnedIs
  <2>4. ReadFrom(w)'
    BY <1>3, <1>7, <2>2 DEF Kept
  <2>5. QED
    BY <1>5, <1>6, <2>3, <2>4
<1>13. ReadsTheOnly'
  <2>1. SUFFICES ASSUME job = "export", NEW v, during = {v}
                 PROVE  ReadFrom(v)'
    BY <1>4, <1>5 DEF ReadsTheOnly
  <2>2. v = w
    BY <1>6, <2>1
  <2>3. ReadFrom(w)'
    BY <1>3, <1>8, <2>1, <2>2 DEF Kept
  <2>4. QED
    BY <2>2, <2>3
<1>14. DuringReal'
  <2>1. Whole(db)' = Whole(db)
    BY <1>4, DbIs
  <2>2. \A v : v = Whole(db) => v \in during
    BY <1>4 DEF ReadsInv, DuringReal
  <2>3. QED
    BY <1>5, <2>1, <2>2 DEF ReadsInv, DuringReal
<1>15. QED
  BY <1>3, <1>9, <1>10, <1>11, <1>12, <1>13, <1>14 DEF Kept, ReadsInv
-----------------------------------------------------------------------------
(* The other steps                                                          *)

LEMMA NoDocIs == NoDoc \in Docs /\ NoDoc.tables = 0
                 /\ \A i \in IssueIds : NoDoc.rows[i] = Absent
<1>1. Len(Tables) \in Nat
  BY TablesAssumption
<1>2. 0 \in 0..Len(Tables)
  BY <1>1
<1>3. QED
  BY <1>2 DEF NoDoc, Docs

LEMMA ReadsInitHolds == ReadsInit => ReadsInv
<1> SUFFICES ASSUME ReadsInit PROVE ReadsInv
  OBVIOUS
<1>1. /\ job = "none" /\ at = "idle" /\ pinned = Absent /\ doc = NoDoc
      /\ left = {} /\ during = {} /\ db = Empty
  BY DEF ReadsInit, ReaderInit, Init
<1>2. IsFiniteSet(during) /\ Cardinality(during) <= MaxCommits
  BY <1>1, FS_EmptySet, CommitsAssumption
<1>3. ReaderTypeOK
  BY <1>1, <1>2, NoDocIs DEF ReaderTypeOK, Queries
<1>4. Sound(db)
  BY <1>1, EmptyIsSound
<1>5. Stage /\ PinnedByPublish
  BY <1>1, NoDocIs DEF Stage, PinnedByPublish
<1>6. ReadsThePinned /\ ReadsTheOnly /\ DuringReal
  BY <1>1 DEF ReadsThePinned, ReadsTheOnly, DuringReal
<1>7. QED
  BY <1>3, <1>4, <1>5, <1>6 DEF ReadsInv

LEMMA StartReadKeeps ==
  ASSUME ReadsInv, NEW j \in Jobs, StartRead(j), UNCHANGED vars
  PROVE  ReadsInv'
<1>1. /\ job = "none" /\ at = "idle" /\ doc = NoDoc /\ left = {}
      /\ pinned = Absent
  BY DEF StartRead, ReadsInv, Stage, PinnedByPublish
<1>2. PICK w : w = Whole(db)
  OBVIOUS
<1>3. /\ job' = j /\ at' = (IF j = "show" THEN "row" ELSE "entities")
      /\ during' = {w} /\ pinned' = Absent /\ doc' = NoDoc /\ left' = {}
      /\ db' = db
  BY <1>1, <1>2 DEF StartRead, vars
<1>4. IsFiniteSet(during') /\ Cardinality(during') <= MaxCommits
  BY <1>3, FS_Singleton, CommitsAssumption
<1>5. ReaderTypeOK'
  BY <1>3, <1>4, NoDocIs DEF ReaderTypeOK, Queries
<1>6. Sound(db)' /\ Whole(db)' = w
  BY <1>2, <1>3, DbIs DEF ReadsInv
<1>7. Stage'
  BY <1>3, NoDocIs DEF Stage, Jobs
<1>8. PinnedByPublish' /\ ReadsThePinned'
  BY <1>3, NoDocIs DEF PinnedByPublish, ReadsThePinned
<1>9. ASSUME NEW v PROVE ReadFrom(v)'
  BY <1>3 DEF ReadFrom, RowsAsIn, TablesAsIn, NoneMissing, NoDoc
<1>10. ReadsTheOnly'
  BY <1>9 DEF ReadsTheOnly
<1>11. DuringReal'
  <2>1. Sound(db) /\ db \in Database
    BY DEF ReadsInv, Sound, Good
  <2>2. QED
    BY <1>2, <1>3, <1>6, <2>1 DEF DuringReal
<1>12. QED
  BY <1>5, <1>6, <1>7, <1>8, <1>10, <1>11 DEF ReadsInv

LEMMA EndReadKeeps ==
  ASSUME ReadsInv, EndRead, UNCHANGED vars
  PROVE  ReadsInv'
<1>1. /\ job' = "none" /\ at' = "idle" /\ pinned' = Absent /\ doc' = NoDoc
      /\ left' = {} /\ during' = {} /\ db' = db
  BY DEF EndRead, vars
<1>2. IsFiniteSet(during') /\ Cardinality(during') <= MaxCommits
  BY <1>1, FS_EmptySet, CommitsAssumption
<1>3. ReaderTypeOK'
  BY <1>1, <1>2, NoDocIs DEF ReaderTypeOK, Queries
<1>4. Sound(db)'
  BY <1>1, DbIs DEF ReadsInv
<1>5. Stage' /\ PinnedByPublish'
  BY <1>1, NoDocIs DEF Stage, PinnedByPublish
<1>6. ReadsThePinned' /\ ReadsTheOnly' /\ DuringReal'
  BY <1>1 DEF ReadsThePinned, ReadsTheOnly, DuringReal
<1>7. QED
  BY <1>3, <1>4, <1>5, <1>6 DEF ReadsInv

(* What the writer commits is an archive, and one of the reader's moments.  *)
LEMMA WriterKeeps ==
  ASSUME ReadsInv, WriterStep
  PROVE  ReadsInv'
<1>1. UNCHANGED <<job, at, pinned, doc, left>>
  BY DEF WriterStep
<1>2. PICK u : db' = u
  OBVIOUS
<1>3. Sound(u) /\ u \in Database
  <2>1. PICK listed \in Listed :
          LET t == UpsertEntities(db, listed)
          IN \/ u = t
             \/ \E x \in Ingests : Accepts(t, x) /\ u = WithIssue(t, x)
    BY <1>2 DEF WriterStep, Commits
  <2>2. PICK t : t = UpsertEntities(db, listed)
    OBVIOUS
  <2>3. Sound(t)
    BY <2>2, EntitiesSound, WriterAssumption DEF ReadsInv
  <2>4. Sound(u)
    BY <2>1, <2>2, <2>3, TurnSound, WriterAssumption
  <2>5. QED
    BY <2>4 DEF Sound, Good
<1>4. PICK w : w = Whole(u)
  OBVIOUS
<1>5. Sound(db)' /\ Whole(db)' = w /\ Whole(db') = w
  BY <1>2, <1>3, <1>4, DbIs
<1>6. /\ during' = IF at \in {"idle", "done"} THEN during ELSE during \cup {w}
      /\ Cardinality(during') <= MaxCommits
  BY <1>5 DEF WriterStep
<1>7. IsFiniteSet(during')
  BY <1>6, FS_AddElement DEF ReadsInv, ReaderTypeOK
<1>8. ReaderTypeOK'
  BY <1>1, <1>6, <1>7 DEF ReadsInv, ReaderTypeOK
<1>9. Stage' /\ PinnedByPublish'
  BY <1>1 DEF ReadsInv, Stage, PinnedByPublish
<1>10. ASSUME NEW v, ReadFrom(v) PROVE ReadFrom(v)'
  BY <1>1, <1>10 DEF ReadFrom, RowsAsIn, TablesAsIn, NoneMissing,
                     LabelsRead, Current
<1>11. ReadsThePinned'
  <2>1. SUFFICES ASSUME pinned' # Absent
                 PROVE  /\ Sound(pinned)'
                        /\ \A v : v = Whole(pinned)' => v \in during' /\ ReadFrom(v)'
    BY DEF ReadsThePinned
  <2>2. Sound(pinned)' /\ Whole(pinned)' = Whole(pinned)
    BY <1>1, <2>1, PinnedIs DEF ReadsInv, ReadsThePinned
  <2>3. ASSUME NEW v, v = Whole(pinned) PROVE v \in during' /\ ReadFrom(v)'
    BY <1>1, <1>6, <1>10, <2>1, <2>3 DEF ReadsInv, ReadsThePinned
  <2>4. QED
    BY <2>2, <2>3
<1>12. ReadsTheOnly'
  <2>1. SUFFICES ASSUME job = "export", NEW v, during' = {v}
                 PROVE  ReadFrom(v)'
    BY <1>1 DEF ReadsTheOnly
  <2>2. at # "idle"
    BY <2>1 DEF ReadsInv, Stage
  <2>3. during = {v}
    <3>1. at \notin {"idle", "done"} => during # {}
      BY DEF ReadsInv, DuringReal
    <3>2. QED
      BY <1>6, <2>1, <2>2, <3>1
  <2>4. QED
    BY <1>10, <2>1, <2>3 DEF ReadsInv, ReadsTheOnly
<1>13. DuringReal'
  BY <1>1, <1>3, <1>4, <1>5, <1>6 DEF ReadsInv, DuringReal
<1>14. QED
  BY <1>5, <1>8, <1>9, <1>11, <1>12, <1>13 DEF ReadsInv

LEMMA ReadsStill ==
  ASSUME ReadsInv, UNCHANGED <<vars, reader>>
  PROVE  ReadsInv'
<1>1. UNCHANGED <<db, job, at, pinned, doc, left, during>>
  BY DEF vars, reader
<1>2. Sound(db)' /\ Whole(db)' = Whole(db)
  BY <1>1, DbIs DEF ReadsInv
<1>3. ReaderTypeOK' /\ Stage' /\ PinnedByPublish'
  BY <1>1 DEF ReadsInv, ReaderTypeOK, Stage, PinnedByPublish
<1>4. \A v : ReadFrom(v)' <=> ReadFrom(v)
  BY <1>1 DEF ReadFrom, RowsAsIn, TablesAsIn, NoneMissing,
              LabelsRead, Current
<1>5. ReadsThePinned' /\ ReadsTheOnly'
  <2>1. /\ Sound(pinned)' <=> Sound(pinned)
        /\ Whole(pinned)' = Whole(pinned)
    BY <1>1, PinnedIs
  <2>2. QED
    BY <1>1, <1>4, <2>1 DEF ReadsInv, ReadsThePinned, ReadsTheOnly
<1>6. DuringReal'
  BY <1>1, <1>2 DEF ReadsInv, DuringReal
<1>7. QED
  BY <1>2, <1>3, <1>5, <1>6 DEF ReadsInv

LEMMA ReadsInductive == ReadsInv /\ [ReadsNext]_<<vars, reader>> => ReadsInv'
<1> SUFFICES ASSUME ReadsInv, [ReadsNext]_<<vars, reader>> PROVE ReadsInv'
  OBVIOUS
<1>1. CASE WriterStep
  BY <1>1, WriterKeeps
<1>2. CASE ReaderStep /\ UNCHANGED vars
  <2>1. CASE \E j \in Jobs : StartRead(j)
    BY <1>2, <2>1, StartReadKeeps
  <2>2. CASE Query
    BY <1>2, <2>2, QueryKeeps
  <2>3. CASE EndRead
    BY <1>2, <2>3, EndReadKeeps
  <2>4. QED
    BY <1>2, <2>1, <2>2, <2>3 DEF ReaderStep, Query
<1>3. CASE UNCHANGED <<vars, reader>>
  BY <1>3, ReadsStill
<1>4. QED
  BY <1>1, <1>2, <1>3 DEF ReadsNext

LEMMA ReadsInvariant == ReadsSpec => []ReadsInv
BY ReadsInitHolds, ReadsInductive, PTL DEF ReadsSpec
-----------------------------------------------------------------------------
(* What is handed over                                                      *)

(* An issue that has been sent is as the archive the reader read has it.    *)
LEMMA SentIsRead ==
  ASSUME ReadsInv, NEW t, Sound(t), NEW w, w = Whole(t), ReadFrom(w),
         NEW i \in IssueIds
  PROVE  /\ i \in Sent => /\ Document.issues[i] = w.issues[i]
                          /\ w.issues[i] \in Content(i)
                          /\ w.issues[i] \in Contents
                          /\ w.issues[i] # Absent
                          /\ t.rows[i] # Absent
                          /\ \A r \in Mentioned(w.issues[i]) : w.ents[r] # Absent
         /\ i \notin Sent => Document.issues[i] = Absent
<1>1. i \notin Sent => Document.issues[i] = Absent
  BY DEF Document
<1> SUFFICES ASSUME i \in Sent
             PROVE  /\ Document.issues[i] = w.issues[i]
                    /\ w.issues[i] \in Content(i) /\ w.issues[i] \in Contents
                    /\ w.issues[i] # Absent /\ t.rows[i] # Absent
                    /\ \A r \in Mentioned(w.issues[i]) : w.ents[r] # Absent
  BY <1>1
<1>2. i \notin left /\ doc.rows[i] # Absent
  BY DEF Sent
<1>3. /\ w.issues[i] # Absent
      /\ doc.rows[i].ident = w.issues[i].ident
      /\ doc.rows[i].text = w.issues[i].text
      /\ doc.refs[i] = w.issues[i].refs
      /\ doc.said[i] = w.issues[i].said
  <2>1. /\ w.issues[i] # Absent
        /\ doc.rows[i].ident = w.issues[i].ident
        /\ doc.rows[i].text = w.issues[i].text
        /\ doc.refs[i] = w.issues[i].refs \ (IF LabelsRead(i) THEN {} ELSE Labels)
        /\ doc.said[i] = w.issues[i].said
    BY <1>2 DEF ReadFrom, RowsAsIn
  <2>2. LabelsRead(i)
    BY <1>2 DEF LabelsRead
  <2>3. w.issues[i].refs \ {} = w.issues[i].refs
    <3>1. w.issues[i] = View(t, i) /\ Good(t)
      BY WholeIs DEF Sound
    <3>2. w.issues[i].refs \in SUBSET Refs
      BY <2>1, <3>1, ViewIs DEF Content
    <3>3. QED
      BY <3>2
  <2>4. QED
    BY <2>1, <2>2, <2>3
<1>4. w.ents = t.ents /\ w.issues[i] = View(t, i) /\ Good(t)
  BY WholeIs DEF Sound
<1>5. t.rows[i] # Absent
  BY <1>3, <1>4, ViewIs
<1>6. /\ w.issues[i] \in Content(i) /\ w.issues[i] \in Contents
      /\ \A r \in Mentioned(w.issues[i]) : w.ents[r] # Absent
  BY <1>4, <1>5, ViewIs
<1>7. w.issues[i] = [ident |-> w.issues[i].ident, text |-> w.issues[i].text,
                     refs |-> w.issues[i].refs, said |-> w.issues[i].said]
  BY <1>6 DEF Content
<1>8. Document.issues[i] = [ident |-> doc.rows[i].ident,
                            text |-> doc.rows[i].text,
                            refs |-> doc.refs[i], said |-> doc.said[i]]
  BY DEF Document
<1>9. QED
  BY <1>3, <1>5, <1>6, <1>7, <1>8

LEMMA DocumentIs ==
  ASSUME ReadsInv, NEW t, Sound(t), NEW w, w = Whole(t), ReadFrom(w)
  PROVE  IsDocument(Document)
<1>1. PICK d : d = Document
  OBVIOUS
<1>2. \A i \in IssueIds :
        /\ i \in Sent => /\ d.issues[i] = w.issues[i]
                         /\ w.issues[i] \in Content(i)
                         /\ w.issues[i] \in Contents
                         /\ w.issues[i] # Absent
                         /\ t.rows[i] # Absent
        /\ i \notin Sent => d.issues[i] = Absent
  BY <1>1, SentIsRead
<1>3. d = [ents |-> doc.ents, issues |-> d.issues]
      /\ d.issues = [i \in IssueIds |-> d.issues[i]]
  BY <1>1 DEF Document
<1>4. d \in Documents
  <2>1. doc.ents \in Listings
    BY DocShape DEF Listings
  <2>2. d.issues \in [IssueIds -> Contents \cup {Absent}]
    BY <1>2, <1>3
  <2>3. QED
    BY <1>3, <2>1, <2>2 DEF Documents
<1>5. IssuesOf(d) \subseteq Sent /\ IssuesOf(d) \subseteq Stored(t)
  BY <1>2 DEF IssuesOf, Stored
<1>6. \A i \in IssuesOf(d) : d.issues[i] \in Content(i)
  BY <1>2, <1>5 DEF IssuesOf
<1>7. ASSUME NEW i \in IssuesOf(d), NEW j \in IssuesOf(d), i # j
      PROVE  d.issues[i].ident # d.issues[j].ident
  <2>1. /\ d.issues[i].ident = t.rows[i].ident
        /\ d.issues[j].ident = t.rows[j].ident
    <3>1. \A k \in IssuesOf(d) : /\ k \in IssueIds /\ t.rows[k] # Absent
                                 /\ d.issues[k] = View(t, k)
      BY <1>2, <1>5, WholeIs DEF IssuesOf
    <3>2. QED
      BY <3>1, ViewIs DEF Sound
  <2>2. QED
    BY <1>5, <1>7, <2>1 DEF Sound, UniqueIdents
<1>8. IsFiniteSet(IssuesOf(d))
  BY <1>5, FS_Subset DEF Sound
<1>9. QED
  BY <1>1, <1>4, <1>6, <1>7, <1>8 DEF IsDocument

(* Read to its end, a document is the archive's.                            *)
LEMMA DocumentIsWhole ==
  ASSUME ReadsInv, at = "done", job # "show",
         NEW t, Sound(t), NEW w, w = Whole(t), ReadFrom(w)
  PROVE  Document = w /\ IsComplete(w)
<1>1. PICK d : d = Document
  OBVIOUS
<1>2. /\ d = [ents |-> doc.ents, issues |-> d.issues]
      /\ d.issues = [i \in IssueIds |-> d.issues[i]]
  BY <1>1 DEF Document
<1>3. /\ w = [ents |-> t.ents, issues |-> w.issues]
      /\ w.issues = [i \in IssueIds |-> w.issues[i]]
  BY DEF Whole
<1>4. left = {} /\ doc.tables = Len(Tables)
  BY DEF ReadsInv, Stage
<1>5. ASSUME NEW i \in IssueIds PROVE d.issues[i] = w.issues[i]
  <2>1. CASE i \in Sent
    BY <1>1, <2>1, SentIsRead
  <2>2. CASE i \notin Sent
    <3>1. doc.rows[i] = Absent
      BY <1>4, <2>2 DEF Sent
    <3>2. w.issues[i] = Absent
      BY <3>1 DEF ReadFrom, NoneMissing
    <3>3. QED
      BY <1>1, <2>2, <3>2, SentIsRead
  <2>3. QED
    BY <2>1, <2>2
<1>6. ASSUME NEW r \in Refs PROVE doc.ents[r] = t.ents[r]
  <2>1. DOMAIN Tables = 1..Len(Tables)
    BY TablesAssumption
  <2>2. \E k \in 1..doc.tables : r \in Tables[k]
    BY <1>4, <2>1, TablesAssumption
  <2>3. QED
    BY <1>3, <2>2 DEF ReadFrom, TablesAsIn
<1>7. doc.ents = t.ents
  <2>1. t.ents \in [Refs -> Names \cup {Stub, Absent}]
    BY DEF Sound, Good, Database
  <2>2. QED
    BY <1>6, <2>1, DocShape
<1>8. d = w
  BY <1>2, <1>3, <1>5, <1>7
<1>9. IsComplete(w)
  BY <1>1, <1>8, SentIsRead DEF IsComplete, IssuesOf
<1>10. QED
  BY <1>1, <1>8, <1>9
-----------------------------------------------------------------------------
(* The theorems                                                             *)

(* The reader's variables have their types.                                 *)
THEOREM ReaderTypeCorrect == ReadsSpec => []ReaderTypeOK
<1>1. ReadsInv => ReaderTypeOK
  BY DEF ReadsInv
<1>2. QED
  BY <1>1, ReadsInvariant, PTL

(* The one state there was during a read, when there was only one.          *)
LEMMA OnlyOne ==
  ASSUME ReadsInv, Cardinality(during) = 1
  PROVE  \E w : during = {w}
<1>1. IsFiniteSet(during)
  BY DEF ReadsInv, ReaderTypeOK
<1>2. QED
  BY <1>1, FS_Singleton

(* What `publish` takes is a state the archive was in during the read, and  *)
(* importing its records elsewhere gives that state; so does what `export`  *)
(* writes, if anything, when only one state was there (Snapshot and         *)
(* ExportNDJSON).                                                           *)
THEOREM SnapshotTakesOnePoint == ReadsSpec => []SnapshotIsOnePoint
<1>1. ASSUME ReadsInv PROVE SnapshotIsOnePoint
  <2>1. SUFFICES ASSUME at = "done",
                        \/ job = "snapshot"
                        \/ job = "export" /\ Cardinality(during) = 1
                           /\ Document # Nothing
                 PROVE  Restored # Absent /\ Whole(Restored) \in during
    BY DEF SnapshotIsOnePoint
  <2>2. \E t, w : Sound(t) /\ w = Whole(t) /\ w \in during /\ ReadFrom(w)
    <3>1. CASE job = "snapshot"
      <4>1. pinned # Absent
        BY <1>1, <2>1, <3>1 DEF ReadsInv, PinnedByPublish
      <4>2. PICK w : w = Whole(pinned)
        OBVIOUS
      <4>3. Sound(pinned) /\ w \in during /\ ReadFrom(w)
        BY <1>1, <4>1, <4>2 DEF ReadsInv, ReadsThePinned
      <4>4. QED
        BY <4>2, <4>3
    <3>2. CASE job = "export" /\ Cardinality(during) = 1
      <4>1. PICK w : during = {w}
        BY <1>1, <3>2, OnlyOne
      <4>2. ReadFrom(w)
        BY <1>1, <3>2, <4>1 DEF ReadsInv, ReadsTheOnly
      <4>3. \E t \in Database : Sound(t) /\ w = Whole(t)
        BY <1>1, <4>1 DEF ReadsInv, DuringReal
      <4>4. QED
        BY <4>1, <4>2, <4>3
    <3>3. QED
      BY <2>1, <3>1, <3>2
  <2>3. PICK t, w : Sound(t) /\ w = Whole(t) /\ w \in during /\ ReadFrom(w)
    BY <2>2
  <2>4. Document = w /\ IsComplete(w) /\ IsDocument(w)
    BY <1>1, <2>1, <2>3, DocumentIs, DocumentIsWhole
  <2>5. RecordsSnapshot(SnapshotRecords(w)) = w
    BY <2>4, RecordsRoundTrip
  <2>6. Restored = Ingested(w)
    BY <2>1, <2>4, <2>5 DEF Restored, IngestStream
  <2>7. QED
    BY <2>3, <2>4, <2>6, IngestedWhole
<1>2. QED
  BY <1>1, ReadsInvariant, PTL

-----------------------------------------------------------------------------
(* Show: the part each of its queries gave is that of a moment of the call. *)

ShowSoFar ==
  job = "show" =>
    \A i \in IssueIds : doc.rows[i] # Absent =>
      /\ db.rows[i] # Absent
      /\ left = IF at = "done" THEN {} ELSE {i}
      /\ \E t \in during : RowShown(t, i)
      /\ at = "labels" => doc.refs[i] \cap Labels = {}
      /\ at \in {"comments", "done"} => \E t \in during : LabelsShown(t, i)
      /\ at = "done" => \E t \in during : CommentsShown(t, i)

(* What is shown is untouched by a step that leaves the document alone and  *)
(* keeps the issues there are.                                              *)
LEMMA ShowStays ==
  ASSUME ShowSoFar, UNCHANGED <<job, at, doc, left>>, during \subseteq during',
         \A i \in IssueIds : db.rows[i] # Absent => db'.rows[i] # Absent
  PROVE  ShowSoFar'
BY DEF ShowSoFar, RowShown, LabelsShown, CommentsShown

LEMMA ShowRowKeeps ==
  ASSUME ReadsInv, NEW n \in IssueIds, ShowRow(n), UNCHANGED vars
  PROVE  ShowSoFar'
<1>1. /\ at = "row" /\ Source.rows[n] # Absent /\ during' = during
      /\ left' = {n} /\ at' = "labels"
  BY DEF ShowRow
<1>2. job = "show" /\ \A i \in IssueIds : doc.rows[i] = Absent
  BY <1>1 DEF ReadsInv, Stage
<1>3. PICK t : t = Source /\ t = db' /\ t = db
  BY <1>2, SourceIs DEF vars
<1>4. PICK w : w = Whole(t)
  OBVIOUS
<1>5. Good(t) /\ t \in Database /\ w \in during
  BY <1>1, <1>2, <1>3, <1>4, SourceIs DEF Sound, ReadsInv, DuringReal
<1>6. doc' = [doc EXCEPT
                !.rows[n] = t.rows[n],
                !.refs[n] = t.refs[n] \ Labels,
                !.ents = [r \in Refs |-> IF r \in t.refs[n] \cap Joined
                                           THEN t.ents[r] ELSE Absent]]
  BY <1>3 DEF ShowRow
<1>7. /\ doc'.rows[n] = t.rows[n] /\ doc'.refs[n] = t.refs[n] \ Labels
      /\ \A i \in IssueIds : i # n => doc'.rows[i] = Absent
      /\ \A r \in Refs : doc'.ents[r] = IF r \in t.refs[n] \cap Joined
                                          THEN t.ents[r] ELSE Absent
  BY <1>2, <1>6, DocShape DEF Docs
<1>8. /\ w.ents = t.ents /\ w.issues[n] = View(t, n)
      /\ View(t, n) # Absent /\ View(t, n).ident = t.rows[n].ident
      /\ View(t, n).text = t.rows[n].text /\ View(t, n).refs = t.refs[n]
  BY <1>1, <1>3, <1>4, <1>5, WholeIs, ViewIs
<1>9. RowShown(w, n)'
  BY <1>7, <1>8 DEF RowShown
<1>10. QED
  BY <1>1, <1>3, <1>5, <1>7, <1>9 DEF ShowSoFar

LEMMA ShowLabelsKeep ==
  ASSUME ReadsInv, ShowSoFar, ReadLabels, UNCHANGED vars
  PROVE  ShowSoFar'
<1> SUFFICES ASSUME job = "show" PROVE ShowSoFar'
  BY DEF ShowSoFar, ReadLabels
<1>1. /\ at = "labels" /\ at' = "comments" /\ left' = left /\ during' = during
  BY DEF ReadLabels
<1>2. PICK n : n = Current
  OBVIOUS
<1>3. n \in left /\ n \in IssueIds /\ doc.rows[n] # Absent /\ left = {n}
  BY <1>1, <1>2, CurrentIs DEF ShowSoFar
<1>4. PICK t : t = Source /\ t = db' /\ t = db
  BY SourceIs DEF vars
<1>5. PICK w : w = Whole(t)
  OBVIOUS
<1>6. Good(t) /\ t \in Database /\ w \in during
  BY <1>1, <1>4, <1>5, SourceIs DEF Sound, ReadsInv, DuringReal
<1>7. PICK labels : labels = {r \in t.refs[n] \cap Labels : t.ents[r] # Absent}
  OBVIOUS
<1>8. labels = t.refs[n] \cap Labels /\ labels \in SUBSET Refs
  BY <1>3, <1>6, <1>7 DEF Good, RefsResolve, Database
<1>9. doc' = [doc EXCEPT
                !.refs[n] = @ \cup labels,
                !.ents = [r \in Refs |-> IF r \in labels THEN t.ents[r]
                                                         ELSE doc.ents[r]]]
  BY <1>2, <1>4, <1>7 DEF ReadLabels
<1>10. /\ doc'.rows = doc.rows
       /\ doc'.refs[n] = doc.refs[n] \cup labels
       /\ \A r \in Refs : doc'.ents[r] = IF r \in labels THEN t.ents[r]
                                                         ELSE doc.ents[r]
  BY <1>3, <1>9, DocShape DEF Docs
<1>11. \A i \in IssueIds : doc.rows[i] # Absent => i = n
  BY <1>1, <1>3 DEF ShowSoFar
<1>12. PICK v \in during : RowShown(v, n)
  BY <1>3 DEF ShowSoFar
<1>13. RowShown(v, n)'
  BY <1>3, <1>8, <1>10, <1>12 DEF RowShown
<1>14. LabelsShown(w, n)'
  <2>1. w.ents = t.ents /\ w.issues[n] = View(t, n)
    BY <1>3, <1>5, WholeIs
  <2>2. t.rows[n] # Absent
    BY <1>3, <1>4 DEF ShowSoFar
  <2>3. w.issues[n] # Absent /\ w.issues[n].refs = t.refs[n]
    BY <1>3, <1>6, <2>1, <2>2, ViewIs
  <2>4. doc.refs[n] \cap Labels = {}
    BY <1>1, <1>3 DEF ShowSoFar
  <2>5. QED
    BY <1>8, <1>10, <2>1, <2>3, <2>4 DEF LabelsShown
<1>15. QED
  BY <1>1, <1>3, <1>4, <1>6, <1>10, <1>11, <1>12, <1>13, <1>14 DEF ShowSoFar

LEMMA ShowCommentsKeep ==
  ASSUME ReadsInv, ShowSoFar, ReadComments, UNCHANGED vars
  PROVE  ShowSoFar'
<1> SUFFICES ASSUME job = "show" PROVE ShowSoFar'
  BY DEF ShowSoFar, ReadComments
<1>1. PICK n : n = Current
  OBVIOUS
<1>2. at = "comments" /\ during' = during /\ left' = left \ {n}
      /\ at' = IF left' = {} THEN "done" ELSE "labels"
  BY <1>1 DEF ReadComments
<1>3. n \in left /\ n \in IssueIds /\ doc.rows[n] # Absent /\ left = {n}
  BY <1>1, <1>2, CurrentIs DEF ShowSoFar
<1>4. at' = "done" /\ left' = {}
  BY <1>2, <1>3
<1>5. PICK t : t = Source /\ t = db' /\ t = db
  BY SourceIs DEF vars
<1>6. PICK w : w = Whole(t)
  OBVIOUS
<1>7. Good(t) /\ t \in Database /\ w \in during
  BY <1>2, <1>5, <1>6, SourceIs DEF Sound, ReadsInv, DuringReal
<1>8. PICK said : said = [c \in Comments |-> IF c \in CommentsUnder(t, n)
                                              THEN t.comments[c].body ELSE Absent]
  OBVIOUS
<1>9. doc' = [doc EXCEPT !.said[n] = said]
  BY <1>1, <1>5, <1>8 DEF ReadComments
<1>10. /\ doc'.rows = doc.rows /\ doc'.refs = doc.refs /\ doc'.ents = doc.ents
       /\ doc'.said[n] = said
  BY <1>3, <1>9, DocShape DEF Docs
<1>11. \A i \in IssueIds : doc.rows[i] # Absent => i = n
  BY <1>2, <1>3 DEF ShowSoFar
<1>12. PICK v \in during : RowShown(v, n)
  BY <1>2, <1>3 DEF ShowSoFar
<1>13. PICK u \in during : LabelsShown(u, n)
  BY <1>2, <1>3 DEF ShowSoFar
<1>14. RowShown(v, n)' /\ LabelsShown(u, n)'
  BY <1>10, <1>12, <1>13 DEF RowShown, LabelsShown
<1>15. CommentsShown(w, n)'
  <2>1. w.issues[n] = View(t, n) /\ t.rows[n] # Absent
    BY <1>3, <1>5, <1>6, WholeIs DEF ShowSoFar
  <2>2. w.issues[n] # Absent /\ w.issues[n].said = said
    BY <1>3, <1>7, <1>8, <2>1, ViewIs
  <2>3. QED
    BY <1>10, <2>2 DEF CommentsShown
<1>16. db'.rows[n] # Absent
  BY <1>3, <1>5 DEF ShowSoFar
<1>17. QED
  BY <1>2, <1>4, <1>7, <1>10, <1>11, <1>12, <1>13, <1>14, <1>15, <1>16
     DEF ShowSoFar

(* An issue, once stored, stays.                                            *)
LEMMA CommitsKeepIssues ==
  ASSUME ReadsInv, WriterStep
  PROVE  \A i \in IssueIds : db.rows[i] # Absent => db'.rows[i] # Absent
<1>1. PICK u : u = db'
  OBVIOUS
<1>2. PICK listed \in Listed :
        LET t == UpsertEntities(db, listed)
        IN \/ u = t
           \/ \E x \in Ingests : Accepts(t, x) /\ u = WithIssue(t, x)
  BY <1>1 DEF WriterStep, Commits
<1>3. PICK t : t = UpsertEntities(db, listed)
  OBVIOUS
<1>4. Sound(t) /\ t.rows = db.rows
  <2>1. Sound(t)
    BY <1>3, EntitiesSound, WriterAssumption DEF ReadsInv
  <2>2. t.rows = db.rows
    BY <1>3, EntitiesOnly, WriterAssumption DEF ReadsInv, Sound, Good
  <2>3. QED
    BY <2>1, <2>2
<1>5. CASE u = t
  BY <1>1, <1>4, <1>5
<1>6. ASSUME NEW x \in Ingests, u = WithIssue(t, x), NEW i \in IssueIds,
             t.rows[i] # Absent
      PROVE  u.rows[i] # Absent
  <2>1. /\ x \in IssueInputs /\ Good(t) /\ Good(u)
        /\ View(u, x.id) = x.content
        /\ \A j \in IssueIds \ {x.id} : View(u, j) = View(t, j)
    BY <1>4, <1>6, TurnIsGood, WriterAssumption DEF Sound
  <2>2. x.content # Absent /\ View(t, i) # Absent
    BY <1>6, <2>1, InputShape, RowsAssumption, ViewIs
  <2>3. View(u, i) # Absent
    BY <2>1, <2>2
  <2>4. QED
    BY <2>1, <2>3, ViewIs
<1>7. QED
  BY <1>1, <1>2, <1>3, <1>4, <1>5, <1>6

LEMMA ShowInductive ==
  ReadsInv /\ ShowSoFar /\ [ReadsNext]_<<vars, reader>> => ShowSoFar'
<1> SUFFICES ASSUME ReadsInv, ShowSoFar, [ReadsNext]_<<vars, reader>>
             PROVE  ShowSoFar'
  OBVIOUS
<1>1. CASE WriterStep
  <2>1. UNCHANGED <<job, at, doc, left>> /\ during \subseteq during'
    BY <1>1 DEF WriterStep
  <2>2. QED
    BY <1>1, <2>1, CommitsKeepIssues, ShowStays
<1>2. CASE ReaderStep /\ UNCHANGED vars
  <2>1. ASSUME NEW j \in Jobs, StartRead(j) PROVE ShowSoFar'
    <3>1. doc' = doc /\ \A i \in IssueIds : doc.rows[i] = Absent
      BY <2>1 DEF StartRead, ReadsInv, Stage
    <3>2. QED
      BY <3>1 DEF ShowSoFar
  <2>2. ASSUME NEW i \in IssueIds, ShowRow(i) PROVE ShowSoFar'
    BY <1>2, <2>2, ShowRowKeeps
  <2>3. CASE ReadTable \/ ReadIssues
    BY <2>3 DEF ShowSoFar, ReadTable, ReadIssues, ReadsInv, Stage
  <2>4. CASE ReadLabels
    BY <1>2, <2>4, ShowLabelsKeep
  <2>5. CASE ReadComments
    BY <1>2, <2>5, ShowCommentsKeep
  <2>6. CASE EndRead
    BY <2>6 DEF EndRead, ShowSoFar
  <2>7. QED
    BY <1>2, <2>1, <2>2, <2>3, <2>4, <2>5, <2>6 DEF ReaderStep
<1>3. CASE UNCHANGED <<vars, reader>>
  BY <1>3, ShowStays DEF vars, reader
<1>4. QED
  BY <1>1, <1>2, <1>3 DEF ReadsNext

(* What `show` gives of an issue in each of its three queries is what the   *)
(* archive had, as a whole, at some moment of the call, whatever is         *)
(* committed meanwhile; no label is lost in the join (Show, issueLabels,    *)
(* issueComments).                                                          *)
THEOREM ShowIsFaithful == ReadsSpec => []ShownAsStored
<1>1. ReadsInit => ShowSoFar
  BY DEF ReadsInit, ReaderInit, ShowSoFar
<1>2. ShowSoFar => ShownAsStored
  BY DEF ShowSoFar, ShownAsStored, Sent
<1>3. QED
  BY <1>1, <1>2, ReadsInvariant, ShowInductive, PTL DEF ReadsSpec

(* Wherever an export is cut, ingesting what there is of it succeeds, but   *)
(* for a stream with nothing in it, which is refused; and it gives each     *)
(* issue whole, or not at all (ExportNDJSON, IngestStream).                 *)
THEOREM CutExportIsWhole == ReadsSpec => []CutExportKeepsIssuesWhole
<1>1. ASSUME ReadsInv PROVE CutExportKeepsIssuesWhole
  <2>1. SUFFICES ASSUME job = "export", Cardinality(during) = 1
                 PROVE  /\ Restored = Absent <=> Document = Nothing
                        /\ Restored # Absent =>
                             \A i \in IssueIds : Restored.rows[i] # Absent =>
                               \A w \in during : View(Restored, i) = w.issues[i]
    BY DEF CutExportKeepsIssuesWhole
  <2>2. PICK w : during = {w}
    BY <1>1, <2>1, OnlyOne
  <2>3. ReadFrom(w)
    BY <1>1, <2>1, <2>2 DEF ReadsInv, ReadsTheOnly
  <2>4. PICK t \in Database : Sound(t) /\ w = Whole(t)
    BY <1>1, <2>2 DEF ReadsInv, DuringReal
  <2>5. PICK d : d = Document
    OBVIOUS
  <2>6. IsDocument(d)
    BY <1>1, <2>3, <2>4, <2>5, DocumentIs
  <2>7. PICK u : u = Ingested(d)
    OBVIOUS
  <2>8. Restored = IF d = Nothing THEN Absent ELSE u
    BY <2>1, <2>5, <2>7 DEF Restored, IngestStream
  <2>9. Holds(u, d, IssuesOf(d))
    BY <2>6, <2>7, IngestedIs
  <2>10. u # Absent /\ Good(u)
    BY <2>9, DocumentsAssumption DEF Holds, Sound, Good
  <2>11. ASSUME NEW i \in IssueIds, u.rows[i] # Absent
         PROVE  View(u, i) = w.issues[i]
    <3>1. View(u, i) # Absent
      BY <2>10, <2>11, ViewIs
    <3>2. View(u, i) = d.issues[i]
      BY <2>9, <3>1 DEF Holds
    <3>3. QED
      BY <1>1, <2>3, <2>4, <2>5, <3>1, <3>2, SentIsRead
  <2>12. QED
    BY <2>2, <2>5, <2>8, <2>10, <2>11
<1>2. QED
  BY <1>1, ReadsInvariant, PTL
=============================================================================
