---------------------------- MODULE Ingest_proofs ----------------------------
(***************************************************************************)
(* Proofs about Ingest for any issues, references, comments and batches.   *)
(* Good says of a state of the tables that hash, index, references and     *)
(* comments agree with the issue rows; every statement group keeps it, so  *)
(* it holds of what the open transaction sees and of what is committed.    *)
(***************************************************************************)
EXTENDS Ingest, TLAPS

(* A stored comment is under an issue it belongs to.                        *)
CommentsInPlace(t) ==
  \A c \in Comments :
    t.comments[c] # Absent => c \in CommentsOf[t.comments[c].issue]

Good(t) ==
  /\ t \in Database
  /\ CommentsInPlace(t)
  /\ Mirrors(t) /\ HashedAsStored(t) /\ RefsResolve(t)

-----------------------------------------------------------------------------
LEMMA EmptyIsGood == Good(Empty)
BY DEF Good, Empty, Database, CommentsInPlace, Mirrors, HashedAsStored,
       RefsResolve

(* Upserting entities never takes one away, and touches nothing else.       *)
LEMMA EntitiesOnly ==
  ASSUME NEW t \in Database, NEW listed \in Listings
  PROVE  LET u == UpsertEntities(t, listed)
         IN  /\ u \in Database
             /\ \A r \in Refs : t.ents[r] # Absent => u.ents[r] # Absent
             /\ u.rows = t.rows /\ u.refs = t.refs
             /\ u.comments = t.comments /\ u.fts = t.fts
BY DEF UpsertEntities, Database, Listings

LEMMA StubsOnly ==
  ASSUME NEW t \in Database, NEW refs \in SUBSET Refs
  PROVE  LET u == StubMissingRefs(t, refs)
         IN  /\ u \in Database
             /\ \A r \in Refs : t.ents[r] # Absent => u.ents[r] = t.ents[r]
             /\ \A r \in refs : u.ents[r] # Absent
             /\ u.rows = t.rows /\ u.refs = t.refs
             /\ u.comments = t.comments /\ u.fts = t.fts
BY NamesAssumption DEF StubMissingRefs, Database

(* What an issue's content and its hash depend on.                          *)
LEMMA SameView ==
  ASSUME NEW t, NEW u, u.rows = t.rows, u.refs = t.refs, u.comments = t.comments
  PROVE  \A i \in IssueIds : /\ View(u, i) = View(t, i)
                            /\ CommentsUnder(u, i) = CommentsUnder(t, i)
BY DEF View, CommentsUnder

LEMMA GoodStays ==
  ASSUME NEW t, NEW u \in Database, Good(t),
         u.rows = t.rows, u.refs = t.refs, u.comments = t.comments,
         u.fts = t.fts,
         \A r \in Refs : t.ents[r] # Absent => u.ents[r] # Absent
  PROVE  Good(u)
<1>1. CommentsInPlace(u) /\ Mirrors(u) /\ HashedAsStored(u)
  BY SameView DEF Good, CommentsInPlace, Mirrors, HashedAsStored
<1>2. RefsResolve(u)
  BY AuthorsAssumption DEF Good, RefsResolve, Database
<1>3. QED
  BY <1>1, <1>2 DEF Good

-----------------------------------------------------------------------------
LEMMA InputShape ==
  ASSUME NEW x \in IssueInputs
  PROVE  /\ x.id \in IssueIds /\ x.content \in Content(x.id)
         /\ x.content \in Contents
         /\ x.content.ident \in Idents /\ x.content.text \in Texts
         /\ x.content.refs \in SUBSET Refs
         /\ x.content.said \in [Comments -> Bodies \cup {Absent}]
         /\ \A c \in Comments :
              x.content.said[c] # Absent => c \in CommentsOf[x.id]
         /\ Mentioned(x.content) \in SUBSET Refs
         /\ x.content.refs \subseteq Mentioned(x.content)
         /\ \A c \in Comments : x.content.said[c] # Absent =>
              AuthorsOf[c] \subseteq Mentioned(x.content)
<1>1. PICK i \in IssueIds : x \in [id : {i}, content : Content(i)]
  BY DEF IssueInputs
<1>2. x.id = i /\ x.content \in Content(i)
  BY <1>1
<1>3. x.content \in Contents
  BY <1>2 DEF Contents
<1>4. /\ x.content.refs \in SUBSET Refs
      /\ x.content.said \in [Comments -> Bodies \cup {Absent}]
  BY <1>2 DEF Content
<1>5. /\ Mentioned(x.content) \in SUBSET Refs
      /\ x.content.refs \subseteq Mentioned(x.content)
      /\ \A c \in Comments : x.content.said[c] # Absent =>
           AuthorsOf[c] \subseteq Mentioned(x.content)
  BY <1>4, AuthorsAssumption DEF Mentioned
<1>6. QED
  BY <1>2, <1>3, <1>4, <1>5 DEF Content

(* The tables once the statements for one issue are through.                *)
LEMMA RewrittenIs ==
  ASSUME NEW t \in Database, NEW x \in IssueInputs, NEW u, u = Rewritten(t, x)
  PROVE  /\ u \in Database /\ u.ents = t.ents
         /\ u.rows = [t.rows EXCEPT ![x.id] =
                        [ident |-> x.content.ident, text |-> x.content.text,
                         hash |-> x.content]]
         /\ u.refs = [t.refs EXCEPT ![x.id] = x.content.refs]
         /\ u.comments =
              [c \in Comments |->
                 IF x.content.said[c] # Absent
                   THEN [issue |-> x.id, body |-> x.content.said[c]]
                 ELSE IF t.comments[c] # Absent
                         /\ t.comments[c].issue = x.id THEN Absent
                 ELSE t.comments[c]]
         /\ u.fts = [t.fts EXCEPT ![x.id] =
                       [ident |-> x.content.ident, text |-> x.content.text,
                        words |-> {u.comments[c].body :
                                     c \in CommentsUnder(u, x.id)}]]
<1> DEFINE row == [ident |-> x.content.ident, text |-> x.content.text,
                   hash |-> x.content]
           said == [c \in Comments |->
                     IF x.content.said[c] # Absent
                       THEN [issue |-> x.id, body |-> x.content.said[c]]
                     ELSE IF t.comments[c] # Absent
                             /\ t.comments[c].issue = x.id THEN Absent
                     ELSE t.comments[c]]
           a == UpsertIssue(t, x)
           b == ReplaceComments(a, x)
<1>0. u = RebuildFts(b, x.id)
  BY DEF Rewritten
<1>1. row \in Row
  BY InputShape DEF Row
<1>2. said \in [Comments -> Comment \cup {Absent}]
  BY InputShape DEF Comment, Database
<1>3. /\ a \in Database /\ a.ents = t.ents /\ a.comments = t.comments
      /\ a.rows = [t.rows EXCEPT ![x.id] = row] /\ a.fts = t.fts
      /\ a.refs = [t.refs EXCEPT ![x.id] = x.content.refs]
  BY <1>1, InputShape DEF UpsertIssue, ContentHash, Database
<1> HIDE DEF a
<1>4. /\ b \in Database /\ b.ents = a.ents /\ b.rows = a.rows
      /\ b.refs = a.refs /\ b.fts = a.fts /\ b.comments = said
  BY <1>2, <1>3 DEF ReplaceComments, Database
<1> HIDE DEF b
<1> DEFINE fts == [ident |-> x.content.ident, text |-> x.content.text,
                   words |-> {b.comments[c].body :
                                c \in CommentsUnder(b, x.id)}]
<1>5. fts \in FtsRow
  BY <1>4, InputShape DEF FtsRow, CommentsUnder, Database, Comment
<1>6. /\ u \in Database /\ u.ents = b.ents /\ u.rows = b.rows
      /\ u.refs = b.refs /\ u.comments = b.comments
      /\ u.fts = [b.fts EXCEPT ![x.id] = fts]
  <2>1. b.rows[x.id] = row
    BY <1>3, <1>4, InputShape DEF Database
  <2>2. u = [b EXCEPT !.fts = [@ EXCEPT ![x.id] = fts]]
    BY <1>0, <2>1 DEF RebuildFts
  <2>3. [b.fts EXCEPT ![x.id] = fts] \in [IssueIds -> FtsRow \cup {Absent}]
    BY <1>4, <1>5 DEF Database
  <2>4. QED
    BY <1>4, <2>2, <2>3 DEF Database
<1>7. CommentsUnder(u, x.id) = CommentsUnder(b, x.id)
  BY <1>6 DEF CommentsUnder
<1>8. u.fts = [t.fts EXCEPT ![x.id] =
                [ident |-> x.content.ident, text |-> x.content.text,
                 words |-> {u.comments[c].body :
                              c \in CommentsUnder(u, x.id)}]]
  BY <1>3, <1>4, <1>6, <1>7
<1>9. QED
  BY <1>3, <1>4, <1>6, <1>8

(* Rewriting an issue gives it its new content and no other issue anything, *)
(* because its comments are under no other issue.                           *)
LEMMA RewrittenIsGood ==
  ASSUME NEW t, Good(t), NEW x \in IssueInputs,
         \A r \in Mentioned(x.content) : t.ents[r] # Absent,
         NEW u, u = Rewritten(t, x)
  PROVE  /\ Good(u) /\ u.ents = t.ents
         /\ View(u, x.id) = x.content
         /\ \A j \in IssueIds \ {x.id} : View(u, j) = View(t, j)
<1> USE DEF Good
<1>1. x.id \in IssueIds
  BY InputShape
<1>2. /\ u \in Database /\ u.ents = t.ents
      /\ u.rows[x.id] = [ident |-> x.content.ident, text |-> x.content.text,
                         hash |-> x.content]
      /\ u.refs[x.id] = x.content.refs
      /\ u.fts[x.id] = [ident |-> x.content.ident, text |-> x.content.text,
                        words |-> {u.comments[c].body :
                                     c \in CommentsUnder(u, x.id)}]
      /\ \A j \in IssueIds \ {x.id} :
           u.rows[j] = t.rows[j] /\ u.refs[j] = t.refs[j] /\ u.fts[j] = t.fts[j]
      /\ \A c \in Comments : u.comments[c] =
           IF x.content.said[c] # Absent
             THEN [issue |-> x.id, body |-> x.content.said[c]]
           ELSE IF t.comments[c] # Absent /\ t.comments[c].issue = x.id
             THEN Absent
           ELSE t.comments[c]
  <2>1. /\ u \in Database /\ u.ents = t.ents
        /\ u.rows = [t.rows EXCEPT ![x.id] =
                       [ident |-> x.content.ident, text |-> x.content.text,
                        hash |-> x.content]]
        /\ u.refs = [t.refs EXCEPT ![x.id] = x.content.refs]
        /\ u.fts = [t.fts EXCEPT ![x.id] =
                      [ident |-> x.content.ident, text |-> x.content.text,
                       words |-> {u.comments[c].body :
                                    c \in CommentsUnder(u, x.id)}]]
        /\ u.comments =
             [c \in Comments |->
                IF x.content.said[c] # Absent
                  THEN [issue |-> x.id, body |-> x.content.said[c]]
                ELSE IF t.comments[c] # Absent
                        /\ t.comments[c].issue = x.id THEN Absent
                ELSE t.comments[c]]
    BY RewrittenIs
  <2>2. /\ DOMAIN t.rows = IssueIds /\ DOMAIN t.refs = IssueIds
        /\ DOMAIN t.fts = IssueIds
    BY DEF Database
  <2>3. QED
    BY <1>1, <2>1, <2>2
<1>3. ASSUME NEW c \in Comments, x.content.said[c] # Absent
      PROVE  /\ u.comments[c] # Absent /\ u.comments[c].issue = x.id
             /\ u.comments[c].body = x.content.said[c]
             /\ c \in CommentsOf[x.id]
             /\ t.comments[c] # Absent => t.comments[c].issue = x.id
  <2>1. [issue |-> x.id, body |-> x.content.said[c]] \in Comment
    BY <1>1, <1>3, InputShape DEF Comment
  <2>2. c \in CommentsOf[x.id]
    BY <1>3, InputShape
  <2>3. t.comments[c] # Absent => t.comments[c].issue = x.id
    BY <1>1, <2>2, StayAssumption DEF CommentsInPlace, Database, Comment
  <2>4. QED
    BY <1>2, <1>3, <2>1, <2>2, <2>3, RowsAssumption
<1>4. CommentsUnder(u, x.id) = {c \in Comments : x.content.said[c] # Absent}
  <2>1. \A c \in Comments : x.content.said[c] = Absent =>
          ~(u.comments[c] # Absent /\ u.comments[c].issue = x.id)
    BY <1>2
  <2>2. QED
    BY <1>3, <2>1 DEF CommentsUnder
<1>5. ASSUME NEW j \in IssueIds \ {x.id}
      PROVE  /\ CommentsUnder(u, j) = CommentsUnder(t, j)
             /\ \A c \in CommentsUnder(t, j) : u.comments[c] = t.comments[c]
  <2>1. ASSUME NEW c \in Comments, x.content.said[c] # Absent
        PROVE  c \notin CommentsUnder(u, j) /\ c \notin CommentsUnder(t, j)
    BY <1>3, <2>1 DEF CommentsUnder
  <2>2. ASSUME NEW c \in Comments, x.content.said[c] = Absent
        PROVE  /\ c \in CommentsUnder(u, j) <=> c \in CommentsUnder(t, j)
               /\ c \in CommentsUnder(t, j) => u.comments[c] = t.comments[c]
    BY <1>2, <2>2 DEF CommentsUnder
  <2>3. /\ CommentsUnder(u, j) \subseteq Comments
        /\ CommentsUnder(t, j) \subseteq Comments
    BY DEF CommentsUnder
  <2>4. QED
    BY <2>1, <2>2, <2>3
<1>6. u.rows[x.id] # Absent
  BY <1>1, <1>2, InputShape, RowsAssumption DEF Row
<1>7. View(u, x.id) = x.content
  <2> DEFINE said == [c \in Comments |-> IF c \in CommentsUnder(u, x.id)
                                           THEN u.comments[c].body ELSE Absent]
  <2>1. said = x.content.said
    BY <1>3, <1>4, InputShape
  <2> HIDE DEF said
  <2>2. x.content = [ident |-> x.content.ident, text |-> x.content.text,
                     refs |-> x.content.refs, said |-> x.content.said]
    BY InputShape DEF Content
  <2>3. QED
    BY <1>2, <1>6, <2>1, <2>2 DEF View, said
<1>8. ASSUME NEW j \in IssueIds \ {x.id}
      PROVE  View(u, j) = View(t, j)
  BY <1>2, <1>5, <1>8 DEF View
<1>9. CommentsInPlace(u)
  BY <1>2, <1>3 DEF CommentsInPlace
<1>10. Mirrors(u)
  <2>1. ASSUME NEW j \in IssueIds \ {x.id}
        PROVE  {u.comments[c].body : c \in CommentsUnder(u, j)}
                 = {t.comments[c].body : c \in CommentsUnder(t, j)}
    BY <1>5, <2>1
  <2>2. ASSUME NEW j \in IssueIds \ {x.id}
        PROVE  IF u.rows[j] = Absent THEN u.fts[j] = Absent
               ELSE u.fts[j] = [ident |-> u.rows[j].ident,
                                text |-> u.rows[j].text,
                                words |-> {u.comments[c].body :
                                             c \in CommentsUnder(u, j)}]
    <3>1. IF t.rows[j] = Absent THEN t.fts[j] = Absent
          ELSE t.fts[j] = [ident |-> t.rows[j].ident, text |-> t.rows[j].text,
                           words |-> {t.comments[c].body :
                                        c \in CommentsUnder(t, j)}]
      BY <2>2 DEF Mirrors
    <3>2. u.rows[j] = t.rows[j] /\ u.fts[j] = t.fts[j]
      BY <1>2, <2>2
    <3>3. QED
      BY <2>1, <2>2, <3>1, <3>2
  <2>3. u.fts[x.id] = [ident |-> u.rows[x.id].ident, text |-> u.rows[x.id].text,
                       words |-> {u.comments[c].body :
                                    c \in CommentsUnder(u, x.id)}]
    BY <1>2
  <2>4. QED
    BY <1>6, <2>2, <2>3 DEF Mirrors
<1>11. HashedAsStored(u)
  BY <1>2, <1>7, <1>8 DEF HashedAsStored, ContentHash
<1>12. RefsResolve(u)
  <2>1. \A j \in IssueIds : t.rows[j] # Absent => u.rows[j] # Absent
    BY <1>2, <1>6
  <2>2. ASSUME NEW c \in Comments, u.comments[c] # Absent
        PROVE  /\ u.rows[u.comments[c].issue] # Absent
               /\ \A r \in AuthorsOf[c] : u.ents[r] # Absent
    <3>1. CASE x.content.said[c] # Absent
      <4>1. u.comments[c].issue = x.id /\ u.rows[x.id] # Absent
        BY <1>3, <1>6, <3>1
      <4>2. \A r \in AuthorsOf[c] : r \in Mentioned(x.content)
        BY <3>1, InputShape
      <4>3. QED
        BY <1>2, <4>1, <4>2
    <3>2. CASE x.content.said[c] = Absent
      <4>1. u.comments[c] = t.comments[c] /\ t.comments[c] # Absent
        BY <1>2, <2>2, <3>2
      <4>2. t.comments[c].issue \in IssueIds
        BY <4>1 DEF Database, Comment
      <4>3. /\ t.rows[t.comments[c].issue] # Absent
            /\ \A r \in AuthorsOf[c] : t.ents[r] # Absent
        BY <4>1 DEF RefsResolve
      <4>4. QED
        BY <1>2, <2>1, <4>1, <4>2, <4>3
    <3>3. QED
      BY <3>1, <3>2
  <2>3. \A j \in IssueIds : \A r \in u.refs[j] : u.ents[r] # Absent
    BY <1>1, <1>2, InputShape DEF RefsResolve
  <2>4. QED
    BY <2>2, <2>3 DEF RefsResolve
<1>13. QED
  BY <1>2, <1>7, <1>8, <1>9, <1>10, <1>11, <1>12

(* One turn of the loop, whichever way the hash sends it.                   *)
LEMMA TurnIsGood ==
  ASSUME NEW t, Good(t), NEW x \in IssueInputs,
         NEW u, u = WithIssue(t, x)
  PROVE  /\ Good(u)
         /\ View(u, x.id) = x.content
         /\ \A j \in IssueIds \ {x.id} : View(u, j) = View(t, j)
         /\ \A r \in Refs : t.ents[r] # Absent => u.ents[r] = t.ents[r]
<1> DEFINE s == StubMissingRefs(t, Mentioned(x.content))
<1>1. x.id \in IssueIds /\ Mentioned(x.content) \in SUBSET Refs
  BY InputShape
<1>2. /\ s \in Database /\ s.rows = t.rows /\ s.refs = t.refs
      /\ s.comments = t.comments /\ s.fts = t.fts
      /\ \A r \in Refs : t.ents[r] # Absent => s.ents[r] = t.ents[r]
      /\ \A r \in Mentioned(x.content) : s.ents[r] # Absent
  BY <1>1, StubsOnly DEF Good
<1> HIDE DEF s
<1>3. Good(s)
  BY <1>2, GoodStays
<1>4. \A j \in IssueIds : View(s, j) = View(t, j)
  BY <1>2, SameView
<1>5. CASE Unchanged(s, x)
  <2>1. u = s
    BY <1>5 DEF WithIssue, s
  <2>2. View(s, x.id) = x.content
    BY <1>1, <1>3, <1>5 DEF Good, HashedAsStored, Unchanged, ContentHash
  <2>3. QED
    BY <1>2, <1>3, <1>4, <2>1, <2>2
<1>6. CASE ~Unchanged(s, x)
  <2>1. u = Rewritten(s, x)
    BY <1>6 DEF WithIssue, s
  <2>2. QED
    BY <1>2, <1>3, <1>4, <2>1, RewrittenIsGood
<1>7. QED
  BY <1>5, <1>6

-----------------------------------------------------------------------------
(* k is the place of the last of the first n issues of b that is i.         *)
IsLast(b, n, i, k) ==
  /\ k \in 0..n
  /\ k > 0 => b[k].id = i
  /\ \A m \in 1..n : m > k => b[m].id # i

(* What the open transaction has made of the archive so far: the issues     *)
(* before the loop's place are as the last of them says, the others as they *)
(* were.                                                                    *)
Pending ==
  \A i \in IssueIds : \E k \in 0..(next - 1) :
    /\ IsLast(snap, next - 1, i, k)
    /\ View(tx, i) = IF k = 0 THEN View(db, i) ELSE snap[k].content

IInv == TypeOK /\ Good(db) /\ Good(tx) /\ (inTx => Pending)

LEMMA NothingPending ==
  <<>> \in Seq(IssueInputs) /\ Len(<<>>) = 0 /\ 1 \in 1..(Len(<<>>) + 1)
<1>1. <<>> \in Seq(IssueInputs) /\ Len(<<>>) = 0
  OBVIOUS
<1>2. 1 \in 1..(0 + 1)
  OBVIOUS
<1>3. QED
  BY <1>1, <1>2

LEMMA InitIInv == Init => IInv
<1> SUFFICES ASSUME Init
             PROVE  IInv
  OBVIOUS
<1>1. Good(db) /\ Good(tx)
  BY EmptyIsGood DEF Init
<1>2. TypeOK
  BY <1>1, NothingPending DEF Init, TypeOK, Good
<1>3. QED
  BY <1>1, <1>2 DEF Init, IInv

LEMMA TurnKeeps ==
  ASSUME IInv, IngestIssue
  PROVE  Good(tx') /\ Pending'
<1> DEFINE x == snap[next]
<1>1. /\ next \in 1..Len(snap) /\ x \in IssueInputs /\ tx' = WithIssue(tx, x)
      /\ next' = next + 1 /\ UNCHANGED <<db, snap>>
  BY DEF IngestIssue, IInv, TypeOK
<1>2. /\ Good(tx') /\ View(tx', x.id) = x.content
      /\ \A j \in IssueIds \ {x.id} : View(tx', j) = View(tx, j)
  BY <1>1, TurnIsGood DEF IInv
<1>3. ASSUME NEW i \in IssueIds
      PROVE  \E k \in 0..next :
               /\ IsLast(snap, next, i, k)
               /\ View(tx', i) = IF k = 0 THEN View(db, i) ELSE snap[k].content
  <2>1. CASE i = x.id
    <3>1. IsLast(snap, next, i, next) /\ next # 0 /\ next \in 0..next
      BY <1>1, <2>1 DEF IsLast
    <3>2. QED
      BY <1>2, <2>1, <3>1
  <2>2. CASE i # x.id
    <3>1. PICK k \in 0..(next - 1) :
            /\ IsLast(snap, next - 1, i, k)
            /\ View(tx, i) = IF k = 0 THEN View(db, i) ELSE snap[k].content
      BY DEF IInv, Pending, IngestIssue
    <3>2. IsLast(snap, next, i, k) /\ k \in 0..next
      BY <1>1, <2>2, <3>1 DEF IsLast
    <3>3. QED
      BY <1>2, <2>2, <3>1, <3>2
  <2>3. QED
    BY <2>1, <2>2
<1>4. /\ next' - 1 = next /\ snap' = snap
      /\ \A i \in IssueIds :
           View(tx, i)' = View(tx', i) /\ View(db, i)' = View(db, i)
  BY <1>1 DEF View, CommentsUnder
<1>5. QED
  BY <1>2, <1>3, <1>4 DEF Pending, IsLast

LEMMA Inductive == IInv /\ [Next]_vars => IInv'
<1> SUFFICES ASSUME IInv, [Next]_vars
             PROVE  IInv'
  OBVIOUS
<1> USE DEF IInv
<1>1. CASE UNCHANGED vars
  <2>1. UNCHANGED <<db, tx, inTx, snap, next>>
    BY <1>1 DEF vars
  <2>2. Good(tx)' /\ Good(db)'
    BY <2>1 DEF Good, CommentsInPlace, Mirrors, HashedAsStored, RefsResolve,
                View, CommentsUnder
  <2>3. TypeOK'
    BY <2>1 DEF TypeOK
  <2>4. inTx' => Pending'
    BY <2>1 DEF Pending, View, CommentsUnder, IsLast
  <2>5. QED
    BY <2>2, <2>3, <2>4
<1>2. ASSUME NEW listed \in Listings, NEW issues \in Batches,
             Begin(listed, issues)
      PROVE  IInv'
  <2>1. Good(UpsertEntities(db, listed))
    BY EntitiesOnly, GoodStays DEF Good
  <2>2. issues \in Seq(IssueInputs)
    BY BatchAssumption DEF Batches
  <2>3. /\ tx' = UpsertEntities(db, listed) /\ UNCHANGED db
        /\ snap' = issues /\ next' = 1 /\ inTx' = TRUE
    BY <1>2 DEF Begin
  <2>4. Good(tx)' /\ Good(db)'
    BY <2>1, <2>3 DEF Good, CommentsInPlace, Mirrors, HashedAsStored,
                      RefsResolve, View, CommentsUnder
  <2>5. TypeOK'
    BY <2>2, <2>3, <2>4 DEF TypeOK, Good
  <2>6. \A i \in IssueIds : View(tx', i) = View(db, i)
    BY <2>3, EntitiesOnly, SameView DEF Good
  <2>7. Pending'
    BY <2>3, <2>6 DEF Pending, IsLast, View, CommentsUnder
  <2>8. QED
    BY <2>4, <2>5, <2>7
<1>3. CASE IngestIssue
  <2>1. Good(tx') /\ Pending'
    BY <1>3, TurnKeeps
  <2>2. Good(tx)' /\ Good(db)'
    BY <1>3, <2>1 DEF IngestIssue, Good, CommentsInPlace, Mirrors,
                      HashedAsStored, RefsResolve, View, CommentsUnder
  <2>3. TypeOK'
    BY <1>3, <2>2 DEF IngestIssue, TypeOK, Good
  <2>4. QED
    BY <2>1, <2>2, <2>3
<1>4. CASE Commit \/ Rollback
  <2>1. /\ db' = tx \/ db' = db
        /\ tx' = Empty /\ inTx' = FALSE /\ snap' = <<>> /\ next' = 1
    BY <1>4 DEF Commit, Rollback, EndTx
  <2>2. Good(db')
    BY <2>1
  <2>3. Good(tx)' /\ Good(db)'
    BY <2>1, <2>2, EmptyIsGood
       DEF Good, CommentsInPlace, Mirrors, HashedAsStored, RefsResolve, View,
           CommentsUnder
  <2>4. TypeOK'
    BY <2>1, <2>3, NothingPending DEF TypeOK, Good
  <2>5. QED
    BY <2>1, <2>3, <2>4
<1>5. QED
  BY <1>1, <1>2, <1>3, <1>4 DEF Next

LEMMA Invariance == Spec => []IInv
BY InitIInv, Inductive, PTL DEF Spec

(* The tables and the transaction stay within their types.                  *)
THEOREM TypeCorrect == Spec => []TypeOK
<1>1. IInv => TypeOK
  BY DEF IInv
<1>2. QED
  BY <1>1, Invariance, PTL

(* Search finds an issue by what the tables say of it, for as long as a     *)
(* comment stays under its issue.                                           *)
THEOREM IndexMirrors == Spec => []FtsMirrors
<1>1. IInv => FtsMirrors
  BY DEF IInv, Good, FtsMirrors
<1>2. QED
  BY <1>1, Invariance, PTL

(* The hash short-circuit never skips an issue that is stored differently.  *)
THEOREM HashIsTrue == Spec => []HashFaithful
<1>1. IInv => HashFaithful
  BY DEF IInv, Good, HashFaithful
<1>2. QED
  BY <1>1, Invariance, PTL

(* Every entity an issue names, and every comment's issue, has a row.       *)
THEOREM NothingDangles == Spec => []RefsExist
<1>1. IInv => RefsExist
  BY DEF IInv, Good, RefsExist
<1>2. QED
  BY <1>1, Invariance, PTL

(* Ingesting an issue blanks no name.                                       *)
THEOREM NamesStay == Spec => StubsNeverBlank
<1>1. ASSUME IInv, [Next]_vars, inTx, inTx', NEW r \in Refs,
             tx.ents[r] \in Names
      PROVE  tx'.ents[r] = tx.ents[r]
  <2>1. CASE UNCHANGED vars
    BY <2>1 DEF vars
  <2>2. CASE IngestIssue
    <3>1. snap[next] \in IssueInputs /\ tx' = WithIssue(tx, snap[next])
      BY <1>1, <2>2 DEF IngestIssue, IInv, TypeOK
    <3>2. tx.ents[r] # Absent
      BY <1>1, NamesAssumption
    <3>3. QED
      BY <1>1, <3>1, <3>2, TurnIsGood DEF IInv
  <2>3. QED
    BY <1>1, <2>1, <2>2 DEF Next, Begin, Commit, Rollback, EndTx
<1>2. IInv /\ [Next]_vars =>
        [inTx /\ inTx' => \A r \in Refs : tx.ents[r] \in Names
                                         => tx'.ents[r] = tx.ents[r]]_vars
  BY <1>1
<1>3. QED
  BY <1>2, Invariance, PTL DEF Spec, StubsNeverBlank

-----------------------------------------------------------------------------
(* A commit takes the batch whole.                                          *)
LEMMA CommitTakes ==
  ASSUME IInv, Commit
  PROVE  [i \in IssueIds |-> View(tx, i)]
           = Archive!Applied([i \in IssueIds |-> View(db, i)], snap, Len(snap))
<1>1. next = Len(snap) + 1 /\ Len(snap) \in Nat
  BY DEF Commit, IInv, TypeOK
<1>2. ASSUME NEW i \in IssueIds
      PROVE  LET k == Archive!LastOf(snap, Len(snap), i)
             IN  View(tx, i) = IF k = 0 THEN View(db, i) ELSE snap[k].content
  <2>1. PICK k \in 0..Len(snap) :
          /\ IsLast(snap, Len(snap), i, k)
          /\ View(tx, i) = IF k = 0 THEN View(db, i) ELSE snap[k].content
    BY <1>1 DEF Commit, IInv, Pending
  <2>2. IsLast(snap, Len(snap), i, Archive!LastOf(snap, Len(snap), i))
    BY <2>1 DEF IsLast, Archive!LastOf
  <2>3. \A m \in 0..Len(snap) : IsLast(snap, Len(snap), i, m) => m = k
    BY <1>1, <2>1 DEF IsLast
  <2>4. Archive!LastOf(snap, Len(snap), i) = k
    BY <2>2, <2>3 DEF IsLast
  <2>5. QED
    BY <2>1, <2>4
<1>3. QED
  BY <1>2 DEF Archive!Applied

(* A transaction is one atomic update of the abstract archive, or none.     *)
THEOREM Refinement == Spec => ImplementsArchive
<1>1. Init => Archive!Init
  BY DEF Init, Archive!Init, View, Empty
<1>2. IInv /\ [Next]_vars => [Archive!Next]_(Archive!vars)
  <2> SUFFICES ASSUME IInv, [Next]_vars
               PROVE  [Archive!Next]_(Archive!vars)
    OBVIOUS
  <2>0. ASSUME NEW t, db' = t
        PROVE  [i \in IssueIds |-> View(db, i)]'
                 = [i \in IssueIds |-> View(t, i)]
    BY <2>0 DEF View, CommentsUnder
  <2>1. CASE UNCHANGED vars \/ IngestIssue
    <3>1. UNCHANGED <<db, inTx, snap>>
      BY <2>1 DEF vars, IngestIssue
    <3>2. QED
      BY <2>0, <3>1 DEF Archive!vars
  <2>2. ASSUME NEW listed \in Listings, NEW issues \in Batches,
               Begin(listed, issues)
        PROVE  Archive!Next
    <3>1. /\ ~inTx /\ inTx' = TRUE /\ snap' \in Batches /\ db' = db
      BY <2>2 DEF Begin
    <3>2. Archive!Submit
      BY <2>0, <3>1 DEF Archive!Submit
    <3>3. QED
      BY <3>2 DEF Archive!Next
  <2>3. CASE Commit
    <3>1. inTx /\ inTx' = FALSE /\ snap' = <<>> /\ db' = tx
      BY <2>3 DEF Commit, EndTx
    <3>2. Archive!Take
      BY <2>0, <2>3, <3>1, CommitTakes DEF Archive!Take
    <3>3. QED
      BY <3>2 DEF Archive!Next
  <2>4. CASE Rollback
    <3>1. inTx /\ inTx' = FALSE /\ snap' = <<>> /\ db' = db
      BY <2>4 DEF Rollback, EndTx
    <3>2. Archive!Drop
      BY <2>0, <3>1 DEF Archive!Drop
    <3>3. QED
      BY <3>2 DEF Archive!Next
  <2>5. QED
    BY <2>1, <2>2, <2>3, <2>4 DEF Next
<1>3. QED
  BY <1>1, <1>2, Invariance, PTL DEF Spec, ImplementsArchive, Archive!Spec
=============================================================================
