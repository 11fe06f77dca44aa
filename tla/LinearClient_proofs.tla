------------------------ MODULE LinearClient_proofs ------------------------
(***************************************************************************)
(* The safety properties of module LinearClient, for every number of       *)
(* connections, items, pages and attempts.                                 *)
(*                                                                         *)
(* The lemmas of the first part are about sets of positions: one that is   *)
(* not empty has a least and a greatest element, and the list InOrder      *)
(* makes of it is there and has each of its elements once.  The library    *)
(* states induction for an operator; the arguments here are by a least     *)
(* counterexample instead (WFMin), which is about a set.                   *)
(***************************************************************************)
EXTENDS LinearClient, TLAPS, WellFoundedInduction, FiniteSetTheorems

(* A set of natural numbers that is not empty has a least element.          *)
LEMMA HasLeast ==
  ASSUME NEW T, T \subseteq Nat, T # {}
  PROVE  \E x \in T : \A y \in T : x <= y
<1>1. PICK x \in T : \A y \in T : ~(<<y, x>> \in OpToRel(<, Nat))
  BY NatLessThanWellFounded, WFMin
<1>2. \A y \in T : ~(y < x)
  BY <1>1 DEF OpToRel
<1>3. QED
  BY <1>2

(* A bounded one has a greatest element.                                    *)
LEMMA HasGreatest ==
  ASSUME NEW n \in Nat, NEW T, T \subseteq 0..n, T # {}
  PROVE  \E x \in T : \A y \in T : y <= x
<1> DEFINE Down == {m \in Nat : m <= n /\ n - m \in T}
<1>1. \A x \in T : n - x \in Nat /\ n - x <= n /\ n - (n - x) = x
  OBVIOUS
<1>2. Down \subseteq Nat /\ Down # {}
  BY <1>1
<1> HIDE DEF Down
<1>3. PICK m \in Down : \A k \in Down : m <= k
  BY <1>2, HasLeast
<1>4. m \in Nat /\ m <= n /\ n - m \in T
  BY <1>3 DEF Down
<1>5. ASSUME NEW y \in T PROVE y <= n - m
  <2>1. n - y \in Down
    BY <1>1 DEF Down
  <2>2. m <= n - y /\ y \in 0..n
    BY <2>1, <1>3
  <2>3. QED
    BY <2>2, <1>4
<1>6. QED
  BY <1>4, <1>5

(* The backoff is a number of ticks: 2^n subsets has 1..n.                  *)
LEMMA PowersOfTwo ==
  ASSUME NEW n \in Nat
  PROVE  2^n \in Nat
<1>1. IsFiniteSet(1..n) /\ Cardinality(1..n) = n
  BY FS_Interval
<1>2. Cardinality(SUBSET (1..n)) = 2^n /\ IsFiniteSet(SUBSET (1..n))
  BY <1>1, FS_SUBSET
<1>3. QED
  BY <1>2, FS_CardinalityType

-----------------------------------------------------------------------------
(* The list of a set of positions                                           *)

Sorted(P) == {s \in [1..Cardinality(P) -> P] :
                \A m, n \in DOMAIN s : m < n => s[m] < s[n]}

(* Every finite set of positions has a sorted list.                         *)
LEMMA SortedExists ==
  ASSUME NEW N \in Nat, NEW P \in SUBSET (0..N)
  PROVE  Sorted(P) # {}
<1> DEFINE Bad == {c \in Nat : \E Q \in SUBSET (0..N) :
                                 Cardinality(Q) = c /\ Sorted(Q) = {}}
<1>1. \A Q \in SUBSET (0..N) : IsFiniteSet(Q) /\ Cardinality(Q) \in Nat
  <2>1. IsFiniteSet(0..N)
    BY FS_Interval
  <2>2. \A Q \in SUBSET (0..N) : IsFiniteSet(Q)
    BY <2>1, FS_Subset
  <2>3. QED
    BY <2>2, FS_CardinalityType
<1>2. Bad = {}
  <2>1. SUFFICES ASSUME Bad # {} PROVE FALSE
    OBVIOUS
  <2>2. PICK c \in Bad : \A d \in Bad : c <= d
    BY <2>1, HasLeast
  <2>3. PICK Q \in SUBSET (0..N) : Cardinality(Q) = c /\ Sorted(Q) = {}
    BY <2>2
  <2>4. CASE Q = {}
    <3>1. Cardinality(Q) = 0
      BY <2>4, FS_EmptySet
    <3>2. [i \in 1..0 |-> 0] \in Sorted(Q)
      BY <3>1, <2>4 DEF Sorted
    <3>3. QED
      BY <3>2, <2>3
  <2>5. CASE Q # {}
    <3>1. PICK x \in Q : \A y \in Q : y <= x
      BY <2>5, HasGreatest
    <3>2. Cardinality(Q \ {x}) = c - 1 /\ c \in Nat /\ c # 0
      <4>1. Cardinality(Q \ {x}) = c - 1
        BY <1>1, <2>3, <3>1, FS_RemoveElement
      <4>2. Cardinality(Q) # 0 
        BY <1>1, <2>5, FS_EmptySet
      <4>3. QED
        BY <4>1, <4>2, <2>2, <2>3
    <3>3. c - 1 \notin Bad
      BY <2>2, <3>2
    <3>4. Sorted(Q \ {x}) # {}
      <4>1. Q \ {x} \in SUBSET (0..N)
        OBVIOUS
      <4>2. c - 1 \in Nat
        BY <3>2
      <4>3. QED
        BY <4>1, <4>2, <3>2, <3>3
    <3>5. PICK s \in Sorted(Q \ {x}) : TRUE
      BY <3>4
    <3>6. /\ s \in [1..(c - 1) -> Q \ {x}]
          /\ \A m, n \in 1..(c - 1) : m < n => s[m] < s[n]
      BY <3>5, <3>2 DEF Sorted
    <3> DEFINE t == [k \in 1..c |-> IF k = c THEN x ELSE s[k]]
    <3>7. t \in [1..c -> Q]
      BY <3>6, <3>2, <3>1
    <3>8. ASSUME NEW m \in 1..c, NEW n \in 1..c, m < n PROVE t[m] < t[n]
      <4>1. m \in 1..(c - 1) /\ t[m] = s[m] /\ s[m] \in Q \ {x}
        BY <3>8, <3>6, <3>2
      <4>2. CASE n = c
        <5>1. t[n] = x
          BY <4>2
        <5>2. s[m] <= x /\ s[m] # x /\ s[m] \in 0..N /\ x \in 0..N
          BY <4>1, <3>1
        <5>3. s[m] < x
          BY <5>2
        <5>4. QED
          BY <4>1, <5>1, <5>3
      <4>3. CASE n # c
        <5>1. n \in 1..(c - 1)
          BY <4>3, <3>2
        <5>2. t[n] = s[n]
          BY <4>3
        <5>3. s[m] < s[n]
          BY <4>1, <5>1, <3>8, <3>6
        <5>4. QED
          BY <4>1, <5>2, <5>3
      <4>4. QED
        BY <4>2, <4>3
    <3>9. t \in Sorted(Q)
      BY <3>7, <3>8, <2>3 DEF Sorted
    <3>10. QED
      BY <3>9, <2>3
  <2>6. QED
    BY <2>4, <2>5
<1>3. QED
  BY <1>1, <1>2

(* InOrder lists each element of its set once, in increasing order.         *)
LEMMA InOrderProps ==
  ASSUME NEW N \in Nat, NEW P \in SUBSET (0..N)
  PROVE  /\ Cardinality(P) \in Nat
         /\ InOrder(P) \in [1..Cardinality(P) -> P]
         /\ \A m, n \in 1..Cardinality(P) :
              m < n => InOrder(P)[m] < InOrder(P)[n]
         /\ \A x \in P : \E m \in 1..Cardinality(P) : InOrder(P)[m] = x
<1> DEFINE c == Cardinality(P)  s == InOrder(P)
<1>1. IsFiniteSet(P) /\ c \in Nat
  <2>1. IsFiniteSet(0..N)
    BY FS_Interval
  <2>2. QED
    BY <2>1, FS_Subset, FS_CardinalityType
<1>2. s \in Sorted(P)
  BY SortedExists DEF InOrder, Sorted
<1>3. s \in [1..c -> P] /\ \A m, n \in 1..c : m < n => s[m] < s[n]
  BY <1>2 DEF Sorted
<1>4. s \in Injection(1..c, P)
  <2>1. \A m, n \in 1..c : s[m] = s[n] => m = n
    <3>1. SUFFICES ASSUME NEW m \in 1..c, NEW n \in 1..c, s[m] = s[n], m < n
                   PROVE  FALSE
      OBVIOUS
    <3>2. s[m] < s[n] /\ s[m] \in 0..N
      BY <1>3, <3>1
    <3>3. QED
      BY <3>1, <3>2
  <2>2. QED
    BY <1>3, <2>1 DEF Injection, IsInjective
<1>5. Cardinality(1..c) = c
  BY <1>1, FS_Interval
<1>6. s \in Surjection(1..c, P)
  BY <1>1, <1>4, <1>5, FS_Injection
<1>7. QED
  BY <1>1, <1>3, <1>6 DEF Surjection
(* As a sequence.                                                           *)
LEMMA InOrderSeq ==
  ASSUME NEW P \in SUBSET Items
  PROVE  /\ InOrder(P) \in Seq(Items)
         /\ Len(InOrder(P)) \in Nat
         /\ \A m \in 1..Len(InOrder(P)) : InOrder(P)[m] \in P
         /\ \A m, n \in 1..Len(InOrder(P)) :
              m < n => InOrder(P)[m] < InOrder(P)[n]
         /\ \A x \in P : \E m \in 1..Len(InOrder(P)) : InOrder(P)[m] = x
<1> DEFINE c == Cardinality(P)  s == InOrder(P)
<1>1. MaxItem \in Nat /\ P \in SUBSET (0..MaxItem)
  BY ListsAssumption DEF Items
<1>2. /\ c \in Nat /\ s \in [1..c -> P]
      /\ \A m, n \in 1..c : m < n => s[m] < s[n]
      /\ \A x \in P : \E m \in 1..c : s[m] = x
  BY <1>1, InOrderProps
<1> HIDE DEF c, s
<1>3. s \in Seq(Items) /\ Len(s) = c
  BY <1>2
<1>4. QED
  BY <1>2, <1>3 DEF s

(* A page put after what is before all of it.                               *)
Increasing(g) == \A m, n \in DOMAIN g : m < n => g[m] < g[n]

LEMMA PageAppended ==
  ASSUME NEW g \in Seq(Items), Increasing(g), NEW b \in Nat,
         \A m \in DOMAIN g : g[m] <= b,
         NEW P \in SUBSET Items, \A x \in P : b < x,
         NEW h, h = g \o InOrder(P)
  PROVE  /\ h \in Seq(Items) /\ Increasing(h)
         /\ \A m \in DOMAIN h : h[m] \in P \/ h[m] <= b
         /\ Range(h) = Range(g) \cup P
<1> DEFINE s == InOrder(P)
<1>1. /\ s \in Seq(Items) /\ Len(s) \in Nat
      /\ \A m \in 1..Len(s) : s[m] \in P
      /\ \A m, n \in 1..Len(s) : m < n => s[m] < s[n]
      /\ \A x \in P : \E m \in 1..Len(s) : s[m] = x
  BY InOrderSeq
<1>2. h = g \o s
  OBVIOUS
<1> HIDE DEF s
<1>3. /\ h \in Seq(Items) /\ Len(g) \in Nat /\ Len(h) = Len(g) + Len(s)
      /\ DOMAIN h = 1..(Len(g) + Len(s)) /\ DOMAIN g = 1..Len(g)
      /\ \A m \in 1..Len(g) : h[m] = g[m]
      /\ \A m \in 1..Len(s) : h[Len(g) + m] = s[m]
  BY <1>1, <1>2
<1>4. \A m \in DOMAIN h : m \in 1..Len(g) \/ \E k \in 1..Len(s) : m = Len(g) + k
  <2>1. SUFFICES ASSUME NEW m \in DOMAIN h, m \notin 1..Len(g)
                 PROVE  \E k \in 1..Len(s) : m = Len(g) + k
    OBVIOUS
  <2>2. m - Len(g) \in 1..Len(s) /\ m = Len(g) + (m - Len(g))
    BY <2>1, <1>1, <1>3
  <2>3. QED
    BY <2>2
<1>5. \A m \in DOMAIN h : h[m] \in P \/ (m \in 1..Len(g) /\ h[m] <= b)
  BY <1>1, <1>3, <1>4
<1>6. Increasing(h)
  <2>1. SUFFICES ASSUME NEW m \in DOMAIN h, NEW n \in DOMAIN h, m < n
                 PROVE  h[m] < h[n]
    BY DEF Increasing
  <2>2. CASE n \in 1..Len(g)
    <3>1. m \in 1..Len(g)
      BY <2>1, <2>2, <1>3
    <3>2. g[m] < g[n]
      BY <2>1, <2>2, <3>1, <1>3 DEF Increasing
    <3>3. QED
      BY <2>2, <3>1, <3>2, <1>3
  <2>3. CASE n \notin 1..Len(g)
    <3>1. PICK k \in 1..Len(s) : n = Len(g) + k
      BY <1>4, <2>3
    <3>2. h[n] = s[k] /\ h[n] \in P /\ h[n] \in Items
      BY <3>1, <1>1, <1>3
    <3>3. CASE m \in 1..Len(g)
      <4>1. h[m] <= b /\ h[m] \in Items /\ b < h[n]
        BY <3>2, <3>3, <1>3
      <4>2. QED
        BY <4>1, <3>2, ListsAssumption DEF Items
    <3>4. CASE m \notin 1..Len(g)
      <4>1. PICK j \in 1..Len(s) : m = Len(g) + j
        BY <1>4, <3>4
      <4>2. j < k
        BY <2>1, <3>1, <4>1, <1>3
      <4>3. s[j] < s[k] /\ h[m] = s[j]
        BY <4>1, <4>2, <1>1, <1>3
      <4>4. QED
        BY <3>2, <4>3
    <3>5. QED
      BY <3>3, <3>4
  <2>4. QED
    BY <2>2, <2>3
<1>7. Range(h) = Range(g) \cup P
  <2>1. \A m \in DOMAIN h : h[m] \in Range(g) \cup P
    BY <1>1, <1>3, <1>4 DEF Range
  <2>2. \A m \in DOMAIN g : m \in DOMAIN h /\ g[m] = h[m]
    BY <1>1, <1>3
  <2>3. \A x \in P : \E m \in DOMAIN h : h[m] = x
    <3>1. SUFFICES ASSUME NEW x \in P
                   PROVE  \E m \in DOMAIN h : h[m] = x
      OBVIOUS
    <3>2. PICK k \in 1..Len(s) : s[k] = x
      BY <1>1
    <3>3. Len(g) + k \in DOMAIN h /\ h[Len(g) + k] = x
      BY <3>2, <1>1, <1>3
    <3>4. QED
      BY <3>3
  <2>4. QED
    BY <2>1, <2>2, <2>3 DEF Range
<1>8. QED
  BY <1>3, <1>5, <1>6, <1>7

(* A connection of those left is the one in hand.                           *)
LEMMA FirstOf ==
  ASSUME NEW S, S \subseteq 1..Conns, S # {}
  PROVE  First(S) \in S
<1>1. S \subseteq Nat
  BY ListsAssumption
<1>2. \E k \in S : \A m \in S : k <= m
  BY <1>1, HasLeast
<1>3. QED
  BY <1>2 DEF First

(* What a page and its cursor are to the list they come from: the page is   *)
(* what lies between the cursor asked with and the one it comes with, and   *)
(* that one, unless it is none, is no further back.                         *)
LEMMA PageAndCursor ==
  ASSUME NEW k \in 1..Conns, there[k] \in SUBSET Items, NEW c \in Cursor,
         NEW n, NEW P \in Pages(k, c, n), NEW e \in EndCursors(P, c)
  PROVE  /\ P \in SUBSET Items /\ P \subseteq there[k] /\ e \in Cursor
         /\ \A x \in P : c.pos < x /\ x <= e.pos
         /\ \A x \in there[k] : c.pos < x /\ x <= e.pos => x \in P
         /\ e # NoCursor => c.pos <= e.pos
<1> USE ListsAssumption
<1>1. /\ P \subseteq AfterCursor(k, c)
      /\ \A x \in P, y \in AfterCursor(k, c) \ P : x < y
  BY DEF Pages
<1>2. /\ P \in SUBSET Items /\ P \subseteq there[k]
      /\ \A x \in P : c.pos < x
  BY <1>1 DEF AfterCursor, Cursor, Items
<1>3. CASE P = {}
  <2>1. e = NoCursor \/ \E t \in 0..1 : e = [c EXCEPT !.tag = t]
    BY <1>3 DEF EndCursors
  <2>2. e \in Cursor /\ (e = NoCursor \/ e.pos = c.pos)
    BY <2>1 DEF Cursor, NoCursor
  <2>3. e = NoCursor => e.pos = 0
    BY DEF NoCursor
  <2>4. c.pos \in Nat /\ e.pos \in Nat
    BY <2>2 DEF Cursor
  <2>5. \A x \in there[k] : x \in Nat /\ ~(c.pos < x /\ x <= e.pos)
    BY <2>2, <2>3, <2>4 DEF Items
  <2>6. QED
    BY <1>2, <1>3, <2>2, <2>4, <2>5
<1>4. CASE P # {}
  <2>1. P \subseteq 0..MaxItem
    BY <1>2 DEF Items
  <2>2. \E x \in P : \A y \in P : y <= x
    BY <1>4, <2>1, HasGreatest
  <2>3. e.pos \in P /\ (\A y \in P : y <= e.pos) /\ e \in Cursor
    BY <1>2, <1>4, <2>2 DEF EndCursors, Cursor, Items
  <2>4. ASSUME NEW x \in there[k], c.pos < x, x <= e.pos PROVE x \in P
    <3>1. SUFFICES ASSUME x \notin P PROVE FALSE
      OBVIOUS
    <3>2. x \in AfterCursor(k, c) \ P
      BY <2>4, <3>1 DEF AfterCursor
    <3>3. e.pos < x /\ e.pos \in Nat /\ x \in Nat
      BY <1>1, <2>3, <3>2 DEF Cursor, Items
    <3>4. QED
      BY <2>4, <3>3
  <2>5. c.pos <= e.pos
    BY <1>2, <2>3 DEF Cursor
  <2>6. QED
    BY <1>2, <2>3, <2>4, <2>5
<1>5. QED
  BY <1>3, <1>4
-----------------------------------------------------------------------------
(* Types                                                                    *)

LEMMA ReturnTypes == TypeOK /\ Return /\ UNCHANGED linear => TypeOK'
<1> SUFFICES ASSUME TypeOK, Return, UNCHANGED linear PROVE TypeOK'
  OBVIOUS
<1>1. NoCursor \in Cursor
  BY ListsAssumption DEF NoCursor, Cursor
<1>2. <<>> \in Seq(Items)
  OBVIOUS
<1>3. 0 \in 0..MaxPages /\ 0 \in 0..(MaxAttempts - 1)
  BY ListsAssumption, RetryAssumption
<1>4. QED
  BY <1>1, <1>2, <1>3 DEF TypeOK, Return, linear

(* What Proceed leaves is typed when the connections left and their starts  *)
(* are.                                                                     *)
LEMMA ProceedTypes ==
  ASSUME NEW left, left \subseteq 1..Conns,
         NEW starts \in [1..Conns -> Cursor], Proceed(left, starts)
  PROVE  /\ todo' \subseteq 1..Conns /\ ends' \in [1..Conns -> Cursor]
         /\ pc' \in {"ok", "drain"} /\ pages' \in 0..MaxPages
         /\ cursor' \in Cursor
<1>1. NoCursor \in Cursor
  BY ListsAssumption DEF NoCursor, Cursor
<1>2. left # {} => First(left) \in 1..Conns
  BY FirstOf
<1>3. QED
  BY <1>1, <1>2, ListsAssumption DEF Proceed

(* The wait before the next attempt covers what the server asked for.       *)
LEMMA DelayProps ==
  ASSUME NEW n \in Nat \ {0}, NEW after \in RetryAfters
  PROVE  Delay(n, after) \in Nat /\ Delay(n, after) >= after
<1>1. n - 1 \in Nat
  OBVIOUS
<1>2. 2^(n - 1) \in Nat
  BY <1>1, PowersOfTwo
<1> DEFINE two == 2^(n - 1)  backoff == RetryBackoff * two
<1>3. two \in Nat /\ RetryBackoff \in Nat /\ after \in Nat
  BY <1>2, RetryAssumption
<1> HIDE DEF two
<1>4. backoff \in Nat
  BY <1>3
<1> HIDE DEF backoff
<1>5. Delay(n, after) = IF after > backoff THEN after ELSE backoff
  BY DEF Delay, backoff, two
<1>6. QED
  BY <1>3, <1>4, <1>5

LEMMA FailedTypes ==
  ASSUME NEW after \in RetryAfters, Failed(after), AttemptsLeft,
         attempt \in 0..(MaxAttempts - 1)
  PROVE  /\ attempt' \in 0..(MaxAttempts - 1)
         /\ wait' \in Nat /\ ban' \in Nat /\ ban' <= wait'
<1>1. attempt + 1 \in Nat \ {0} /\ after \in Nat /\ RetryBackoff \in Nat
  BY RetryAssumption
<1>2. Delay(attempt + 1, after) \in Nat /\ Delay(attempt + 1, after) >= after
  BY <1>1, DelayProps
<1>3. PICK jitter \in 0..(RetryBackoff - 1) :
        wait' = Delay(attempt + 1, after) + jitter
  BY DEF Failed
<1>4. wait' \in Nat /\ wait' >= after
  BY <1>1, <1>2, <1>3
<1>5. QED
  BY <1>1, <1>4, RetryAssumption DEF Failed, AttemptsLeft

(* The first pages, and where they leave each connection.                   *)
LEMMA FirstAnsweredTypes == TypeOK /\ FirstAnswered => TypeOK'
<1> SUFFICES ASSUME TypeOK, FirstAnswered PROVE TypeOK'
  OBVIOUS
<1>1. PICK P \in [1..Conns -> SUBSET Items], E \in [1..Conns -> Cursor] :
        /\ got' = [k \in 1..Conns |-> InOrder(P[k])]
        /\ Proceed({k \in 1..Conns : P[k] # there[k]},
                   [k \in 1..Conns |-> Resumed(E[k])])
  BY DEF FirstAnswered
<1>2. got' \in [1..Conns -> Seq(Items)]
  BY <1>1, InOrderSeq
<1> DEFINE left == {k \in 1..Conns : P[k] # there[k]}
           starts == [k \in 1..Conns |-> Resumed(E[k])]
<1>3. left \subseteq 1..Conns /\ starts \in [1..Conns -> Cursor]
  BY DEF Resumed
<1>4. Proceed(left, starts)
  BY <1>1
<1> HIDE DEF left, starts
<1>5. /\ todo' \subseteq 1..Conns /\ ends' \in [1..Conns -> Cursor]
      /\ pc' \in {"ok", "drain"} /\ pages' \in 0..MaxPages
      /\ cursor' \in Cursor
  BY <1>3, <1>4, ProceedTypes
<1>6. QED
  BY <1>2, <1>5, RetryAssumption
     DEF TypeOK, FirstAnswered, Answered, linear, past
-----------------------------------------------------------------------------
(* The inductive invariant                                                  *)

(* The call is draining exactly when a connection is left.                  *)
Busy == pc = "drain" <=> todo # {}

(* Before the first answer there is nothing, and nothing has been read.     *)
AtRest == pc \in {"idle", "first"} =>
  /\ got = [k \in 1..Conns |-> <<>>]
  /\ ends = [k \in 1..Conns |-> NoCursor]
  /\ cursor = NoCursor

(* How far a connection that is left has been read.                         *)
Reached(k) == IF k = Conn THEN cursor.pos ELSE ends[k].pos

(* Each list is in the order of the connection, so no item is in it twice.  *)
InSequence == \A k \in 1..Conns : Increasing(got[k])

(* Of a connection that is left, nothing beyond that point has been taken.  *)
TakenSoFar ==
  \A k \in todo : \A m \in DOMAIN got[k] : got[k][m] <= Reached(k)

(* What has been there since the call began is there.                       *)
SteadyIsThere == \A k \in 1..Conns : steady[k] \subseteq there[k]

(* Up to that point nothing of it is missing, and nothing at all from a     *)
(* connection that is not left, unless a page came without its cursor.      *)
MissingNothing ==
  pc \in {"drain", "ok"} /\ ~adrift =>
    \A k \in 1..Conns : \A x \in steady[k] :
      (k \in todo => x <= Reached(k)) => x \in Range(got[k])

(* The client is not done waiting before the server's time is over.         *)
BanWithinWait == ban <= wait

IInv ==
  /\ TypeOK /\ Busy /\ AtRest /\ InSequence /\ TakenSoFar
  /\ SteadyIsThere /\ MissingNothing /\ BanWithinWait
(* The client's state apart from the connections of Linear.                 *)
LEMMA InitHolds == Init => IInv
<1> SUFFICES ASSUME Init PROVE IInv
  OBVIOUS
<1>1. NoCursor \in Cursor
  BY ListsAssumption DEF NoCursor, Cursor
<1>2. <<>> \in Seq(Items) /\ DOMAIN <<>> = {}
  OBVIOUS
<1>3. 0 \in 0..MaxPages /\ 0 \in 0..(MaxAttempts - 1) /\ 1 \in 1..(MaxItem + 1)
  BY ListsAssumption, RetryAssumption
<1>4. TypeOK
  BY <1>1, <1>2, <1>3 DEF TypeOK, Init
<1>5. InSequence
  BY <1>2 DEF Init, InSequence, Increasing
<1>6. QED
  BY <1>4, <1>5 DEF Init, IInv, Busy, AtRest, TakenSoFar, SteadyIsThere,
                    MissingNothing, BanWithinWait

LEMMA ReturnKeeps == IInv /\ Return /\ UNCHANGED linear => IInv'
<1> SUFFICES ASSUME IInv, Return, UNCHANGED linear PROVE IInv'
  OBVIOUS
<1>1. TypeOK'
  BY ReturnTypes DEF IInv
<1>2. DOMAIN <<>> = {}
  OBVIOUS
<1>3. InSequence'
  BY <1>2 DEF Return, InSequence, Increasing
<1>4. QED
  BY <1>1, <1>3 DEF Return, IInv, Busy, AtRest, TakenSoFar, SteadyIsThere,
                    MissingNothing, BanWithinWait

(* A step that leaves the drain alone.                                      *)
LEMMA SameDrain ==
  ASSUME IInv, UNCHANGED drain
  PROVE  /\ InSequence' /\ TakenSoFar'
         /\ \A k \in 1..Conns : Reached(k)' = Reached(k)
<1> USE DEF drain
<1>1. Conn' = Conn
  BY DEF Conn
<1>2. QED
  BY <1>1 DEF IInv, InSequence, TakenSoFar, Reached

LEMMA AddKeeps == ASSUME IInv, NEW k \in 1..Conns, Add(k) PROVE IInv'
<1> USE ListsAssumption
<1>1. /\ UNCHANGED drain /\ UNCHANGED <<pc, retry, past>>
  BY DEF Add
<1>2. fresh[k] \in Items /\ fresh[k] + 1 \in 1..(MaxItem + 1)
  BY DEF IInv, TypeOK, Add, Items
<1>3. TypeOK'
  BY <1>1, <1>2 DEF IInv, TypeOK, Add, drain, retry, past
<1>4. SteadyIsThere'
  BY <1>1 DEF IInv, TypeOK, SteadyIsThere, Add, past
<1>5. InSequence' /\ TakenSoFar'
  BY <1>1, SameDrain
<1>6. Busy' /\ AtRest' /\ BanWithinWait'
  BY <1>1 DEF IInv, Busy, AtRest, BanWithinWait, drain, retry
<1>7. MissingNothing'
  <2>1. \A m \in 1..Conns : Reached(m)' = Reached(m)
    BY <1>1, SameDrain
  <2>2. QED
    BY <1>1, <2>1 DEF IInv, MissingNothing, drain, past
<1>8. QED
  BY <1>3, <1>4, <1>5, <1>6, <1>7 DEF IInv

LEMMA RemoveKeeps == ASSUME IInv, NEW k \in 1..Conns, Remove(k) PROVE IInv'
<1>1. /\ UNCHANGED drain /\ UNCHANGED <<fresh, pc, retry, adrift>>
  BY DEF Remove
<1>2. PICK x \in there[k] : /\ there' = [there EXCEPT ![k] = @ \ {x}]
                            /\ steady' = [steady EXCEPT ![k] = @ \ {x}]
  BY DEF Remove
<1>3. TypeOK'
  BY <1>1, <1>2 DEF IInv, TypeOK, drain, retry
<1>4. SteadyIsThere'
  BY <1>2 DEF IInv, TypeOK, SteadyIsThere
<1>5. InSequence' /\ TakenSoFar'
  BY <1>1, SameDrain
<1>6. Busy' /\ AtRest' /\ BanWithinWait'
  BY <1>1 DEF IInv, Busy, AtRest, BanWithinWait, drain, retry
<1>7. MissingNothing'
  <2>1. \A m \in 1..Conns : Reached(m)' = Reached(m)
    BY <1>1, SameDrain
  <2>2. \A m \in 1..Conns : steady'[m] \subseteq steady[m]
    BY <1>2 DEF IInv, TypeOK
  <2>3. QED
    BY <1>1, <2>1, <2>2 DEF IInv, MissingNothing, drain
<1>8. QED
  BY <1>3, <1>4, <1>5, <1>6, <1>7 DEF IInv

LEMMA BeginKeeps == IInv /\ Begin => IInv'
<1> SUFFICES ASSUME IInv, Begin PROVE IInv'
  OBVIOUS
<1>1. /\ pc = "idle" /\ UNCHANGED <<linear, ends, got, pages, cursor, retry>>
      /\ steady' = there /\ adrift' = FALSE
      /\ \/ pc' = "first" /\ todo' = {}
         \/ pc' = "drain" /\ todo' = 1..Conns
  BY DEF Begin
<1>2. /\ got = [m \in 1..Conns |-> <<>>]
      /\ ends = [m \in 1..Conns |-> NoCursor] /\ cursor = NoCursor
  BY <1>1 DEF IInv, AtRest
<1>3. DOMAIN <<>> = {}
  OBVIOUS
<1>4. 1..Conns # {}
  BY ListsAssumption
<1>5. TypeOK'
  BY <1>1 DEF IInv, TypeOK, linear, retry
<1>6. Busy' /\ AtRest' /\ InSequence' /\ TakenSoFar' /\ SteadyIsThere'
  <2>1. Busy' /\ AtRest' /\ SteadyIsThere'
    BY <1>1, <1>2, <1>4 DEF Busy, AtRest, SteadyIsThere, linear
  <2>2. InSequence' /\ TakenSoFar'
    BY <1>1, <1>2, <1>3, <1>5 DEF TypeOK, InSequence, Increasing, TakenSoFar
  <2>3. QED
    BY <2>1, <2>2
<1>7. BanWithinWait'
  BY <1>1 DEF IInv, BanWithinWait, retry
<1>8. MissingNothing'
  <2>1. SUFFICES ASSUME pc' = "drain", NEW m \in 1..Conns, NEW x \in steady'[m],
                        x <= Reached(m)'
                 PROVE  FALSE
    BY <1>1 DEF MissingNothing
  <2>2. m \in todo' /\ x \in Items
    BY <1>1, <2>1, <1>5 DEF TypeOK
  <2>3. Reached(m)' = 0
    <3>1. cursor'.pos = 0 /\ ends'[m].pos = 0
      BY <1>1, <1>2 DEF NoCursor
    <3>2. QED
      BY <3>1 DEF Reached
  <2>4. QED
    BY <2>1, <2>2, <2>3, ListsAssumption DEF Items
<1>9. QED
  BY <1>5, <1>6, <1>7, <1>8 DEF IInv
(* The first page of each connection, with where it ends.                   *)
LEMMA FirstAnsweredKeeps == IInv /\ FirstAnswered => IInv'
<1> SUFFICES ASSUME IInv, FirstAnswered PROVE IInv'
  OBVIOUS
<1>1. /\ pc = "first" /\ Answered /\ UNCHANGED <<linear, past>>
      /\ TypeOK /\ SteadyIsThere
  BY DEF FirstAnswered, IInv
<1>2. PICK P \in [1..Conns -> SUBSET Items], E \in [1..Conns -> Cursor] :
        /\ \A k \in 1..Conns : /\ P[k] \in Pages(k, NoCursor, FirstSize)
                               /\ E[k] \in EndCursors(P[k], NoCursor)
        /\ got' = [k \in 1..Conns |-> InOrder(P[k])]
        /\ Proceed({k \in 1..Conns : P[k] # there[k]},
                   [k \in 1..Conns |-> Resumed(E[k])])
  BY DEF FirstAnswered
<1> DEFINE left == {k \in 1..Conns : P[k] # there[k]}
<1>3. /\ todo' = left /\ ends' = E
      /\ pc' = IF left = {} THEN "ok" ELSE "drain"
      /\ cursor' = IF left = {} THEN NoCursor ELSE E[First(left)]
  <2>1. [k \in 1..Conns |-> Resumed(E[k])] = E
    BY DEF Resumed
  <2>2. QED
    BY <1>2, <2>1 DEF Proceed
<1>4. NoCursor \in Cursor /\ NoCursor.pos = 0
  BY ListsAssumption DEF NoCursor, Cursor
<1>5. \A k \in 1..Conns :
        /\ \A x \in P[k] : x <= E[k].pos
        /\ \A x \in there[k] : x <= E[k].pos => x \in P[k]
  <2>1. SUFFICES ASSUME NEW k \in 1..Conns
                 PROVE  /\ \A x \in P[k] : x <= E[k].pos
                        /\ \A x \in there[k] : x <= E[k].pos => x \in P[k]
    OBVIOUS
  <2>2. there[k] \in SUBSET Items
    BY <1>1 DEF TypeOK
  <2>3. /\ \A x \in P[k] : x <= E[k].pos
        /\ \A x \in there[k] :
             NoCursor.pos < x /\ x <= E[k].pos => x \in P[k]
    BY <1>2, <1>4, <2>2, PageAndCursor
  <2>4. \A x \in there[k] : NoCursor.pos < x
    BY <1>4, <2>2, ListsAssumption DEF Items
  <2>5. QED
    BY <2>3, <2>4
<1>6. \A k \in left : Reached(k)' = E[k].pos
  <2>1. left # {} => First(left) \in left
    BY FirstOf
  <2>2. left # {} => Conn' = First(left) /\ cursor' = E[First(left)]
    BY <1>3 DEF Conn
  <2>3. QED
    BY <1>3, <2>1, <2>2 DEF Reached
<1>7. TypeOK'
  BY <1>1, FirstAnsweredTypes
<1>8. \A k \in 1..Conns :
        /\ Increasing(got'[k]) /\ Range(got'[k]) = P[k]
        /\ \A m \in DOMAIN got'[k] : got'[k][m] \in P[k]
  <2>1. SUFFICES ASSUME NEW k \in 1..Conns
                 PROVE  /\ Increasing(got'[k]) /\ Range(got'[k]) = P[k]
                        /\ \A m \in DOMAIN got'[k] : got'[k][m] \in P[k]
    OBVIOUS
  <2>2. PICK s : s = got'[k]
    OBVIOUS
  <2>3. s = InOrder(P[k]) /\ P[k] \in SUBSET Items
    BY <1>2, <2>2
  <2>4. /\ s \in Seq(Items)
        /\ \A m \in 1..Len(s) : s[m] \in P[k]
        /\ \A m, n \in 1..Len(s) : m < n => s[m] < s[n]
        /\ \A x \in P[k] : \E m \in 1..Len(s) : s[m] = x
    BY <2>3, InOrderSeq
  <2>5. DOMAIN s = 1..Len(s)
    BY <2>4
  <2>6. Increasing(s) /\ Range(s) = P[k] /\ \A m \in DOMAIN s : s[m] \in P[k]
    BY <2>4, <2>5 DEF Increasing, Range
  <2>7. QED
    BY <2>2, <2>6
<1>9. Busy' /\ AtRest'
  BY <1>3 DEF Busy, AtRest
<1>10. InSequence'
  BY <1>8 DEF InSequence
<1>11. TakenSoFar'
  BY <1>3, <1>5, <1>6, <1>8 DEF TakenSoFar
<1>12. SteadyIsThere'
  BY <1>1 DEF SteadyIsThere, linear, past
<1>13. MissingNothing'
  <2>1. SUFFICES ASSUME NEW k \in 1..Conns, NEW x \in steady'[k],
                        k \in todo' => x <= Reached(k)'
                 PROVE  x \in Range(got'[k])
    BY DEF MissingNothing
  <2>2. x \in there[k]
    BY <1>1, <2>1 DEF SteadyIsThere, past
  <2>3. CASE k \in left
    BY <1>3, <1>5, <1>6, <1>8, <2>1, <2>2, <2>3
  <2>4. CASE k \notin left
    BY <1>8, <2>2, <2>4
  <2>5. QED
    BY <2>3, <2>4
<1>14. BanWithinWait'
  BY <1>1 DEF Answered, BanWithinWait
<1>15. QED
  BY <1>7, <1>9, <1>10, <1>11, <1>12, <1>13, <1>14 DEF IInv

(* The steps that end the call or leave what it has alone.                  *)
LEMMA RetryKeeps ==
  ASSUME IInv, UNCHANGED <<linear, pc, drain, past>>,
         attempt' \in 0..(MaxAttempts - 1), wait' \in Nat, ban' \in Nat,
         ban' <= wait'
  PROVE  IInv'
<1>1. InSequence' /\ TakenSoFar' /\ \A k \in 1..Conns : Reached(k)' = Reached(k)
  BY SameDrain
<1>2. TypeOK' /\ Busy' /\ AtRest' /\ SteadyIsThere' /\ BanWithinWait'
  BY DEF IInv, TypeOK, Busy, AtRest, SteadyIsThere, BanWithinWait,
         linear, drain, past
<1>3. MissingNothing'
  BY <1>1 DEF IInv, MissingNothing, drain, past
<1>4. QED
  BY <1>1, <1>2, <1>3 DEF IInv

LEMMA TickKeeps == IInv /\ Tick => IInv'
<1> SUFFICES ASSUME IInv, Tick PROVE IInv'
  OBVIOUS
<1>1. attempt' \in 0..(MaxAttempts - 1) /\ UNCHANGED <<linear, pc, drain, past>>
  BY DEF IInv, TypeOK, Tick
<1>2. wait' \in Nat /\ ban' \in Nat /\ ban' <= wait'
  BY DEF IInv, TypeOK, BanWithinWait, Tick
<1>3. QED
  BY <1>1, <1>2, RetryKeeps

LEMMA FailsKeeps ==
  IInv /\ (FailsRetryably \/ FailsForGood \/ Cancelled \/ Taken \/ PagesExceeded)
    => IInv'
<1>1. ASSUME IInv, FailsRetryably PROVE IInv'
  <2>1. PICK after \in RetryAfters :
          IF AttemptsLeft THEN Failed(after) /\ UNCHANGED <<pc, drain, past>>
                          ELSE Return
    BY <1>1 DEF FailsRetryably
  <2>2. UNCHANGED linear
    BY <1>1 DEF FailsRetryably
  <2>3. CASE AttemptsLeft
    <3>1. /\ attempt' \in 0..(MaxAttempts - 1)
          /\ wait' \in Nat /\ ban' \in Nat /\ ban' <= wait'
      BY <1>1, <2>1, <2>3, FailedTypes DEF IInv, TypeOK
    <3>2. QED
      BY <1>1, <2>1, <2>2, <2>3, <3>1, RetryKeeps
  <2>4. CASE ~AttemptsLeft
    BY <1>1, <2>1, <2>2, <2>4, ReturnKeeps
  <2>5. QED
    BY <2>3, <2>4
<1>2. ASSUME IInv, FailsForGood \/ Cancelled \/ Taken \/ PagesExceeded
      PROVE  IInv'
  BY <1>2, ReturnKeeps DEF FailsForGood, Cancelled, Taken, PagesExceeded
<1>3. QED
  BY <1>1, <1>2
(* A page that is taken: what the list of the connection in hand becomes.   *)
LEMMA PageTaken ==
  ASSUME IInv, pc = "drain", NEW P \in Pages(Conn, cursor, PageSize),
         NEW e \in EndCursors(P, cursor),
         got' = [got EXCEPT ![Conn] = @ \o InOrder(P)]
  PROVE  /\ Conn \in todo /\ Conn \in 1..Conns
         /\ e \in Cursor /\ (e # NoCursor => cursor.pos <= e.pos)
         /\ got' \in [1..Conns -> Seq(Items)]
         /\ \A k \in 1..Conns : Increasing(got'[k])
         /\ \A k \in 1..Conns \ {Conn} : got'[k] = got[k]
         /\ Range(got'[Conn]) = Range(got[Conn]) \cup P
         /\ e # NoCursor =>
              \A m \in DOMAIN got'[Conn] : got'[Conn][m] <= e.pos
         /\ \A x \in there[Conn] : cursor.pos < x /\ x <= e.pos => x \in P
<1>1. Conn \in todo /\ Conn \in 1..Conns
  BY FirstOf DEF IInv, Busy, TypeOK, Conn
<1>2. cursor \in Cursor /\ cursor.pos \in Nat /\ there[Conn] \in SUBSET Items
  BY <1>1 DEF IInv, TypeOK, Cursor
<1>3. /\ P \in SUBSET Items /\ P \subseteq there[Conn] /\ e \in Cursor
      /\ \A x \in P : cursor.pos < x /\ x <= e.pos
      /\ \A x \in there[Conn] : cursor.pos < x /\ x <= e.pos => x \in P
      /\ e # NoCursor => cursor.pos <= e.pos
  BY <1>1, <1>2, PageAndCursor
<1>4. PICK g : g = got[Conn]
  OBVIOUS
<1>5. PICK h : h = got'[Conn]
  OBVIOUS
<1>6. /\ g \in Seq(Items) /\ Increasing(g)
      /\ \A m \in DOMAIN g : g[m] <= cursor.pos
  BY <1>1, <1>4 DEF IInv, TypeOK, InSequence, TakenSoFar, Reached
<1>7. h = g \o InOrder(P)
  BY <1>1, <1>4, <1>5 DEF IInv, TypeOK
<1>8. /\ h \in Seq(Items) /\ Increasing(h)
      /\ \A m \in DOMAIN h : h[m] \in P \/ h[m] <= cursor.pos
      /\ Range(h) = Range(g) \cup P
  BY <1>2, <1>3, <1>6, <1>7, PageAppended
<1>9. /\ \A k \in 1..Conns \ {Conn} : got'[k] = got[k]
      /\ got' \in [1..Conns -> Seq(Items)]
  BY <1>1, <1>5, <1>8 DEF IInv, TypeOK
<1>10. e # NoCursor => \A m \in DOMAIN h : h[m] <= e.pos
  <2>1. SUFFICES ASSUME e # NoCursor, NEW m \in DOMAIN h PROVE h[m] <= e.pos
    OBVIOUS
  <2>2. h[m] \in Nat /\ e.pos \in Nat
    BY <1>3, <1>8, ListsAssumption DEF Cursor, Items
  <2>3. QED
    BY <1>2, <1>3, <1>8, <2>1, <2>2
<1>11. \A k \in 1..Conns : Increasing(got'[k])
  BY <1>5, <1>8, <1>9 DEF IInv, InSequence
<1>12. QED
  BY <1>1, <1>3, <1>4, <1>5, <1>8, <1>9, <1>10, <1>11

LEMMA PageAnsweredKeeps == IInv /\ PageAnswered => IInv'
<1> SUFFICES ASSUME IInv, PageAnswered PROVE IInv'
  OBVIOUS
<1>1. pc = "drain" /\ pages < MaxPages /\ UNCHANGED linear
  BY DEF PageAnswered
<1>2. PICK P \in Pages(Conn, cursor, PageSize) : \E f \in EndCursors(P, cursor) :
         LET hasNext == P # AfterCursor(Conn, cursor)
             last == ~hasNext \/ f = NoCursor
         IN \/ /\ last \/ f # cursor
               /\ got' = [got EXCEPT ![Conn] = @ \o InOrder(P)]
               /\ IF last THEN Proceed(todo \ {Conn}, ends)
                  ELSE /\ pages' = pages + 1 /\ cursor' = f
                       /\ UNCHANGED <<pc, todo, ends>>
               /\ Answered
               /\ adrift' = (adrift \/ (hasNext /\ f = NoCursor))
               /\ UNCHANGED steady
            \/ ~last /\ f = cursor /\ Return
  BY DEF PageAnswered
<1> DEFINE hasNext == P # AfterCursor(Conn, cursor)
<1>3. PICK e \in EndCursors(P, cursor) :
         \/ /\ got' = [got EXCEPT ![Conn] = @ \o InOrder(P)]
            /\ IF ~hasNext \/ e = NoCursor
               THEN Proceed(todo \ {Conn}, ends)
               ELSE /\ pages' = pages + 1 /\ cursor' = e
                    /\ UNCHANGED <<pc, todo, ends>>
            /\ Answered
            /\ adrift' = (adrift \/ (hasNext /\ e = NoCursor))
            /\ UNCHANGED steady
         \/ Return
  BY <1>2
<1>4. CASE Return
  BY <1>1, <1>4, ReturnKeeps
<1>5. CASE /\ got' = [got EXCEPT ![Conn] = @ \o InOrder(P)]
           /\ IF ~hasNext \/ e = NoCursor
              THEN Proceed(todo \ {Conn}, ends)
              ELSE /\ pages' = pages + 1 /\ cursor' = e
                   /\ UNCHANGED <<pc, todo, ends>>
           /\ Answered
           /\ adrift' = (adrift \/ (hasNext /\ e = NoCursor))
           /\ UNCHANGED steady
  <2>1. /\ Conn \in todo /\ Conn \in 1..Conns
        /\ e \in Cursor /\ (e # NoCursor => cursor.pos <= e.pos)
        /\ got' \in [1..Conns -> Seq(Items)]
        /\ \A k \in 1..Conns : Increasing(got'[k])
        /\ \A k \in 1..Conns \ {Conn} : got'[k] = got[k]
        /\ Range(got'[Conn]) = Range(got[Conn]) \cup P
        /\ e # NoCursor =>
             \A m \in DOMAIN got'[Conn] : got'[Conn][m] <= e.pos
        /\ \A x \in there[Conn] : cursor.pos < x /\ x <= e.pos => x \in P
    BY <1>1, <1>5, PageTaken
  <2>2. /\ attempt' = 0 /\ wait' = 0 /\ ban' = 0
        /\ steady' = steady /\ there' = there /\ fresh' = fresh
        /\ adrift' = (adrift \/ (hasNext /\ e = NoCursor))
    BY <1>1, <1>5 DEF Answered, linear
  <2>3. 0 \in 0..(MaxAttempts - 1)
    BY RetryAssumption
  <2>4. TypeOK /\ todo \subseteq 1..Conns
    BY DEF IInv, TypeOK
  <2>5. InSequence' /\ SteadyIsThere' /\ BanWithinWait'
    BY <2>1, <2>2 DEF IInv, InSequence, SteadyIsThere, BanWithinWait
  <2>6. \A x \in steady[Conn] : x \in there[Conn] /\ x \in Nat
    BY <2>1, <2>4, ListsAssumption DEF IInv, SteadyIsThere, TypeOK, Items
  <2>7. \A x \in steady[Conn] :
          ~adrift /\ x <= cursor.pos => x \in Range(got[Conn])
    BY <1>1, <2>1 DEF IInv, MissingNothing, Reached
  <2>8. cursor.pos \in Nat /\ e.pos \in Nat
    BY <2>1, <2>4 DEF TypeOK, Cursor
  <2>9. CASE ~hasNext \/ e = NoCursor
    <3>1. Proceed(todo \ {Conn}, ends)
      BY <1>5, <2>9
    <3>2. /\ todo' \subseteq 1..Conns /\ ends' \in [1..Conns -> Cursor]
          /\ pc' \in {"ok", "drain"} /\ pages' \in 0..MaxPages
          /\ cursor' \in Cursor
      BY <2>4, <3>1, ProceedTypes DEF TypeOK
    <3>3. TypeOK'
      BY <2>1, <2>2, <2>3, <2>4, <3>2 DEF TypeOK
    <3>4. PICK c : c = Conn
      OBVIOUS
    <3>5. /\ todo' = todo \ {c} /\ ends' = ends
          /\ pc' = IF todo' = {} THEN "ok" ELSE "drain"
          /\ cursor' = IF todo' = {} THEN NoCursor ELSE ends[First(todo')]
      BY <3>1, <3>4 DEF Proceed
    <3>6. Busy' /\ AtRest'
      BY <3>5 DEF Busy, AtRest
    <3>7. \A k \in todo' : /\ k \in todo /\ k # c /\ k \in 1..Conns
                          /\ Reached(k)' = Reached(k)
      <4>1. todo' # {} => cursor' = ends[Conn'] /\ ends' = ends
        BY <3>5 DEF Conn
      <4>2. QED
        BY <2>4, <3>4, <3>5, <4>1 DEF Reached
    <3>8. TakenSoFar'
      BY <2>1, <3>4, <3>7 DEF IInv, TakenSoFar
    <3>9. MissingNothing'
      <4>1. SUFFICES ASSUME ~adrift', NEW k \in 1..Conns, NEW x \in steady'[k],
                            k \in todo' => x <= Reached(k)'
                     PROVE  x \in Range(got'[k])
        BY DEF MissingNothing
      <4>2. ~adrift /\ ~hasNext
        BY <2>2, <2>9, <4>1
      <4>3. CASE k = c
        <5>1. x \in steady[Conn] /\ x \in there[Conn]
          BY <2>2, <2>6, <3>4, <4>1, <4>3
        <5>2. x > cursor.pos => x \in P
          BY <4>2, <5>1 DEF AfterCursor
        <5>3. QED
          BY <2>1, <2>6, <2>7, <2>8, <3>4, <4>2, <4>3, <5>1, <5>2
      <4>4. CASE k # c
        <5>1. got'[k] = got[k] /\ x \in steady[k]
          BY <2>1, <2>2, <3>4, <4>1, <4>4
        <5>2. k \in todo => x <= Reached(k)
          BY <3>5, <3>7, <4>1, <4>4
        <5>3. QED
          BY <1>1, <4>2, <5>1, <5>2 DEF IInv, MissingNothing
      <4>5. QED
        BY <4>3, <4>4
    <3>10. QED
      BY <2>5, <3>3, <3>6, <3>8, <3>9 DEF IInv
  <2>10. CASE ~(~hasNext \/ e = NoCursor)
    <3>1. /\ pages' = pages + 1 /\ cursor' = e
          /\ pc' = pc /\ todo' = todo /\ ends' = ends
      BY <1>5, <2>10
    <3>2. pages' \in 0..MaxPages
      BY <1>1, <2>4, <3>1, ListsAssumption DEF TypeOK
    <3>3. TypeOK'
      BY <2>1, <2>2, <2>3, <2>4, <3>1, <3>2 DEF TypeOK
    <3>4. Busy' /\ AtRest'
      BY <1>1, <3>1 DEF IInv, Busy, AtRest
    <3>5. PICK c : c = Conn
      OBVIOUS
    <3>6. /\ Conn' = c /\ Reached(c)' = e.pos
          /\ \A k \in 1..Conns \ {c} : Reached(k)' = Reached(k)
      BY <3>1, <3>5 DEF Conn, Reached
    <3>7. TakenSoFar'
      <4>1. SUFFICES ASSUME NEW k \in todo', NEW m \in DOMAIN got'[k]
                     PROVE  got'[k][m] <= Reached(k)'
        BY DEF TakenSoFar
      <4>2. CASE k = c
        BY <2>1, <2>10, <3>5, <3>6, <4>1, <4>2
      <4>3. CASE k # c
        BY <2>1, <2>4, <3>1, <3>5, <3>6, <4>1, <4>3 DEF IInv, TakenSoFar
      <4>4. QED
        BY <4>2, <4>3
    <3>8. MissingNothing'
      <4>1. SUFFICES ASSUME ~adrift', NEW k \in 1..Conns, NEW x \in steady'[k],
                            k \in todo' => x <= Reached(k)'
                     PROVE  x \in Range(got'[k])
        BY DEF MissingNothing
      <4>2. ~adrift
        BY <2>2, <4>1
      <4>3. CASE k = c
        <5>1. x \in steady[Conn] /\ x \in there[Conn] /\ x <= e.pos
          BY <2>1, <2>2, <2>6, <3>1, <3>5, <3>6, <4>1, <4>3
        <5>2. QED
          BY <2>1, <2>6, <2>7, <2>8, <3>5, <4>2, <4>3, <5>1
      <4>4. CASE k # c
        <5>1. /\ got'[k] = got[k] /\ x \in steady[k]
              /\ k \in todo => x <= Reached(k)
          BY <2>1, <2>2, <3>1, <3>5, <3>6, <4>1, <4>4
        <5>2. QED
          BY <1>1, <4>2, <5>1 DEF IInv, MissingNothing
      <4>5. QED
        BY <4>3, <4>4
    <3>9. QED
      BY <2>5, <3>3, <3>4, <3>7, <3>8 DEF IInv
  <2>11. QED
    BY <2>9, <2>10
<1>6. QED
  BY <1>3, <1>4, <1>5
-----------------------------------------------------------------------------
(* The theorems                                                             *)

LEMMA Inductive == IInv /\ [Next]_vars => IInv'
<1> SUFFICES ASSUME IInv, [Next]_vars PROVE IInv'
  OBVIOUS
<1>1. CASE UNCHANGED vars
  <2>1. /\ UNCHANGED <<linear, pc, drain, past>>
        /\ UNCHANGED <<attempt, wait, ban>>
    BY <1>1 DEF vars, retry
  <2>2. QED
    BY <2>1, RetryKeeps DEF IInv, TypeOK, BanWithinWait
<1>2. ASSUME NEW k \in 1..Conns, Add(k) \/ Remove(k) PROVE IInv'
  BY <1>2, AddKeeps, RemoveKeeps
<1>3. CASE Begin
  BY <1>3, BeginKeeps
<1>4. CASE CallStep
  BY <1>4, FirstAnsweredKeeps, PageAnsweredKeeps, FailsKeeps, TickKeeps
     DEF CallStep
<1>5. QED
  BY <1>1, <1>2, <1>3, <1>4 DEF Next

LEMMA Invariant == Spec => []IInv
  BY InitHolds, Inductive, PTL DEF Spec

(* The state of a call stays within its types: the pages it counts within   *)
(* maxPaginationPages, the attempts within MaxAttempts, and the delay a     *)
(* number however the backoff doubles.                                      *)
THEOREM TypeCorrect == Spec => []TypeOK
<1>1. IInv => TypeOK
  BY DEF IInv
<1>2. QED
  BY <1>1, Invariant, PTL

(* Drained page by page beside whoever edits the lists, with requests that  *)
(* fail and are sent again, a call that succeeds has all that was there     *)
(* throughout, as long as every page but the last came with its cursor.     *)
THEOREM DrainIsComplete == Spec => []DrainComplete
<1>1. IInv => DrainComplete
  BY DEF IInv, Busy, MissingNothing, DrainComplete
<1>2. QED
  BY <1>1, Invariant, PTL

(* paginate and the nested drains collect no item twice: the cursor only    *)
(* moves on, and a page holds only what is beyond it.                       *)
THEOREM DrainHasNoDuplicates == Spec => []NoDuplicates
<1>1. ASSUME IInv PROVE NoDuplicates
  <2>1. SUFFICES ASSUME NEW k \in 1..Conns,
                        NEW m \in DOMAIN got[k], NEW n \in DOMAIN got[k],
                        got[k][m] = got[k][n]
                 PROVE  m = n
    BY DEF NoDuplicates, IsInjective
  <2>2. PICK g : g = got[k]
    OBVIOUS
  <2>3. g \in Seq(Items) /\ Increasing(g)
    BY <1>1, <2>2 DEF IInv, TypeOK, InSequence
  <2>4. m \in Nat /\ n \in Nat /\ g[m] \in Nat
    BY <2>1, <2>2, <2>3, ListsAssumption DEF Items
  <2>5. ~(m < n) /\ ~(n < m)
    BY <2>1, <2>2, <2>3, <2>4 DEF Increasing
  <2>6. QED
    BY <2>4, <2>5
<1>2. QED
  BY <1>1, Invariant, PTL

(* do never sends a request while the Retry-After of the last answer runs.  *)
THEOREM RateLimitIsHonoured == Spec => []RateLimitHonoured
<1>1. IInv => RateLimitHonoured
  BY DEF IInv, TypeOK, BanWithinWait, Sending, RateLimitHonoured
<1>2. QED
  BY <1>1, Invariant, PTL
=============================================================================
