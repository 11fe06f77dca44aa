---------------------------- MODULE LinearClient ----------------------------
(***************************************************************************)
(* A call of the Linear client (internal/linear/client.go): every request  *)
(* goes through do, which retries it; paginate, fetchAllIssueLabels and    *)
(* fetchAllIssueComments drain a connection page by page; FetchEntities    *)
(* drains the five entity connections, FetchIssuesUpdatedSince and         *)
(* FetchIssueByIdentifier first ask for issues with the first page of      *)
(* their labels and comments and then drain what remains of each.          *)
(*                                                                         *)
(* Linear is external: a connection is a list to which items are added at  *)
(* the end and from which they are removed, at any time.  An item is its   *)
(* position, a cursor the position of the last item of a page; the         *)
(* position 0 of the cursor NoCursor stands for the empty string.          *)
(***************************************************************************)
EXTENDS Naturals, Sequences, FiniteSets, Functions

CONSTANTS
  Conns,         \* connections are 1..Conns, drained in this order
  MaxItem,       \* bound on the items a connection ever has
  FirstSize,     \* items of a connection that come with the issues
  PageSize,      \* items of a page of paginate and of the nested drains
  EmptyPages,    \* whether Linear may send empty pages that are not the last
  MaxPages,      \* maxPaginationPages
  MaxAttempts,   \* Client.MaxAttempts
  RetryBackoff,  \* Client.RetryBackoff, in ticks
  RetryAfters    \* the values of Retry-After in use, in ticks; 0 is none

ASSUME ListsAssumption ==
  /\ Conns \in Nat \ {0} /\ MaxItem \in Nat
  /\ FirstSize \in Nat \ {0} /\ PageSize \in Nat \ {0}
  /\ EmptyPages \in BOOLEAN
  /\ MaxPages \in Nat \ {0}
ASSUME RetryAssumption ==
  /\ MaxAttempts \in Nat \ {0} /\ RetryBackoff \in Nat \ {0}
  /\ RetryAfters \subseteq Nat /\ 0 \in RetryAfters

VARIABLES
  there,    \* the items of each connection
  fresh,    \* the position the next item of each gets
  pc,       \* "idle", "first", "drain", "ok"
  todo,     \* the connections of the call still to be drained
  ends,     \* where the drain of each starts
  got,      \* the items of each the call has collected
  pages,    \* pages of the connection in hand so far
  cursor,   \* and where it is
  attempt,  \* failed attempts of the request in hand
  wait,     \* ticks until it is sent again
  ban,      \* history: ticks for which the server asked not to be asked
  steady,   \* history: the items that have been there since the call began
  adrift    \* history: a page that was not the last came without a cursor

linear == <<there, fresh>>
drain  == <<todo, ends, got, pages, cursor>>
retry  == <<attempt, wait, ban>>
past   == <<steady, adrift>>
vars   == <<linear, pc, drain, retry, past>>

Items    == 1..MaxItem
Cursor   == [pos : 0..MaxItem, tag : 0..1]
NoCursor == [pos |-> 0, tag |-> 0]

TypeOK ==
  /\ there \in [1..Conns -> SUBSET Items]
  /\ fresh \in [1..Conns -> 1..(MaxItem + 1)]
  /\ pc \in {"idle", "first", "drain", "ok"}
  /\ todo \subseteq 1..Conns
  /\ ends \in [1..Conns -> Cursor]
  /\ got \in [1..Conns -> Seq(Items)]
  /\ pages \in 0..MaxPages /\ cursor \in Cursor
  /\ attempt \in 0..(MaxAttempts - 1)
  /\ wait \in Nat /\ ban \in Nat
  /\ steady \in [1..Conns -> SUBSET Items] /\ adrift \in BOOLEAN

-----------------------------------------------------------------------------
(* Linear                                                                   *)

Add(k) ==
  /\ fresh[k] <= MaxItem
  /\ there' = [there EXCEPT ![k] = @ \cup {fresh[k]}]
  /\ fresh' = [fresh EXCEPT ![k] = @ + 1]
  /\ UNCHANGED <<pc, drain, retry, past>>

Remove(k) ==
  /\ \E x \in there[k] :
       /\ there' = [there EXCEPT ![k] = @ \ {x}]
       /\ steady' = [steady EXCEPT ![k] = @ \ {x}]
  /\ UNCHANGED <<fresh, pc, drain, retry, adrift>>

(* The items of connection k after the cursor c.                            *)
AfterCursor(k, c) == {x \in there[k] : x > c.pos}

(* The pages of at most n items with which Linear may answer.               *)
Pages(k, c, n) ==
  LET rest == AfterCursor(k, c)
  IN {P \in SUBSET rest :
        /\ \A x \in P, y \in rest \ P : x < y
        /\ Cardinality(P) <= n
        /\ P = {} => EmptyPages \/ rest = {}}

(* The cursor that comes with the page P after c.  Assumed of Linear: a     *)
(* page with items has the cursor of its last item.  An empty page moves    *)
(* nowhere, and its cursor may be none, another one, or the one it was      *)
(* asked with.                                                              *)
EndCursors(P, c) ==
  IF P = {}
    THEN {NoCursor} \cup {[c EXCEPT !.tag = t] : t \in 0..1}
    ELSE {[pos |-> CHOOSE x \in P : \A y \in P : y <= x, tag |-> 0]}

(* A set of positions as the list it stands for.                            *)
InOrder(P) ==
  CHOOSE s \in [1..Cardinality(P) -> P] :
    \A m, n \in DOMAIN s : m < n => s[m] < s[n]

-----------------------------------------------------------------------------
Init ==
  /\ there = [k \in 1..Conns |-> {}] /\ fresh = [k \in 1..Conns |-> 1]
  /\ pc = "idle"
  /\ todo = {} /\ ends = [k \in 1..Conns |-> NoCursor]
  /\ got = [k \in 1..Conns |-> <<>>]
  /\ pages = 0 /\ cursor = NoCursor
  /\ attempt = 0 /\ wait = 0 /\ ban = 0
  /\ steady = [k \in 1..Conns |-> {}] /\ adrift = FALSE

(* The call begins: FetchEntities with the first connection, the others     *)
(* with a request for issues.                                               *)
Begin ==
  /\ pc = "idle" /\ steady' = there /\ adrift' = FALSE
  /\ \/ pc' = "first" /\ todo' = {}
     \/ pc' = "drain" /\ todo' = 1..Conns
  /\ UNCHANGED <<linear, ends, got, pages, cursor, retry>>

(* The call returns an error, or its result has been taken.                 *)
Return ==
  /\ pc' = "idle"
  /\ todo' = {} /\ ends' = [k \in 1..Conns |-> NoCursor]
  /\ got' = [k \in 1..Conns |-> <<>>]
  /\ pages' = 0 /\ cursor' = NoCursor
  /\ attempt' = 0 /\ wait' = 0 /\ ban' = 0
  /\ steady' = [k \in 1..Conns |-> {}] /\ adrift' = FALSE

Answered == attempt' = 0 /\ wait' = 0 /\ ban' = 0

First(S) == CHOOSE k \in S : \A m \in S : k <= m
Conn == First(todo)

(* Where the connections left to drain, each from its start, leave the call.*)
Proceed(left, starts) ==
  /\ todo' = left /\ ends' = starts
  /\ pc' = IF left = {} THEN "ok" ELSE "drain"
  /\ pages' = 0
  /\ cursor' = IF left = {} THEN NoCursor ELSE starts[First(left)]

(* A slip: draining a connection from its start again.                      *)
Resumed_FromStart(e) == NoCursor

(* The nested drain goes on where the first page ended.                     *)
Resumed(e) == e

(* The issues arrive, each connection with its first page.                  *)
FirstAnswered ==
  /\ pc = "first" /\ wait = 0
  /\ \E P \in [1..Conns -> SUBSET Items], E \in [1..Conns -> Cursor] :
       /\ \A k \in 1..Conns : /\ P[k] \in Pages(k, NoCursor, FirstSize)
                              /\ E[k] \in EndCursors(P[k], NoCursor)
       /\ got' = [k \in 1..Conns |-> InOrder(P[k])]
       /\ Proceed({k \in 1..Conns : P[k] # there[k]},
                  [k \in 1..Conns |-> Resumed(E[k])])
  /\ Answered
  /\ UNCHANGED <<linear, past>>

(* A page of the connection in hand.  hasNextPage false or an empty cursor  *)
(* end its drain, a cursor that does not move is an error.                  *)
PageAnswered ==
  /\ pc = "drain" /\ wait = 0 /\ pages < MaxPages
  /\ \E P \in Pages(Conn, cursor, PageSize) :
       \E e \in EndCursors(P, cursor) :
         LET hasNext == P # AfterCursor(Conn, cursor)
             last == ~hasNext \/ e = NoCursor
         IN \/ /\ last \/ e # cursor
               /\ got' = [got EXCEPT ![Conn] = @ \o InOrder(P)]
               /\ IF last THEN Proceed(todo \ {Conn}, ends)
                  ELSE /\ pages' = pages + 1 /\ cursor' = e
                       /\ UNCHANGED <<pc, todo, ends>>
               /\ Answered
               /\ adrift' = (adrift \/ (hasNext /\ e = NoCursor))
               /\ UNCHANGED steady
            \/ ~last /\ e = cursor /\ Return
  /\ UNCHANGED linear

(* The drain has used up its pages: an error.  A slip: taking what there is *)
(* for the whole, as the tail loop does.                                    *)
PagesExceeded_Taken ==
  /\ pc = "drain" /\ pages = MaxPages
  /\ Proceed(todo \ {Conn}, ends)
  /\ UNCHANGED <<linear, got, retry, past>>

PagesExceeded ==
  /\ pc = "drain" /\ pages = MaxPages
  /\ Return
  /\ UNCHANGED linear

(* The delay before attempt n + 1, jitter aside.  A slip: the backoff even  *)
(* when the server asked for more.                                          *)
Delay_Backoff(n, after) == RetryBackoff * 2^(n - 1)

Delay(n, after) ==
  LET backoff == RetryBackoff * 2^(n - 1)
  IN IF after > backoff THEN after ELSE backoff

Sending ==
  wait = 0 /\ (pc = "first" \/ (pc = "drain" /\ pages < MaxPages))

(* A slip: one attempt too many.                                            *)
AttemptsLeft_OneMore == attempt < MaxAttempts

AttemptsLeft == attempt + 1 < MaxAttempts

(* A slip: not counting rate-limited attempts.                              *)
Failed_Uncounted(after) ==
  /\ attempt' = IF after > 0 THEN attempt ELSE attempt + 1
  /\ \E jitter \in 0..(RetryBackoff - 1) :
       wait' = Delay(attempt + 1, after) + jitter
  /\ ban' = after

Failed(after) ==
  /\ attempt' = attempt + 1
  /\ \E jitter \in 0..(RetryBackoff - 1) :
       wait' = Delay(attempt + 1, after) + jitter
  /\ ban' = after

(* 429, 5xx, or no connection at all: again, until the attempts run out.    *)
FailsRetryably ==
  /\ Sending
  /\ \E after \in RetryAfters :
       IF AttemptsLeft
         THEN Failed(after) /\ UNCHANGED <<pc, drain, past>>
         ELSE Return
  /\ UNCHANGED linear

(* Any other status, errors in the envelope, a body that cannot be read.    *)
FailsForGood ==
  /\ Sending
  /\ Return
  /\ UNCHANGED linear

(* The context is cancelled while the client sleeps.                        *)
Cancelled ==
  /\ wait > 0
  /\ Return
  /\ UNCHANGED linear

Tick ==
  /\ wait > 0 /\ wait' = wait - 1
  /\ ban' = IF ban = 0 THEN 0 ELSE ban - 1
  /\ UNCHANGED <<linear, pc, drain, attempt, past>>

Taken == pc = "ok" /\ Return /\ UNCHANGED linear

CallStep ==
  \/ FirstAnswered \/ PageAnswered \/ PagesExceeded
  \/ FailsRetryably \/ FailsForGood \/ Cancelled \/ Tick \/ Taken

Next ==
  \/ \E k \in 1..Conns : Add(k) \/ Remove(k)
  \/ Begin
  \/ CallStep

Spec == Init /\ [][Next]_vars

(* A call goes on until it returns: the HTTP client's timeout ends every    *)
(* request, and timers fire.                                                *)
FairSpec == Spec /\ WF_vars(CallStep)

-----------------------------------------------------------------------------
(* A call that succeeds has every item that was there all along, whatever   *)
(* was added, removed, retried or split into pages meanwhile.  The drains   *)
(* take a page without a cursor for the last one, so it rests on Linear     *)
(* sending a cursor with every other page.                                  *)
DrainComplete ==
  pc = "ok" /\ ~adrift => \A k \in 1..Conns : steady[k] \subseteq Range(got[k])

(* No item comes twice, so the labels of an issue insert without a conflict *)
(* on (issue_id, label_id).  It too rests on the cursor of a page with      *)
(* items: from a first page without one the drain would start all over.     *)
NoDuplicates == \A k \in 1..Conns : IsInjective(got[k])

(* Within one call, the server is not asked again before the time it named  *)
(* has passed.  The next call starts afresh, as the client keeps nothing.   *)
RateLimitHonoured == Sending => ban = 0

(* Every call returns, whatever the server answers.                         *)
CallReturns == pc # "idle" ~> pc = "idle"
=============================================================================
