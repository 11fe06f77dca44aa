---------------------------- MODULE MCStoreReads ----------------------------
(* Instances of StoreReads for TLC: two issues, of which one may carry a    *)
(* comment; a team, which Show joins, a person, whom it does not and who    *)
(* wrote the comment, and a label.                                          *)
EXTENDS StoreReads

CONSTANTS i1, i2, c1, t1, u1, l1

OneCommented == [i \in {i1, i2} |-> IF i = i1 THEN {c1} ELSE {}]

OneWrote == [c \in {c1} |-> {u1}]

ThreeTables == <<{t1}, {u1}, {l1}>>

(* The first issue may change its identifier, its team, its label and its   *)
(* comment; the second, which wants one of the same identifiers, its label. *)
SomeIngests ==
  {x \in IssueInputs :
     IF x.id = i1 THEN x.content.refs \in {{}, {t1, u1}, {t1, l1}}
                  ELSE x.content.refs \subseteq {l1} /\ x.content.ident = "ENG-2"}

(* A sparse pull lists nothing; a full one names the team and the label.     *)
SomeListed ==
  {[r \in {t1, u1, l1} |-> IF r \in named THEN n ELSE Absent] :
     named \in {{}, {t1, l1}}, n \in Names}
=============================================================================
