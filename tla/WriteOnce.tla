------------------------------ MODULE WriteOnce ------------------------------
(***************************************************************************)
(* What `publish --out` promises of an artifact's path: nobody has it, or  *)
(* a draft is there that may yet be withdrawn, or an artifact is there for *)
(* good, and it holds a state the published archive was in.                *)
(***************************************************************************)
CONSTANTS Paths, Contents, Free, Draft

VARIABLES
  slot,   \* what is at each path: Free, Draft, or the artifact's content
  past    \* the states the archive was in so far

vars == <<slot, past>>

Init == slot = [q \in Paths |-> Free] /\ past \in SUBSET Contents

Grow ==
  /\ past' \in SUBSET Contents /\ past \subseteq past'
  /\ UNCHANGED slot

Claim(q) ==
  /\ slot[q] = Free /\ slot' = [slot EXCEPT ![q] = Draft]
  /\ UNCHANGED past

Keep(q) ==
  /\ slot[q] = Draft
  /\ \E c \in past : slot' = [slot EXCEPT ![q] = c]
  /\ UNCHANGED past

(* A failure withdraws one draft, a loss of power any number of them.       *)
Withdraw(Q) ==
  /\ \A q \in Q : slot[q] = Draft
  /\ slot' = [q \in Paths |-> IF q \in Q THEN Free ELSE slot[q]]
  /\ UNCHANGED past

Next ==
  \/ Grow
  \/ \E q \in Paths : Claim(q) \/ Keep(q)
  \/ \E Q \in SUBSET Paths : Withdraw(Q)

Spec == Init /\ [][Next]_vars
=============================================================================
