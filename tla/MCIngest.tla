------------------------------ MODULE MCIngest ------------------------------
(* Instances of Ingest for TLC: two issues, one comment each may carry.     *)
EXTENDS Ingest

CONSTANTS i1, i2, c1, c2, r1

(* A comment is created under one issue and stays there.                    *)
CommentsStay == [i \in {i1, i2} |-> IF i = i1 THEN {c1} ELSE {c2}]
(* The one entity wrote c1; Linear does not say who wrote c2.               *)
OneWrote == [c \in {c1, c2} |-> IF c = c1 THEN {r1} ELSE {}]
=============================================================================
