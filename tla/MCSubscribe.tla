---------------------------- MODULE MCSubscribe ----------------------------
(* Instances of Subscribe for TLC.  Nothing tells two issues or two paths   *)
(* apart but what happens to them.                                          *)
EXTENDS Subscribe, TLC

CONSTANTS i1, i2, q1, q2

Symmetry == Permutations({i1, i2}) \cup Permutations({q1, q2})
=============================================================================
