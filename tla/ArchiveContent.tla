--------------------------- MODULE ArchiveContent ---------------------------
(***************************************************************************)
(* What the archive promises to whoever ingests into it: it maps each      *)
(* issue to the content it was last given, a batch is taken whole or not   *)
(* at all, and what a batch does not mention stays as it was.              *)
(***************************************************************************)
EXTENDS Naturals, Sequences

CONSTANTS
  IssueIds,
  Batches,   \* sequences of issues, each an id and its content
  Absent     \* the content of an issue the archive does not have

VARIABLES
  content,   \* what the archive holds of each issue
  busy,      \* whether a batch is being ingested
  batch      \* that batch

vars == <<content, busy, batch>>

Init == content = [i \in IssueIds |-> Absent] /\ busy = FALSE /\ batch = <<>>

Submit ==
  /\ ~busy /\ busy' = TRUE
  /\ batch' \in Batches
  /\ UNCHANGED content

(* The place of the last mention of i among the first n issues of b, 0 when *)
(* there is none.                                                           *)
LastOf(b, n, i) ==
  CHOOSE k \in 0..n :
    /\ k > 0 => b[k].id = i
    /\ \A m \in 1..n : m > k => b[m].id # i

(* The contents c once the first n issues of b are in.                      *)
Applied(c, b, n) ==
  [i \in IssueIds |-> LET k == LastOf(b, n, i)
                      IN IF k = 0 THEN c[i] ELSE b[k].content]

Take ==
  /\ busy /\ busy' = FALSE
  /\ content' = Applied(content, batch, Len(batch))
  /\ batch' = <<>>

Drop == busy /\ busy' = FALSE /\ batch' = <<>> /\ UNCHANGED content

Next == Submit \/ Take \/ Drop

Spec == Init /\ [][Next]_vars
=============================================================================
