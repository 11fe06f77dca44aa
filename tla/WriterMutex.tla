----------------------------- MODULE WriterMutex -----------------------------
(***************************************************************************)
(* What `<db>.lock` promises: lincrawl commands that write the archive     *)
(* hold it one at a time, from before they open the database until after   *)
(* they have closed it.  A holder that dies keeps it.                      *)
(***************************************************************************)
CONSTANTS Procs, NoProc

VARIABLES
  holder,  \* the command that holds the lock, or NoProc
  users    \* the commands that have the database open for writing

vars == <<holder, users>>

Init == holder = NoProc /\ users = {}

Take(p) == holder = NoProc /\ holder' = p /\ UNCHANGED users

Enter(p) == holder = p /\ users' = users \cup {p} /\ UNCHANGED holder

Leave(p) == p \in users /\ users' = users \ {p} /\ UNCHANGED holder

Give(p) == holder = p /\ p \notin users /\ holder' = NoProc /\ UNCHANGED users

Next == \E p \in Procs : Take(p) \/ Enter(p) \/ Leave(p) \/ Give(p)

Spec == Init /\ [][Next]_vars
=============================================================================
