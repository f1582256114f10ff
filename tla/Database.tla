------------------------------ MODULE Database ------------------------------
(***************************************************************************)
(* What backup and restore promise the operator of one database: there is  *)
(* always at most one current image of it.  The server adds to it, and a   *)
(* restore replaces it, in one step and as a whole, by an image that was   *)
(* archived.  Nothing else changes it, crashes included; only the loss of  *)
(* the whole directory leaves none.                                        *)
(***************************************************************************)
EXTENDS Naturals

VARIABLES
  current,   \* the image an operator would go on with, or 0
  losses,    \* how often the directory was lost
  commits,   \* images are numbered by the commits of the server
  archived   \* images that were archived

vars == <<current, losses, commits, archived>>

Init ==
  /\ current = 0
  /\ losses = 0
  /\ commits = 0
  /\ archived = {}

\* The server creates the database or commits to it.
Write ==
  /\ commits' = commits + 1
  /\ current' = commits'
  /\ UNCHANGED <<losses, archived>>

Archive ==
  /\ archived' = archived \cup {current}
  /\ UNCHANGED <<current, losses, commits>>

Restore ==
  /\ current' \in archived
  /\ UNCHANGED <<losses, commits, archived>>

Lose ==
  /\ losses' = losses + 1
  /\ current' = 0
  /\ UNCHANGED <<commits, archived>>

Next == Write \/ Archive \/ Restore \/ Lose

Spec == Init /\ [][Next]_vars
=============================================================================
