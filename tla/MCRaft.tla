------------------------------- MODULE MCRaft -------------------------------
(* Members are interchangeable.                                              *)
EXTENDS Raft

CONSTANTS n1, n2, n3

Members == Permutations(Node)

-----------------------------------------------------------------------------
\* Logs with an entry in common agree up to it, what nodes hold committed
\* agrees, and the leader of the newest term and every node that could still be
\* elected have all of it (LogMatching, CommittedAgree, LeaderComplete and
\* ElectableComplete of Raft, with the types and the invariant behind
\* ElectionSafety).
LogsAgree ==
  /\ TypeOK
  /\ ElectionInv
  /\ LogMatching
  /\ CommittedAgree
  /\ LeaderComplete
  /\ ElectableComplete

\* What a leader commits is on a majority, and no node goes back in term,
\* commit index or committed entries (CommitOnMajority and NothingForgotten of
\* Raft).
CommitsStay == [][CommitOnMajority' /\ NothingForgotten]_vars
=============================================================================
