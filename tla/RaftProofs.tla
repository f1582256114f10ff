----------------------------- MODULE RaftProofs -----------------------------
(***************************************************************************)
(* Election safety of Raft for any finite set of members, any number of    *)
(* terms and any bound on the calls in flight, as long as no reply is      *)
(* handled in a later term than the one it was asked in.                   *)
(***************************************************************************)
EXTENDS Raft, FiniteSetTheorems, TLAPS

Fields == {"role", "term", "vote", "commit", "applied", "log", "votes", "next", "match"}

\* What elections read of a node and of a call.
IsNode(s) ==
  /\ DOMAIN s = Fields
  /\ s.role \in {"Follower", "Candidate", "Leader"}
  /\ s.term \in Nat
  /\ s.vote \in Node \cup {None}
  /\ s.votes \subseteq Node

IsCall(c) ==
  /\ c.from \in Node /\ c.to \in Node /\ c.from # c.to
  /\ c.term \in Nat

Typed ==
  /\ node = [n \in Node |-> node[n]]
  /\ \A n \in Node : IsNode(node[n])
  /\ \A c \in rpcs : IsCall(c)

Inv == Typed /\ ElectionInv

-----------------------------------------------------------------------------
(* The state machine of a node, as far as elections go.                     *)

\* Nothing of an election changes.
Same(s, t) == t.role = s.role /\ t.term = s.term /\ t.vote = s.vote /\ t.votes = s.votes

\* A step down: to a later term, or of a candidate.
Falls(s, t) ==
  /\ t.role = "Follower" /\ t.vote = None /\ t.votes = {}
  /\ t.term > s.term \/ (t.term = s.term /\ s.role = "Candidate")

LEMMA FollowerIs ==
  ASSUME NEW s, IsNode(s), NEW term \in Nat
  PROVE  LET t == become_follower(s, term) IN
         /\ IsNode(t)
         /\ t.role = "Follower" /\ t.term = term /\ t.vote = None /\ t.votes = {}
BY DEF IsNode, become_follower, Fields

LEMMA CandidateIs ==
  ASSUME NEW s, IsNode(s), NEW n \in Node
  PROVE  LET t == become_candidate(s, n) IN
         /\ IsNode(t)
         /\ t.role = "Candidate" /\ t.term = s.term + 1 /\ t.vote = n /\ t.votes = {n}
BY DEF IsNode, become_candidate, Fields

LEMMA LeaderIs ==
  ASSUME NEW s, IsNode(s), NEW n \in Node
  PROVE  LET t == become_leader(s, n) IN
         /\ IsNode(t)
         /\ t.role = "Leader" /\ t.term = s.term /\ t.vote = s.vote /\ t.votes = s.votes
BY DEF IsNode, become_leader, Fields

LEMMA CatchUpIs ==
  ASSUME NEW s, IsNode(s), NEW term \in Nat
  PROVE  LET t == CatchUp(s, term) IN
         IsNode(t) /\ (Same(s, t) \/ Falls(s, t)) /\ t.term >= term
<1>1. CASE term > s.term
  BY <1>1, FollowerIs DEF CatchUp, Falls, IsNode
<1>2. CASE ~(term > s.term)
  BY <1>2 DEF CatchUp, Same, IsNode
<1> QED BY <1>1, <1>2

\* Accepted entries and truncations leave elections alone.
LEMMA LogSame ==
  ASSUME NEW s, IsNode(s), NEW log, NEW commit
  PROVE  LET t == [s EXCEPT !.log = log, !.commit = commit] IN IsNode(t) /\ Same(s, t)
BY DEF IsNode, Fields, Same

LEMMA TruncateSame ==
  ASSUME NEW s, IsNode(s), NEW log
  PROVE  LET t == [s EXCEPT !.log = log] IN IsNode(t) /\ Same(s, t)
BY DEF IsNode, Fields, Same

LEMMA AcceptedSame ==
  ASSUME NEW s, IsNode(s), NEW req
  PROVE  IsNode(Accepted(s, req)) /\ Same(s, Accepted(s, req))
BY DEF Accepted, IsNode, Fields, Same

LEMMA AppendIs ==
  ASSUME NEW s, IsNode(s), NEW req, IsCall(req)
  PROVE  LET v == handle_append_entries(s, req).node IN
         IsNode(v) /\ (Same(s, v) \/ Falls(s, v))
<1> DEFINE t == CatchUp(s, req.term)
           u == IF t.role = "Candidate" THEN become_follower(t, req.term) ELSE t
           v == handle_append_entries(s, req).node
<1>1. IsNode(t) /\ (Same(s, t) \/ Falls(s, t)) /\ t.term >= req.term
  BY CatchUpIs DEF IsCall
<1>2. \/ v = t
      \/ ~(req.term < t.term) /\ (v = u \/ v = [u EXCEPT !.log = truncate(@, req.prev)] \/ v = Accepted(u, req))
  <2> DEFINE w == [u EXCEPT !.log = truncate(@, req.prev)]
             a == Accepted(u, req)
             Answer1(x, ok, index) == [node |-> x, success |-> ok, match |-> index]
  <2>1. handle_append_entries(s, req) =
          CASE req.term < t.term -> Answer1(t, FALSE, 0)
            [] req.term >= t.term /\ ~HasTerm(u.log, req.prev) ->
                 Answer1(u, FALSE, last_index(u.log))
            [] req.term >= t.term /\ HasTerm(u.log, req.prev) /\ Diverges(u.log, req) ->
                 Answer1(w, FALSE, last_index(w.log))
            [] OTHER -> Answer1(a, TRUE, last_index(a.log))
    BY DEF handle_append_entries
  <2>2. req.term \in Nat /\ t.term \in Nat
    BY <1>1 DEF IsNode, IsCall
  <2> HIDE DEF t, u, w, a
  <2>3. \/ v = t
        \/ ~(req.term < t.term) /\ (v = u \/ v = w \/ v = a)
    BY <2>1, <2>2
  <2> QED BY <2>3 DEF w, a
<1>3. ASSUME ~(req.term < t.term) PROVE IsNode(u) /\ (Same(s, u) \/ Falls(s, u))
  <2>1. CASE t.role = "Candidate"
    <3>1. /\ IsNode(u) /\ u.role = "Follower" /\ u.term = req.term /\ u.vote = None /\ u.votes = {}
      BY <1>1, <2>1, FollowerIs DEF IsCall
    <3>2. t.term = req.term
      BY <1>1, <1>3 DEF IsNode, IsCall
    <3>3. Same(s, t)
      BY <1>1, <2>1 DEF Falls
    <3> HIDE DEF t, u
    <3> QED BY <2>1, <3>1, <3>2, <3>3 DEF Same, Falls
  <2>2. CASE t.role # "Candidate"
    BY <1>1, <2>2
  <2> QED BY <2>1, <2>2
<1> HIDE DEF t, u, v
<1>4. ASSUME NEW x, IsNode(x), Same(u, x), ~(req.term < t.term)
      PROVE  Same(s, x) \/ Falls(s, x)
  BY <1>3, <1>4 DEF Same, Falls
<1>5. ASSUME ~(req.term < t.term), v = [u EXCEPT !.log = truncate(@, req.prev)]
      PROVE  IsNode(v) /\ Same(u, v)
  <2>1. v = [u EXCEPT !.log = truncate(u.log, req.prev)]
    BY <1>5
  <2> QED BY <1>3, <1>5, <2>1, TruncateSame
<1>6. ASSUME ~(req.term < t.term), v = Accepted(u, req)
      PROVE  IsNode(v) /\ Same(u, v)
  BY <1>3, <1>6, AcceptedSame
<1>7. IsNode(v) /\ (Same(s, v) \/ Falls(s, v))
  BY <1>1, <1>2, <1>3, <1>4, <1>5, <1>6
<1> QED BY <1>7 DEF v

LEMMA AppendedIs ==
  ASSUME NEW s, IsNode(s), NEW reply, IsCall(reply)
  PROVE  LET t == handle_append_entries_response(s, reply) IN
         IsNode(t) /\ (Same(s, t) \/ Falls(s, t))
<1> DEFINE t == handle_append_entries_response(s, reply)
           u == [s EXCEPT !.match[reply.from] = reply.match, !.next[reply.from] = reply.match + 1]
<1>1. CASE s.role # "Leader"
  BY <1>1 DEF handle_append_entries_response, Same
<1>2. CASE s.role = "Leader" /\ reply.term > s.term
  BY <1>2, FollowerIs DEF handle_append_entries_response, Falls, IsCall
<1>3. CASE s.role = "Leader" /\ ~(reply.term > s.term) /\ reply.success
  <2>1. IsNode(u) /\ Same(s, u)
    BY DEF IsNode, Fields, Same
  <2>2. t = try_advance_commit_index(u)
    BY <1>3 DEF handle_append_entries_response
  <2> HIDE DEF u, t
  <2>3. t = u \/ \E i : t = [u EXCEPT !.commit = i]
    BY <2>2 DEF try_advance_commit_index
  <2>4. IsNode(t) /\ Same(u, t)
    BY <2>1, <2>3 DEF IsNode, Fields, Same
  <2>5. IsNode(t) /\ Same(s, t)
    BY <2>1, <2>4 DEF Same
  <2> QED BY <2>5 DEF t
<1>4. CASE s.role = "Leader" /\ ~(reply.term > s.term) /\ ~reply.success
  BY <1>4 DEF handle_append_entries_response, IsNode, Fields, Same
<1> QED BY <1>1, <1>2, <1>3, <1>4

LEMMA VotedIs ==
  ASSUME NEW s, IsNode(s), NEW n \in Node, NEW reply, IsCall(reply)
  PROVE  LET t == handle_request_vote_response(s, n, reply) IN
         /\ IsNode(t)
         /\ \/ Same(s, t) \/ Falls(s, t)
            \/ /\ s.role = "Candidate" /\ t.role \in {"Candidate", "Leader"}
               /\ t.term = s.term /\ t.vote = s.vote /\ t.votes = Tally(s, reply)
               /\ t.role = "Leader" => Cardinality(t.votes) >= majority
<1> DEFINE t == handle_request_vote_response(s, n, reply)
           u == [s EXCEPT !.votes = Tally(s, reply)]
<1>1. CASE s.role # "Candidate"
  BY <1>1 DEF handle_request_vote_response, Same
<1>2. CASE s.role = "Candidate" /\ reply.term > s.term
  BY <1>2, FollowerIs DEF handle_request_vote_response, Falls, IsCall
<1>3. CASE s.role = "Candidate" /\ ~(reply.term > s.term)
  <2>1. /\ IsNode(u) /\ u.role = s.role /\ u.term = s.term /\ u.vote = s.vote
        /\ u.votes = Tally(s, reply)
    BY DEF IsNode, Fields, Tally, IsCall
  <2>2. t = IF Cardinality(u.votes) >= majority THEN become_leader(u, n) ELSE u
    BY <1>3 DEF handle_request_vote_response
  <2> HIDE DEF t, u
  <2>3. CASE Cardinality(u.votes) >= majority
    <3>1. /\ IsNode(t) /\ t.role = "Leader" /\ t.term = u.term /\ t.vote = u.vote
          /\ t.votes = u.votes
      BY <2>1, <2>2, <2>3, LeaderIs
    <3> QED BY <1>3, <2>1, <2>3, <3>1 DEF t
  <2>4. CASE ~(Cardinality(u.votes) >= majority)
    BY <1>3, <2>1, <2>2, <2>4 DEF t
  <2> QED BY <2>3, <2>4
<1> QED BY <1>1, <1>2, <1>3

-----------------------------------------------------------------------------
(* What a step of one node does to the elections.                           *)

Runs(s) == s.role \in {"Candidate", "Leader"}

Answers(c) == c.kind = "voted" => c.asked = node[c.to].term /\ node[c.to].role = "Candidate"

\* A step that keeps or gives up what x holds, and grants nothing.
LEMMA QuietStep ==
  ASSUME Inv, NEW x \in Node, NEW s,
         IsNode(s), Same(node[x], s) \/ Falls(node[x], s),
         node' = [node EXCEPT ![x] = s],
         \A c \in rpcs' : Answers(c)' /\ (c.kind = "voted" /\ c.granted => c \in rpcs)
  PROVE  ElectionInv'
<1>1. node'[x] = s /\ \A n \in Node \ {x} : node'[n] = node[n]
  BY DEF Inv, Typed
<1>2. \A n \in Node : Runs(node'[n]) => Same(node[n], node'[n])
  BY <1>1 DEF Runs, Same, Falls
<1>3. \A n \in Node : IsNode(node[n])
  BY DEF Inv, Typed
<1>4. /\ \A n \in Node : Runs(node[n]) => node[n].vote = n
      /\ \A n \in Node : node[n].role = "Leader" => Cardinality(node[n].votes) >= majority
  BY DEF Inv, ElectionInv, Runs, Leads
<1>5. ASSUME NEW v \in Node, NEW n \in Node, Backed(v, n)'
      PROVE  Backed(v, n) /\ Runs(node'[n]) /\ Same(node[n], node'[n])
  <2>1. CASE Runs(node'[n]) /\ v \in node'[n].votes
    BY <1>2, <2>1 DEF Runs, Same, Backed
  <2>2. CASE \E c \in rpcs' : c.kind = "voted" /\ c.from = v /\ c.to = n /\ c.granted
    <3>1. PICK c \in rpcs' : c.kind = "voted" /\ c.from = v /\ c.to = n /\ c.granted
      BY <2>2
    <3>2. Runs(node'[n])
      BY <3>1 DEF Answers, Runs
    <3>3. Backed(v, n)
      BY <3>1 DEF Backed
    <3> QED BY <1>2, <3>2, <3>3
  <2> QED BY <1>5, <2>1, <2>2 DEF Backed, Runs
<1>6. \A n \in Node : Runs(node'[n]) => node'[n].vote = n
  BY <1>2, <1>4 DEF Same, Runs
<1>7. \A n \in Node : node'[n].role = "Leader" => Cardinality(node'[n].votes) >= majority
  BY <1>2, <1>4 DEF Same, Runs
<1>8. ASSUME NEW v \in Node, NEW n \in Node, Backed(v, n)'
      PROVE  VoteKept(v, n)'
  <2>1. Backed(v, n) /\ Runs(node'[n]) /\ Same(node[n], node'[n])
    BY <1>5, <1>8
  <2>2. VoteKept(v, n)
    BY <2>1 DEF Inv, ElectionInv
  <2>3. CASE Same(node[v], node'[v])
    BY <2>1, <2>2, <2>3 DEF Same, VoteKept
  <2>4. CASE ~Same(node[v], node'[v])
    <3>1. v = x /\ Falls(node[v], node'[v])
      BY <1>1, <2>4 DEF Same
    <3>2. n # v
      BY <2>1, <2>4
    <3>3. node'[v].term \in Nat /\ node[v].term \in Nat /\ node[n].term \in Nat
      BY <1>1, <1>3, <3>1 DEF IsNode
    <3>4. CASE node'[v].term > node[v].term
      BY <2>1, <2>2, <3>3, <3>4 DEF VoteKept, Same
    <3>5. CASE node'[v].term = node[v].term /\ node[v].role = "Candidate"
      <4>1. node[v].vote # n
        BY <1>4, <3>2, <3>5 DEF Runs
      <4> QED BY <2>1, <2>2, <3>3, <3>5, <4>1 DEF VoteKept, Same
    <3> QED BY <3>1, <3>4, <3>5 DEF Falls
  <2> QED BY <2>3, <2>4
<1>9. ASSUME NEW v \in Node, NEW n \in Node, NEW m \in Node,
             Backed(v, n)', Backed(v, m)', node'[n].term = node'[m].term
      PROVE  n = m
  <2>1. Backed(v, n) /\ Backed(v, m) /\ node[n].term = node[m].term
    BY <1>5, <1>9 DEF Same
  <2> QED BY <2>1 DEF Inv, ElectionInv
<1> QED BY <1>6, <1>7, <1>8, <1>9 DEF ElectionInv, Runs, Leads, Answers

\* A vote is given, and its reply may be on its way.
LEMMA GrantStep ==
  ASSUME Inv, NEW x \in Node, NEW d \in Node \ {x}, NEW t, NEW reply,
         IsNode(t), Same(node[x], t) \/ Falls(node[x], t), t.vote \in {None, d},
         reply.kind = "voted", reply.from = x, reply.to = d, reply.asked = t.term,
         node' = [node EXCEPT ![x] = [t EXCEPT !.vote = d]],
         \A c \in rpcs' : Answers(c)' /\ (c \in rpcs \/ c = reply \/ c.kind # "voted")
  PROVE  ElectionInv'
<1> DEFINE s == [t EXCEPT !.vote = d]
<1>0. s.role = t.role /\ s.term = t.term /\ s.votes = t.votes /\ s.vote = d
  BY DEF IsNode, Fields
<1>1. node'[x] = s /\ \A n \in Node \ {x} : node'[n] = node[n]
  BY DEF Inv, Typed
<1> HIDE DEF s
<1>2. \A n \in Node : IsNode(node[n])
  BY DEF Inv, Typed
<1>3. /\ \A n \in Node : Runs(node[n]) => node[n].vote = n
      /\ \A n \in Node : node[n].role = "Leader" => Cardinality(node[n].votes) >= majority
  BY DEF Inv, ElectionInv, Runs, Leads
<1>4. ~Runs(node'[x])
  <2>1. Runs(t) => t.vote = x
    BY <1>3 DEF Runs, Same, Falls
  <2>2. x # None /\ x # d
    BY RaftAssumption DEF None
  <2> QED BY <1>0, <1>1, <2>1, <2>2 DEF Runs
<1>5. ASSUME NEW v \in Node, NEW n \in Node, Backed(v, n)'
      PROVE  /\ n # x
             /\ Backed(v, n) \/ (v = x /\ n = d /\ node[n].term = t.term)
  <2>1. CASE Runs(node'[n]) /\ v \in node'[n].votes
    <3>1. n # x
      BY <1>4, <2>1
    <3> QED BY <1>1, <2>1, <3>1 DEF Runs, Backed
  <2>2. CASE \E c \in rpcs' : c.kind = "voted" /\ c.from = v /\ c.to = n /\ c.granted
    <3>1. PICK c \in rpcs' : c.kind = "voted" /\ c.from = v /\ c.to = n /\ c.granted
      BY <2>2
    <3>2. Runs(node'[n]) /\ c.asked = node'[n].term
      BY <3>1 DEF Answers, Runs
    <3>3. n # x
      BY <1>4, <3>2
    <3>4. CASE c \in rpcs
      BY <3>1, <3>3, <3>4 DEF Backed
    <3>5. CASE c = reply
      BY <1>1, <3>1, <3>2, <3>3, <3>5
    <3> QED BY <3>1, <3>4, <3>5
  <2> QED BY <1>5, <2>1, <2>2 DEF Backed, Runs
<1>6. node[x].term \in Nat /\ t.term \in Nat /\ t.term >= node[x].term
  BY <1>2 DEF IsNode, Same, Falls
\* Whom x has backed in the term of the grant is the one it grants to.
<1>7. ASSUME NEW m \in Node \ {x}, node[x].vote = m, node[x].term = t.term
      PROVE  m = d
  <2>1. ~Runs(node[x])
    BY <1>3, <1>7
  <2>2. Same(node[x], t)
    BY <1>6, <1>7, <2>1 DEF Falls, Runs
  <2>3. m # None
    BY RaftAssumption DEF None
  <2> QED BY <1>7, <2>2, <2>3 DEF Same
<1>8. \A n \in Node : Runs(node'[n]) => node'[n].vote = n
  BY <1>1, <1>3, <1>4
<1>9. \A n \in Node : node'[n].role = "Leader" => Cardinality(node'[n].votes) >= majority
  BY <1>1, <1>3, <1>4 DEF Runs
<1>10. ASSUME NEW v \in Node, NEW n \in Node, Backed(v, n)'
       PROVE  VoteKept(v, n)'
  <2>1. n # x /\ (Backed(v, n) \/ (v = x /\ n = d /\ node[n].term = t.term))
    BY <1>5, <1>10
  <2>2. CASE v = x /\ n = d /\ node[n].term = t.term
    BY <1>0, <1>1, <2>1, <2>2 DEF VoteKept
  <2>3. CASE Backed(v, n)
    <3>1. VoteKept(v, n) /\ node'[n] = node[n] /\ node[n].term \in Nat
      BY <1>1, <1>2, <2>1, <2>3 DEF Inv, ElectionInv, IsNode
    <3>2. CASE v # x
      BY <1>1, <3>1, <3>2 DEF VoteKept
    <3>3. CASE v = x
      <4>1. node'[x].term = t.term /\ node'[x].vote = d
        BY <1>0, <1>1
      <4>2. CASE t.term > node[n].term
        BY <3>1, <3>3, <4>1, <4>2 DEF VoteKept
      <4>3. CASE ~(t.term > node[n].term)
        <5>1. node[x].term = node[n].term /\ t.term = node[n].term /\ node[x].vote = n
          BY <1>6, <3>1, <3>3, <4>3 DEF VoteKept
        <5>2. n = d
          BY <1>7, <2>1, <5>1
        <5> QED BY <3>1, <3>3, <4>1, <5>1, <5>2 DEF VoteKept
      <4> QED BY <4>2, <4>3
    <3> QED BY <3>2, <3>3
  <2> QED BY <2>1, <2>2, <2>3
<1>11. ASSUME NEW m \in Node \ {x}, Backed(x, m), node[m].term = t.term
       PROVE  m = d
  <2>1. VoteKept(x, m)
    BY <1>11 DEF Inv, ElectionInv
  <2>2. node[x].term = t.term /\ node[x].vote = m
    BY <1>6, <1>11, <2>1 DEF VoteKept
  <2> QED BY <1>7, <2>2
<1>12. ASSUME NEW v \in Node, NEW n \in Node, NEW m \in Node,
              Backed(v, n)', Backed(v, m)', node'[n].term = node'[m].term
       PROVE  n = m
  <2>1. /\ n # x /\ (Backed(v, n) \/ (v = x /\ n = d /\ node[n].term = t.term))
        /\ m # x /\ (Backed(v, m) \/ (v = x /\ m = d /\ node[m].term = t.term))
    BY <1>5, <1>12
  <2>2. node[n].term = node[m].term
    BY <1>1, <1>12, <2>1
  <2>3. CASE Backed(v, n) /\ Backed(v, m)
    BY <2>2, <2>3 DEF Inv, ElectionInv
  <2> QED BY <1>11, <2>1, <2>2, <2>3
<1> QED BY <1>8, <1>9, <1>10, <1>12 DEF ElectionInv, Runs, Leads, Answers

\* An election starts: what was on its way to x is of an earlier term.
LEMMA CandidateStep ==
  ASSUME Inv, NEW x \in Node, NEW s,
         IsNode(s), s.role = "Candidate", s.term = node[x].term + 1, s.vote = x, s.votes = {x},
         node' = [node EXCEPT ![x] = s],
         \A c \in rpcs' : Answers(c)' /\ (c \in rpcs \/ c.kind # "voted")
  PROVE  ElectionInv'
<1>1. node'[x] = s /\ \A n \in Node \ {x} : node'[n] = node[n]
  BY DEF Inv, Typed
<1>2. \A n \in Node : node[n].term \in Nat
  BY DEF Inv, Typed, IsNode
<1>3. /\ \A n \in Node : Runs(node[n]) => node[n].vote = n
      /\ \A n \in Node : node[n].role = "Leader" => Cardinality(node[n].votes) >= majority
  BY DEF Inv, ElectionInv, Runs, Leads
<1>4. ASSUME NEW v \in Node, NEW n \in Node, Backed(v, n)'
      PROVE  (n = x /\ v = x) \/ (n # x /\ Backed(v, n))
  <2>1. CASE Runs(node'[n]) /\ v \in node'[n].votes
    BY <1>1, <2>1 DEF Runs, Backed
  <2>2. CASE \E c \in rpcs' : c.kind = "voted" /\ c.from = v /\ c.to = n /\ c.granted
    <3>1. PICK c \in rpcs' : c.kind = "voted" /\ c.from = v /\ c.to = n /\ c.granted
      BY <2>2
    <3>2. c \in rpcs /\ c.asked = node'[n].term /\ c.asked = node[n].term
      BY <3>1 DEF Answers, Inv, ElectionInv
    <3>3. n # x
      BY <1>1, <1>2, <3>2
    <3> QED BY <3>1, <3>2, <3>3 DEF Backed
  <2> QED BY <1>4, <2>1, <2>2 DEF Backed, Runs
<1>5. \A n \in Node : Runs(node'[n]) => node'[n].vote = n
  BY <1>1, <1>3
<1>6. \A n \in Node : node'[n].role = "Leader" => Cardinality(node'[n].votes) >= majority
  BY <1>1, <1>3
<1>7. ASSUME NEW v \in Node, NEW n \in Node, Backed(v, n)'
      PROVE  VoteKept(v, n)'
  <2>1. CASE n = x /\ v = x
    BY <1>1, <2>1 DEF VoteKept
  <2>2. CASE n # x /\ Backed(v, n)
    <3>1. VoteKept(v, n)
      BY <2>2 DEF Inv, ElectionInv
    <3> QED BY <1>1, <1>2, <2>2, <3>1 DEF VoteKept
  <2> QED BY <1>4, <1>7, <2>1, <2>2
\* No one whom x has backed is in its new term.
<1>8. ASSUME NEW m \in Node \ {x}, Backed(x, m)
      PROVE  node'[x].term # node'[m].term
  <2>1. VoteKept(x, m)
    BY <1>8 DEF Inv, ElectionInv
  <2> QED BY <1>1, <1>2, <2>1 DEF VoteKept
<1>9. ASSUME NEW v \in Node, NEW n \in Node, NEW m \in Node,
             Backed(v, n)', Backed(v, m)', node'[n].term = node'[m].term
      PROVE  n = m
  <2>1. /\ (n = x /\ v = x) \/ (n # x /\ Backed(v, n))
        /\ (m = x /\ v = x) \/ (m # x /\ Backed(v, m))
    BY <1>4, <1>9
  <2>2. CASE n # x /\ Backed(v, n) /\ m # x /\ Backed(v, m)
    BY <1>1, <1>9, <2>2 DEF Inv, ElectionInv
  <2> QED BY <1>8, <1>9, <2>1, <2>2
<1> QED BY <1>5, <1>6, <1>7, <1>9 DEF ElectionInv, Runs, Leads, Answers

\* A candidate counts a reply, and may have its majority.
LEMMA TallyStep ==
  ASSUME Inv, NEW reply \in rpcs, reply.kind = "voted", NEW s,
         IsNode(s), node[reply.to].role = "Candidate", s.role \in {"Candidate", "Leader"},
         s.term = node[reply.to].term, s.vote = node[reply.to].vote,
         s.votes = Tally(node[reply.to], reply),
         s.role = "Leader" => Cardinality(s.votes) >= majority,
         node' = [node EXCEPT ![reply.to] = s],
         \A c \in rpcs' : Answers(c)' /\ c \in rpcs
  PROVE  ElectionInv'
<1> DEFINE x == reply.to
<1>0. x \in Node
  BY DEF Inv, Typed, IsCall
<1>1. node'[x] = s /\ \A n \in Node \ {x} : node'[n] = node[n]
  BY <1>0 DEF Inv, Typed
<1>2. \A n \in Node : node'[n].term = node[n].term /\ node'[n].vote = node[n].vote
  BY <1>0, <1>1
<1>3. /\ \A n \in Node : Runs(node[n]) => node[n].vote = n
      /\ \A n \in Node : node[n].role = "Leader" => Cardinality(node[n].votes) >= majority
  BY DEF Inv, ElectionInv, Runs, Leads
<1>4. ASSUME NEW v \in Node, NEW n \in Node, Backed(v, n)'
      PROVE  Backed(v, n)
  <2>1. CASE Runs(node'[n]) /\ v \in node'[n].votes
    <3>1. CASE n # x
      BY <1>1, <2>1, <3>1 DEF Runs, Backed
    <3>2. CASE n = x /\ v \in node[x].votes
      BY <3>2 DEF Backed
    <3>3. CASE n = x /\ v \notin node[x].votes
      <4>1. reply.granted /\ reply.from = v
        BY <1>1, <2>1, <3>3 DEF Tally
      <4> QED BY <3>3, <4>1 DEF Backed
    <3> QED BY <3>1, <3>2, <3>3
  <2>2. CASE \E c \in rpcs' : c.kind = "voted" /\ c.from = v /\ c.to = n /\ c.granted
    BY <2>2 DEF Backed
  <2> QED BY <1>4, <2>1, <2>2 DEF Backed, Runs
<1>5. \A n \in Node : Runs(node'[n]) => node'[n].vote = n
  BY <1>0, <1>1, <1>3 DEF Runs
<1>6. \A n \in Node : node'[n].role = "Leader" => Cardinality(node'[n].votes) >= majority
  BY <1>0, <1>1, <1>3
<1>7. ASSUME NEW v \in Node, NEW n \in Node, Backed(v, n)'
      PROVE  VoteKept(v, n)'
  <2>1. VoteKept(v, n)
    BY <1>4, <1>7 DEF Inv, ElectionInv
  <2> QED BY <1>2, <2>1 DEF VoteKept
<1>8. ASSUME NEW v \in Node, NEW n \in Node, NEW m \in Node,
             Backed(v, n)', Backed(v, m)', node'[n].term = node'[m].term
      PROVE  n = m
  <2>1. Backed(v, n) /\ Backed(v, m) /\ node[n].term = node[m].term
    BY <1>2, <1>4, <1>8
  <2> QED BY <2>1 DEF Inv, ElectionInv
<1> QED BY <1>5, <1>6, <1>7, <1>8 DEF ElectionInv, Runs, Leads, Answers

-----------------------------------------------------------------------------
(* The steps of the group.                                                  *)

LEMMA TypedStep ==
  ASSUME Typed, NEW x \in Node, NEW s, IsNode(s), node' = [node EXCEPT ![x] = s],
         \A c \in rpcs' : IsCall(c)
  PROVE  Typed'
BY DEF Typed

\* A reply that is still on its way is awaited.
LEMMA FlightAnswers ==
  ASSUME LateReplies = FALSE, NEW calls, Flight(calls)
  PROVE  \A c \in rpcs' : c \in calls /\ Answers(c)'
BY DEF Flight, Answers, IsRequest, Caller

LEMMA InitInv ==
  ASSUME Init
  PROVE  Inv
<1>1. Typed
  BY DEF Init, Typed, IsNode, Fields, NewNode
<1>2. ElectionInv
  BY DEF Init, ElectionInv, NewNode, Leads, Backed
<1> QED BY <1>1, <1>2 DEF Inv

LEMMA TimeoutInv ==
  ASSUME LateReplies = FALSE, Inv, NEW n \in Node, Timeout(n)
  PROVE  Inv'
<1> DEFINE s == become_candidate(node[n], n)
           calls == {VoteRequest(n, m) : m \in Peers(n)}
<1>1. IsNode(node[n]) /\ node' = [node EXCEPT ![n] = s]
  BY DEF Timeout, Inv, Typed
<1>2. IsNode(s) /\ s.role = "Candidate" /\ s.term = node[n].term + 1 /\ s.vote = n /\ s.votes = {n}
  BY <1>1, CandidateIs
<1>3. \A c \in calls : IsCall(c) /\ c.kind # "voted"
  BY <1>1 DEF VoteRequest, Peers, IsCall, IsNode
<1>4. \A c \in rpcs' : (c \in rpcs \/ c \in calls) /\ Answers(c)'
  BY FlightAnswers DEF Timeout, Send
<1> HIDE DEF s, calls
<1>5. Typed'
  BY <1>1, <1>2, <1>3, <1>4, TypedStep DEF Inv, Typed
<1>6. ElectionInv'
  BY <1>1, <1>2, <1>3, <1>4, CandidateStep
<1> QED BY <1>5, <1>6 DEF Inv

LEMMA SameItself ==
  ASSUME Inv, NEW n \in Node, UNCHANGED node
  PROVE  IsNode(node[n]) /\ Same(node[n], node[n]) /\ node' = [node EXCEPT ![n] = node[n]]
BY DEF Inv, Typed, Same

LEMMA HeartbeatInv ==
  ASSUME LateReplies = FALSE, Inv, NEW n \in Node, Heartbeat(n)
  PROVE  Inv'
<1> DEFINE calls == {AppendRequest(n, m) : m \in Peers(n)}
<1>1. IsNode(node[n]) /\ Same(node[n], node[n]) /\ node' = [node EXCEPT ![n] = node[n]]
  BY SameItself DEF Heartbeat
<1>2. \A c \in calls : IsCall(c) /\ c.kind # "voted"
  BY <1>1 DEF AppendRequest, Peers, IsCall, IsNode
<1>3. \A c \in rpcs' : (c \in rpcs \/ c \in calls) /\ Answers(c)'
  BY FlightAnswers DEF Heartbeat, Send
<1> HIDE DEF calls
<1>4. Typed'
  BY <1>1, <1>2, <1>3, TypedStep DEF Inv, Typed
<1>5. ElectionInv'
  BY <1>1, <1>2, <1>3, QuietStep
<1> QED BY <1>4, <1>5 DEF Inv

\* Calls in flight are still awaited when their callers have not moved.
LEMMA StillAnswers ==
  ASSUME Inv, NEW x \in Node, NEW s, Same(node[x], s), node' = [node EXCEPT ![x] = s]
  PROVE  \A c \in rpcs : Answers(c)'
<1>1. \A n \in Node : node'[n].term = node[n].term /\ node'[n].role = node[n].role
  BY DEF Inv, Typed, Same
<1>2. \A c \in rpcs : c.to \in Node /\ Answers(c)
  BY DEF Inv, Typed, IsCall, ElectionInv, Answers
<1> QED BY <1>1, <1>2 DEF Answers

LEMMA ProposeInv ==
  ASSUME Inv, NEW n \in Node, propose(n)
  PROVE  Inv'
<1> DEFINE s == [node[n] EXCEPT !.log = append_entry(@, node[n].term, Put)]
<1>1. IsNode(node[n]) /\ node' = [node EXCEPT ![n] = s] /\ rpcs' = rpcs
  BY DEF propose, Inv, Typed
<1>2. IsNode(s) /\ Same(node[n], s)
  BY <1>1 DEF IsNode, Fields, Same
<1> HIDE DEF s
<1>3. \A c \in rpcs : Answers(c)'
  BY <1>1, <1>2, StillAnswers
<1>4. Typed'
  BY <1>1, <1>2, TypedStep DEF Inv, Typed
<1>5. ElectionInv'
  BY <1>1, <1>2, <1>3, QuietStep
<1> QED BY <1>4, <1>5 DEF Inv

LEMMA LoseInv ==
  ASSUME Inv, NEW call \in rpcs, Lose(call)
  PROVE  Inv'
<1>1. call.to \in Node /\ UNCHANGED node /\ rpcs' \subseteq rpcs
  BY DEF Lose, Inv, Typed, IsCall
<1>2. Typed'
  BY <1>1 DEF Inv, Typed
<1>3. ElectionInv'
  BY <1>1, <1>2 DEF Inv, ElectionInv, Leads, Backed, VoteKept
<1> QED BY <1>2, <1>3 DEF Inv

LEMMA ReceiveVoteRequestInv ==
  ASSUME LateReplies = FALSE, Inv, NEW req \in rpcs, ReceiveVoteRequest(req)
  PROVE  Inv'
<1> DEFINE x == req.to
           d == req.from
           t == CatchUp(node[x], req.term)
           s == handle_request_vote(node[x], req)
           granted == Grants(t, req)
           reply == [kind |-> "voted", from |-> x, to |-> d, asked |-> req.term,
                     term |-> s.term, granted |-> granted]
<1>1. IsCall(req) /\ IsNode(node[x]) /\ x \in Node /\ d \in Node \ {x}
  BY DEF Inv, Typed, IsCall
<1>2. IsNode(t) /\ (Same(node[x], t) \/ Falls(node[x], t)) /\ t.term >= req.term
  BY <1>1, CatchUpIs DEF IsCall
<1>3. s = IF granted THEN [t EXCEPT !.vote = d] ELSE t
  BY DEF handle_request_vote
<1>4. node' = [node EXCEPT ![x] = s]
  BY DEF ReceiveVoteRequest
<1>5. /\ reply.kind = "voted" /\ reply.from = x /\ reply.to = d /\ reply.asked = req.term
      /\ reply.term = s.term /\ reply.granted = granted
  OBVIOUS
<1>6. Flight((rpcs \ {req}) \cup {reply})
  BY DEF ReceiveVoteRequest, Answer
<1> HIDE DEF s, reply
<1>7. \A c \in rpcs' : (c \in rpcs \/ c = reply) /\ Answers(c)'
  <2> DEFINE calls == (rpcs \ {req}) \cup {reply}
  <2> HIDE DEF calls
  <2>1. Flight(calls)
    BY <1>6 DEF calls
  <2>2. \A c \in rpcs' : c \in calls /\ Answers(c)'
    BY <2>1, FlightAnswers
  <2> QED BY <2>2 DEF calls
<1>8. granted => t.vote \in {None, d} /\ t.term = req.term
  BY <1>1, <1>2 DEF Grants, IsNode, IsCall
<1> HIDE DEF t, granted
<1>9. IsNode(s)
  BY <1>1, <1>2, <1>3 DEF IsNode, Fields
<1>10. IsCall(reply)
  BY <1>1, <1>5, <1>9 DEF IsCall, IsNode
<1>11. Typed'
  BY <1>1, <1>4, <1>7, <1>9, <1>10, TypedStep DEF Inv, Typed
<1>12. CASE granted
  <2>1. node' = [node EXCEPT ![x] = [t EXCEPT !.vote = d]]
    BY <1>3, <1>4, <1>12
  <2>2. ElectionInv'
    BY <1>1, <1>2, <1>5, <1>7, <1>8, <1>12, <2>1, GrantStep
  <2> QED BY <1>11, <2>2 DEF Inv
<1>13. CASE ~granted
  <2>1. s = t /\ \A c \in rpcs' : c.kind = "voted" /\ c.granted => c \in rpcs
    BY <1>3, <1>5, <1>7, <1>13
  <2>2. ElectionInv'
    BY <1>1, <1>2, <1>4, <1>7, <2>1, QuietStep
  <2> QED BY <1>11, <2>2 DEF Inv
<1> QED BY <1>12, <1>13

LEMMA ReceiveAppendInv ==
  ASSUME LateReplies = FALSE, Inv, NEW req \in rpcs, ReceiveAppend(req)
  PROVE  Inv'
<1> DEFINE x == req.to
           r == handle_append_entries(node[x], req)
           s == r.node
           reply == [kind |-> "appended", from |-> x, to |-> req.from, asked |-> req.term,
                     term |-> r.node.term, success |-> r.success, match |-> r.match]
<1>1. IsCall(req) /\ IsNode(node[x]) /\ x \in Node /\ req.from \in Node \ {x}
  BY DEF Inv, Typed, IsCall
<1>2. IsNode(s) /\ (Same(node[x], s) \/ Falls(node[x], s))
  BY <1>1, AppendIs
<1>3. node' = [node EXCEPT ![x] = s] /\ Flight((rpcs \ {req}) \cup {reply})
  BY DEF ReceiveAppend, Answer
<1>4. reply.kind # "voted" /\ IsCall(reply)
  BY <1>1, <1>2 DEF IsCall, IsNode
<1> HIDE DEF r, s, reply
<1>5. \A c \in rpcs' : (c \in rpcs \/ c = reply) /\ Answers(c)'
  <2> DEFINE calls == (rpcs \ {req}) \cup {reply}
  <2> HIDE DEF calls
  <2>1. Flight(calls)
    BY <1>3 DEF calls
  <2>2. \A c \in rpcs' : c \in calls /\ Answers(c)'
    BY <2>1, FlightAnswers
  <2> QED BY <2>2 DEF calls
<1>6. Typed'
  BY <1>1, <1>2, <1>3, <1>4, <1>5, TypedStep DEF Inv, Typed
<1>7. ElectionInv'
  BY <1>1, <1>2, <1>3, <1>4, <1>5, QuietStep
<1> QED BY <1>6, <1>7 DEF Inv

LEMMA ReceiveVoteInv ==
  ASSUME LateReplies = FALSE, Inv, NEW reply \in rpcs, ReceiveVote(reply)
  PROVE  Inv'
<1> DEFINE x == reply.to
           s == handle_request_vote_response(node[x], x, reply)
<1>1. IsCall(reply) /\ IsNode(node[x]) /\ x \in Node
  BY DEF Inv, Typed, IsCall
<1>2. /\ IsNode(s)
      /\ \/ Same(node[x], s) \/ Falls(node[x], s)
         \/ /\ node[x].role = "Candidate" /\ s.role \in {"Candidate", "Leader"}
            /\ s.term = node[x].term /\ s.vote = node[x].vote
            /\ s.votes = Tally(node[x], reply)
            /\ s.role = "Leader" => Cardinality(s.votes) >= majority
  BY <1>1, VotedIs
<1>3. reply.kind = "voted" /\ node' = [node EXCEPT ![x] = s] /\ Flight(rpcs \ {reply})
  BY DEF ReceiveVote
<1> HIDE DEF s
<1>4. \A c \in rpcs' : c \in rpcs /\ Answers(c)'
  BY <1>3, FlightAnswers
<1>5. Typed'
  BY <1>1, <1>2, <1>3, <1>4, TypedStep DEF Inv, Typed
<1>6. CASE Same(node[x], s) \/ Falls(node[x], s)
  BY <1>1, <1>2, <1>3, <1>4, <1>5, <1>6, QuietStep DEF Inv
<1>7. CASE ~(Same(node[x], s) \/ Falls(node[x], s))
  BY <1>2, <1>3, <1>4, <1>5, <1>7, TallyStep DEF Inv
<1> QED BY <1>6, <1>7

LEMMA ReceiveAppendedInv ==
  ASSUME LateReplies = FALSE, Inv, NEW reply \in rpcs, ReceiveAppended(reply)
  PROVE  Inv'
<1> DEFINE x == reply.to
           s == handle_append_entries_response(node[x], reply)
<1>1. IsCall(reply) /\ IsNode(node[x]) /\ x \in Node
  BY DEF Inv, Typed, IsCall
<1>2. IsNode(s) /\ (Same(node[x], s) \/ Falls(node[x], s))
  BY <1>1, AppendedIs
<1>3. node' = [node EXCEPT ![x] = s] /\ Flight(rpcs \ {reply})
  BY DEF ReceiveAppended
<1> HIDE DEF s
<1>4. \A c \in rpcs' : c \in rpcs /\ Answers(c)'
  BY <1>3, FlightAnswers
<1>5. Typed'
  BY <1>1, <1>2, <1>3, <1>4, TypedStep DEF Inv, Typed
<1>6. ElectionInv'
  BY <1>1, <1>2, <1>3, <1>4, QuietStep
<1> QED BY <1>5, <1>6 DEF Inv

-----------------------------------------------------------------------------
\* The invariant behind election safety: a candidate or leader has voted for
\* itself, a leader holds the votes of a majority, and whoever has backed a
\* node has kept that vote or moved to a later term (RaftNode's handlers,
\* raft/node.rs).
THEOREM ElectionInvariant ==
  ASSUME LateReplies = FALSE
  PROVE  Spec => []Inv
<1>1. Init => Inv
  BY InitInv
<1>2. Inv /\ [Next]_vars => Inv'
  <2> SUFFICES ASSUME Inv, [Next]_vars PROVE Inv'
    OBVIOUS
  <2>1. ASSUME NEW n \in Node, Timeout(n) PROVE Inv'
    BY <2>1, TimeoutInv
  <2>2. ASSUME NEW n \in Node, Heartbeat(n) PROVE Inv'
    BY <2>2, HeartbeatInv
  <2>3. ASSUME NEW n \in Node, propose(n) PROVE Inv'
    BY <2>3, ProposeInv
  <2>4. ASSUME NEW c \in rpcs, ReceiveVoteRequest(c) PROVE Inv'
    BY <2>4, ReceiveVoteRequestInv
  <2>5. ASSUME NEW c \in rpcs, ReceiveAppend(c) PROVE Inv'
    BY <2>5, ReceiveAppendInv
  <2>6. ASSUME NEW c \in rpcs, ReceiveVote(c) PROVE Inv'
    BY <2>6, ReceiveVoteInv
  <2>7. ASSUME NEW c \in rpcs, ReceiveAppended(c) PROVE Inv'
    BY <2>7, ReceiveAppendedInv
  <2>8. ASSUME NEW c \in rpcs, Lose(c) PROVE Inv'
    BY <2>8, LoseInv
  <2>9. CASE UNCHANGED vars
    BY <2>9 DEF vars, Inv, Typed, ElectionInv, Leads, Backed, VoteKept
  <2> QED BY <2>1, <2>2, <2>3, <2>4, <2>5, <2>6, <2>7, <2>8, <2>9 DEF Next
<1> QED BY <1>1, <1>2, PTL DEF Spec

\* Two majorities of the members have a member in common.
LEMMA MajoritiesMeet ==
  ASSUME NEW S \in SUBSET Node, NEW T \in SUBSET Node,
         Cardinality(S) >= majority, Cardinality(T) >= majority
  PROVE  \E v \in Node : v \in S /\ v \in T
<1>1. IsFiniteSet(Node)
  BY RaftAssumption
<1>2. Cardinality(Node) \in Nat /\ Cardinality(S) \in Nat /\ Cardinality(T) \in Nat
  BY <1>1, FS_Subset, FS_CardinalityType
<1>3. Cardinality(S) + Cardinality(T) > Cardinality(Node)
  BY <1>2 DEF majority
<1>4. S \cap T # {}
  BY <1>1, <1>3, FS_MajoritiesIntersect
<1> QED BY <1>4

\* A term has at most one leader (become_leader, raft/node.rs), for any number
\* of members, terms and calls in flight, when no reply is handled in a later
\* term than it was asked in.
THEOREM OneLeaderPerTerm ==
  ASSUME LateReplies = FALSE
  PROVE  Spec => []ElectionSafety
<1>1. Inv => ElectionSafety
  <2> SUFFICES ASSUME Inv, NEW n \in Node, NEW m \in Node,
                      Leads(n), Leads(m), node[n].term = node[m].term
               PROVE  n = m
    BY DEF ElectionSafety
  <2>1. /\ node[n].votes \subseteq Node /\ Cardinality(node[n].votes) >= majority
        /\ node[m].votes \subseteq Node /\ Cardinality(node[m].votes) >= majority
    BY DEF Inv, Typed, IsNode, ElectionInv
  <2>2. PICK v \in Node : v \in node[n].votes /\ v \in node[m].votes
    BY <2>1, MajoritiesMeet
  <2>3. Backed(v, n) /\ Backed(v, m)
    BY <2>2 DEF Backed, Leads
  <2> QED BY <2>3 DEF Inv, ElectionInv
<1> QED BY <1>1, ElectionInvariant, PTL
=============================================================================
