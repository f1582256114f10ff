-------------------------------- MODULE Raft --------------------------------
(***************************************************************************)
(* One Raft group (storage/raft/node.rs) with its driver and transport     *)
(* (driver.rs, network.rs, mod.rs): every node ticks, sends its requests   *)
(* in tasks of their own, and handles requests and replies one at a time   *)
(* under the lock of the group.  Calls may be delayed, overtake each other *)
(* and fail.                                                               *)
(*                                                                         *)
(* A node is a record; a handler is an operator from the node and the      *)
(* message to the node it leaves.  The voters do not change: the driver    *)
(* never calls apply_config_change, and no caller sends a snapshot.        *)
(***************************************************************************)
EXTENDS Integers, Sequences, FiniteSets, SequencesExt

CONSTANTS
  Node,
  MaxTerm,      \* bound: elections
  MaxLog,       \* bound: entries of a log
  MaxFlight,    \* bound: calls in flight
  MaxEntries,   \* max_entries_per_request
  LateReplies   \* a reply may arrive after its caller has moved to another term

ASSUME RaftAssumption ==
  /\ IsFiniteSet(Node) /\ "none" \notin Node
  /\ {MaxTerm, MaxLog, MaxFlight, MaxEntries} \subseteq Nat \ {0}
  /\ LateReplies \in BOOLEAN

-----------------------------------------------------------------------------
(* The log of a group (storage/raft/log.rs) as a value and the methods of *)
(* RaftLog as operators on it.  Entries before `first` have been compacted *)
(* away; `snap` is the term of the last of them.                           *)

EmptyLog == [first |-> 1, snap |-> 0, entries |-> <<>>]

last_index(log) == log.first + Len(log.entries) - 1

last_term(log) ==
  IF log.entries = <<>> THEN log.snap ELSE log.entries[Len(log.entries)].term

\* get(index) is Some, and what it is.
Has(log, i) == i >= log.first /\ i <= last_index(log)
Get(log, i) == log.entries[i - log.first + 1]

\* term(index) is Some, and what it is.
HasTerm(log, i) == i = 0 \/ i = log.first - 1 \/ Has(log, i)
TermAt(log, i) ==
  IF i = 0 THEN 0 ELSE IF i < log.first THEN log.snap ELSE Get(log, i).term

append(log, entries) == [log EXCEPT !.entries = @ \o entries]

append_entry(log, term, command) ==
  append(log, <<[term |-> term, index |-> last_index(log) + 1, command |-> command]>>)

\* Entries from from_index on are dropped.
truncate(log, from) ==
  IF from <= log.first THEN [log EXCEPT !.entries = <<>>]
  ELSE IF from <= last_index(log)
       THEN [log EXCEPT !.entries = SubSeq(@, 1, from - log.first)]
       ELSE log

\* Entries start <= i < end.
entries_range(log, start, end) ==
  SelectSeq(log.entries, LAMBDA e : start <= e.index /\ e.index < end)

is_up_to_date(log, index, term) ==
  IF term # last_term(log) THEN term > last_term(log) ELSE index >= last_index(log)

-----------------------------------------------------------------------------
None == "none"
Noop == "noop"
Put == "put"

VARIABLES
  node,   \* RaftNode of every member
  rpcs    \* requests and replies in flight

vars == <<node, rpcs>>

Peers(n) == Node \ {n}
majority == Cardinality(Node) \div 2 + 1

Entry == [term : 1..MaxTerm, index : 1..MaxLog, command : {Noop, Put}]
NoPeers == [m \in {} |-> 0]   \* no LeaderState

NewNode ==
  [role |-> "Follower", term |-> 0, vote |-> None, commit |-> 0, applied |-> 0,
   log |-> EmptyLog, votes |-> {}, next |-> NoPeers, match |-> NoPeers]

Init ==
  /\ node = [n \in Node |-> NewNode]
  /\ rpcs = {}

-----------------------------------------------------------------------------
(* The state machine of a node.                                            *)

\* votes_received is read only by a candidate and cleared when it becomes one;
\* here a follower drops it too.
become_follower(s, term) ==
  [s EXCEPT !.role = "Follower", !.term = term, !.vote = None, !.votes = {},
            !.next = NoPeers, !.match = NoPeers]

become_candidate(s, n) ==
  [s EXCEPT !.role = "Candidate", !.term = @ + 1, !.vote = n, !.votes = {n},
            !.next = NoPeers, !.match = NoPeers]

become_leader(s, n) ==
  [s EXCEPT !.role = "Leader",
            !.next = [m \in Peers(n) |-> last_index(s.log) + 1],
            !.match = [m \in Peers(n) |-> 0],
            !.log = append_entry(s.log, s.term, Noop)]

\* Mutant: the term of any message is taken over.
CatchUpAlways(s, term) == IF term # s.term THEN become_follower(s, term) ELSE s

\* The first thing every handler does with a newer term.
CatchUp(s, term) == IF term > s.term THEN become_follower(s, term) ELSE s

\* Mutant: an earlier vote of the term is forgotten.
GrantsAgain(s, req) ==
  req.term >= s.term /\ is_up_to_date(s.log, req.lastIndex, req.lastTerm)

Grants(s, req) ==
  /\ req.term >= s.term
  /\ s.vote \in {None, req.from}
  /\ is_up_to_date(s.log, req.lastIndex, req.lastTerm)

handle_request_vote(s, req) ==
  LET t == CatchUp(s, req.term)
  IN  IF Grants(t, req) THEN [t EXCEPT !.vote = req.from] ELSE t

Tally(s, reply) ==
  IF reply.granted THEN s.votes \cup {reply.from} ELSE s.votes \ {reply.from}

handle_request_vote_response(s, n, reply) ==
  IF s.role # "Candidate" THEN s
  ELSE IF reply.term > s.term THEN become_follower(s, reply.term)
  ELSE LET t == [s EXCEPT !.votes = Tally(s, reply)]
       IN  IF Cardinality(t.votes) >= majority THEN become_leader(t, n) ELSE t

\* Drops the log from the first conflicting entry on, then appends the rest.
Merge(log, entries) ==
  LET conflicts == {e \in Range(entries) : Has(log, e.index) /\ Get(log, e.index).term # e.term}
      kept == IF conflicts = {} THEN log
              ELSE truncate(log, Min({e.index : e \in conflicts}))
  IN  append(kept, SelectSeq(entries, LAMBDA e : e.index > last_index(kept)))

Accepted(s, req) ==
  LET log == Merge(s.log, req.entries)
  IN  [s EXCEPT !.log = log,
                !.commit = IF req.commit > @ THEN Min({req.commit, last_index(log)}) ELSE @]

\* The log has another entry at prev_log_index than the leader's.
Diverges(log, req) == req.prev > 0 /\ TermAt(log, req.prev) # req.prevTerm

\* handle_append_entries: the node it leaves, and success and match_index.
handle_append_entries(s, req) ==
  LET t == CatchUp(s, req.term)
      u == IF t.role = "Candidate" THEN become_follower(t, req.term) ELSE t
      Answer(v, ok, index) == [node |-> v, success |-> ok, match |-> index]
  IN  CASE req.term < t.term -> Answer(t, FALSE, 0)
        [] req.term >= t.term /\ ~HasTerm(u.log, req.prev) ->
             Answer(u, FALSE, last_index(u.log))
        [] req.term >= t.term /\ HasTerm(u.log, req.prev) /\ Diverges(u.log, req) ->
             LET v == [u EXCEPT !.log = truncate(@, req.prev)]
             IN  Answer(v, FALSE, last_index(v.log))
        [] OTHER ->
             LET v == Accepted(u, req) IN Answer(v, TRUE, last_index(v.log))

\* The highest index that the leader knows on a majority.
MajorityIndex(s) ==
  LET indices == Range(s.match) \cup {last_index(s.log)}
      Reached(i) == Cardinality({m \in DOMAIN s.match : s.match[m] >= i})
                      + (IF last_index(s.log) >= i THEN 1 ELSE 0)
  IN  Max({i \in indices : Reached(i) >= majority})

\* Mutant: an entry of an older term is committed by counting.
CommittableOld(s, i) == i > s.commit /\ HasTerm(s.log, i)

\* Only an entry of the leader's own term is committed by counting.
Committable(s, i) == i > s.commit /\ HasTerm(s.log, i) /\ TermAt(s.log, i) = s.term

try_advance_commit_index(s) ==
  IF Committable(s, MajorityIndex(s)) THEN [s EXCEPT !.commit = MajorityIndex(s)] ELSE s

handle_append_entries_response(s, reply) ==
  IF s.role # "Leader" THEN s
  ELSE IF reply.term > s.term THEN become_follower(s, reply.term)
  ELSE IF reply.success
       THEN try_advance_commit_index(
              [s EXCEPT !.match[reply.from] = reply.match, !.next[reply.from] = reply.match + 1])
       ELSE [s EXCEPT !.next[reply.from] = Max({@ - 1, 1})]

\* generate_append_entries, for one peer.
AppendRequest(n, m) ==
  LET s == node[n]
      prev == s.next[m] - 1
  IN  [kind |-> "append", from |-> n, to |-> m, term |-> s.term, prev |-> prev,
       prevTerm |-> IF HasTerm(s.log, prev) THEN TermAt(s.log, prev) ELSE 0,
       entries |-> entries_range(s.log, s.next[m], s.next[m] + MaxEntries),
       commit |-> s.commit]

VoteRequest(n, m) ==
  [kind |-> "vote", from |-> n, to |-> m, term |-> node[n].term + 1,
   lastIndex |-> last_index(node[n].log), lastTerm |-> last_term(node[n].log)]

-----------------------------------------------------------------------------
(* Ticks, proposals and the transport.                                     *)

IsRequest(c) == c.kind \in {"vote", "append"}

\* The role in which a node looks at a reply.
Caller(reply) == IF reply.kind = "voted" THEN "Candidate" ELSE "Leader"

\* The calls left after a step.  A reply whose caller has moved to another term
\* is delivered all the same; LateReplies = FALSE assumes that it never comes.
\* What its caller would ignore from now on is then as good as lost.
Flight(calls) ==
  /\ rpcs' = {c \in calls :
                \/ LateReplies
                \/ IsRequest(c)
                \/ c.asked = node'[c.to].term /\ node'[c.to].role = Caller(c)}
  /\ Cardinality(rpcs') <= MaxFlight

\* Some of the calls of a round may fail at once.
Send(calls) == \E sent \in SUBSET calls \ {{}} : Flight(rpcs \cup sent)

\* A call is answered: the request gives way to the reply.
Answer(req, reply) == Flight((rpcs \ {req}) \cup {reply})

\* tick of a follower or candidate whose election timeout has elapsed.
Timeout(n) ==
  /\ node[n].role # "Leader" /\ node[n].term < MaxTerm
  /\ node' = [node EXCEPT ![n] = become_candidate(@, n)]
  /\ Send({VoteRequest(n, m) : m \in Peers(n)})

\* tick of a leader that has peers.
Heartbeat(n) ==
  /\ node[n].role = "Leader"
  /\ Peers(n) # {}
  /\ UNCHANGED node
  /\ Send({AppendRequest(n, m) : m \in Peers(n)})

\* Any other tick: committed entries go to the state machine.
Apply(n) ==
  /\ node[n].role = "Leader" => Peers(n) = {}
  /\ node[n].applied < node[n].commit
  /\ node' = [node EXCEPT ![n].applied = node[n].commit]
  /\ UNCHANGED rpcs

propose(n) ==
  /\ node[n].role = "Leader"
  /\ last_index(node[n].log) < MaxLog
  /\ node' = [node EXCEPT ![n].log = append_entry(@, node[n].term, Put)]
  /\ UNCHANGED rpcs

ReceiveVoteRequest(req) ==
  LET s == handle_request_vote(node[req.to], req)
      granted == Grants(CatchUp(node[req.to], req.term), req)
  IN  /\ req.kind = "vote"
      /\ node' = [node EXCEPT ![req.to] = s]
      /\ Answer(req, [kind |-> "voted", from |-> req.to, to |-> req.from,
                      asked |-> req.term, term |-> s.term, granted |-> granted])

ReceiveAppend(req) ==
  LET r == handle_append_entries(node[req.to], req)
  IN  /\ req.kind = "append"
      /\ node' = [node EXCEPT ![req.to] = r.node]
      /\ Answer(req, [kind |-> "appended", from |-> req.to, to |-> req.from,
                      asked |-> req.term, term |-> r.node.term,
                      success |-> r.success, match |-> r.match])

ReceiveVote(reply) ==
  LET s == handle_request_vote_response(node[reply.to], reply.to, reply)
  IN  /\ reply.kind = "voted"
      /\ last_index(s.log) <= MaxLog
      /\ node' = [node EXCEPT ![reply.to] = s]
      /\ Flight(rpcs \ {reply})

ReceiveAppended(reply) ==
  /\ reply.kind = "appended"
  /\ node' = [node EXCEPT ![reply.to] = handle_append_entries_response(@, reply)]
  /\ Flight(rpcs \ {reply})

\* The call fails, before or after the peer has handled it.
Lose(call) ==
  /\ rpcs' = rpcs \ {call}
  /\ UNCHANGED node

\* RaftNode::new is all a restarted process has: RaftStorage is not used.  The
\* calls it had made are gone.
Restart(n) ==
  /\ node' = [node EXCEPT ![n] = NewNode]
  /\ rpcs' = {c \in rpcs : IF IsRequest(c) THEN c.from # n ELSE c.to # n}

Next ==
  \/ \E n \in Node : Timeout(n)
  \/ \E n \in Node : Heartbeat(n)
  \/ \E n \in Node : propose(n)
  \/ \E c \in rpcs : ReceiveVoteRequest(c)
  \/ \E c \in rpcs : ReceiveAppend(c)
  \/ \E c \in rpcs : ReceiveVote(c)
  \/ \E c \in rpcs : ReceiveAppended(c)
  \/ \E c \in rpcs : Lose(c)

\* Nothing else reads last_applied: safety is checked without Apply.
Spec == Init /\ [][Next]_vars

RestartSpec == Init /\ [][Next \/ \E n \in Node : Restart(n)]_vars

\* The driver ticks every node for ever, and every call ends.
Deliver ==
  \E c \in rpcs :
    ReceiveVoteRequest(c) \/ ReceiveAppend(c) \/ ReceiveVote(c) \/ ReceiveAppended(c) \/ Lose(c)

FairSpec ==
  /\ Init /\ [][Next \/ \E n \in Node : Apply(n)]_vars
  /\ \A n \in Node : WF_vars(Heartbeat(n) \/ Apply(n))
  /\ WF_vars(Deliver)

-----------------------------------------------------------------------------

TypeOK ==
  \A n \in Node :
    LET s == node[n]
    IN  /\ s.role \in {"Follower", "Candidate", "Leader"}
        /\ s.term \in 0..MaxTerm
        /\ s.vote \in Node \cup {None}
        /\ s.votes \subseteq Node
        /\ s.commit \in 0..last_index(s.log)
        /\ s.log.first = 1 /\ s.log.snap = 0
        /\ s.log.entries \in Seq(Entry)
        /\ \A i \in DOMAIN s.log.entries : Get(s.log, i).index = i
        /\ DOMAIN s.next = IF s.role = "Leader" THEN Peers(n) ELSE {}
        /\ DOMAIN s.match = DOMAIN s.next

Leads(n) == node[n].role = "Leader"

\* A term has at most one leader, though a candidate that steps down in its
\* own term forgets its vote.
ElectionSafety ==
  \A n, m \in Node : Leads(n) /\ Leads(m) /\ node[n].term = node[m].term => n = m

\* Why: n holds the vote of v, or it is on its way.
Backed(v, n) ==
  \/ node[n].role \in {"Candidate", "Leader"} /\ v \in node[n].votes
  \/ \E c \in rpcs : c.kind = "voted" /\ c.from = v /\ c.to = n /\ c.granted

\* Who has left its vote of a term behind is in a later term; who forgets it in
\* the term was a candidate, whose own vote goes with its candidature.
VoteKept(v, n) ==
  node[v].term > node[n].term \/ (node[v].term = node[n].term /\ node[v].vote = n)

ElectionInv ==
  /\ \A n \in Node : node[n].role \in {"Candidate", "Leader"} => node[n].vote = n
  /\ \A n \in Node : Leads(n) => Cardinality(node[n].votes) >= majority
  /\ \A c \in rpcs :
       c.kind = "voted" => c.asked = node[c.to].term /\ node[c.to].role = "Candidate"
  /\ \A v, n \in Node : Backed(v, n) => VoteKept(v, n)
  /\ \A v, n, m \in Node :
       Backed(v, n) /\ Backed(v, m) /\ node[n].term = node[m].term => n = m

\* Two logs that have an entry of the same term at an index are the same up
\* to there.
LogMatching ==
  \A n, m \in Node :
    LET a == node[n].log.entries
        b == node[m].log.entries
    IN  \A i \in DOMAIN a \cap DOMAIN b :
          a[i].term = b[i].term => SubSeq(a, 1, i) = SubSeq(b, 1, i)

\* What a node holds committed.
Committed(s) == SelectSeq(s.log.entries, LAMBDA e : e.index <= s.commit)

\* Of what two nodes hold committed, one is the beginning of the other.
CommittedAgree ==
  \A n, m \in Node :
    \/ IsPrefix(Committed(node[n]), Committed(node[m]))
    \/ IsPrefix(Committed(node[m]), Committed(node[n]))

\* A leader of the newest term has every entry that any node holds committed.
LeaderComplete ==
  \A n, m \in Node :
    Leads(n) /\ (\A k \in Node : node[k].term <= node[n].term) =>
      IsPrefix(Committed(node[m]), node[n].log.entries)

\* A node without an entry that some node holds committed has an older log
\* than so many members that it cannot be elected: a commit is not undone in
\* any later term.
ElectableComplete ==
  \A n, m \in Node :
    LET log == node[n].log
    IN  ~IsPrefix(Committed(node[m]), log.entries) =>
          Cardinality({v \in Node :
            is_up_to_date(node[v].log, last_index(log), last_term(log))}) < majority

\* An entry that a leader commits is in the logs of a majority.
CommitOnMajority ==
  \A n \in Node :
    Leads(n) /\ node[n].commit > 0 =>
      Cardinality({m \in Node : IsPrefix(Committed(node[n]), node[m].log.entries)}) >= majority

\* Terms never go back, and a committed entry is never removed or replaced.
NothingForgotten ==
  \A n \in Node :
    /\ node'[n].term >= node[n].term
    /\ IsPrefix(Committed(node[n]), node'[n].log.entries)
    /\ node'[n].commit >= node[n].commit

\* A leader hands what it has committed to its state machine, as its tick says.
LeaderApplies ==
  \A n \in Node :
    (Leads(n) /\ node[n].applied < node[n].commit)
      ~> (~Leads(n) \/ node[n].applied >= node[n].commit)
=============================================================================
