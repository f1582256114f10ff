------------------------------ MODULE Cluster ------------------------------
(***************************************************************************)
(* Storage hosts, one partition of one space, and its migration            *)
(* (byoridb-meta/src/service/{host,partition,space}.rs, rebalancer.rs,     *)
(* storage_client.rs, failure_detector.rs; byoridb-storage/src/            *)
(* {partition,heartbeat,rpc}.rs).                                          *)
(*                                                                         *)
(* Hosts register with heartbeats and are forgotten after host_timeout.    *)
(* CREATE SPACE places the partition on the ring of the active hosts; a    *)
(* host that joins or leaves the ring yields migration tasks, which the    *)
(* rebalancer runs one at a time and in order: mark the source, stream     *)
(* from it to the target, move the ownership, update the metadata.  Nodes  *)
(* crash and come back without their partition table.                      *)
(*                                                                         *)
(* Only migrations write the partition tables of the nodes: creating a     *)
(* space writes the metadata alone.  A migration moves no record: the      *)
(* source scans the keys that begin with p{part}:s{space}:, and the keys   *)
(* of vertices, edges and indexes do not.  The stream is therefore one     *)
(* last chunk without keys, and what the records of a partition do while   *)
(* it moves (they stay where they were written) is in module Distributed.  *)
(*                                                                         *)
(* For one partition the ring is the order in which its point meets the    *)
(* hosts (module Placement has the ring itself).                           *)
(***************************************************************************)
EXTENDS Naturals, Sequences, FiniteSets, SequencesExt

CONSTANTS Prefer,        \* the hosts in the order the partition's point meets them
          replica_factor,
          host_timeout,  \* ticks
          min_healthy_nodes,
          Localhost,     \* the host a ring without hosts names
          MaxFaults,     \* crashes, failed calls and lost heartbeats
          MaxChanges     \* changes of the ring, and the drop of the space

Nodes == {Prefer[i] : i \in 1 .. Len(Prefer)}

VARIABLES
  up,        \* the nodes that run
  sender,    \* sender[n]: the heartbeat task of n: "starting", "running", "gone"
  sent,      \* the senders that sent since the last tick
  hosts,     \* storage_hosts: the age of the last heartbeat and the tracked partition
  space,     \* "none", "live" or "dropped" (another space gets another id)
  ring,      \* the hosts in its ring
  alloc,     \* part_allocations: the hosts of the partition, in order
  status,    \* status[n]: the partition in n's PartitionManager
  plan,      \* migrations not begun
  mig,       \* the migration that runs, or Nothing
  faults, changes,
  astray     \* the nodes of the migrations that failed, until another one of theirs ends

metaVars == <<hosts, space, ring, alloc>>
nodeVars == <<up, sender, sent, status>>
vars == <<metaVars, nodeVars, plan, mig, faults, changes, astray>>

P == INSTANCE Placement

Nothing == [pc |-> "none"]
Unknown == [age |-> host_timeout, parts |-> FALSE, known |-> FALSE]
Known == {n \in Nodes : hosts[n].known}

get_active_storage_hosts == {n \in Known : hosts[n].age < host_timeout}
get_all_storage_hosts == Known
list_hosts_with_counts ==
  [n \in Known |-> [online |-> hosts[n].age < host_timeout,
                    leaders |-> IF alloc # <<>> /\ alloc[1] = n THEN 1 ELSE 0,
                    parts |-> IF hosts[n].parts THEN 1 ELSE 0]]
get_host_partitions(table, n) == table[n].known /\ table[n].parts

(* The first replica_factor hosts of a ring that the point meets; without  *)
(* hosts the local one.                                                    *)
Assigned(nodes) ==
  LET met == SelectSeq(Prefer, LAMBDA n : n \in nodes)
  IN  IF met = <<>> THEN <<Localhost>>
      ELSE SubSeq(met, 1, IF Len(met) < replica_factor THEN Len(met) ELSE replica_factor)

Fault == faults < MaxFaults /\ faults' = faults + 1

-----------------------------------------------------------------------------
(* Hosts and heartbeats.                                                   *)

(* A node's heartbeat task begins with a connection to the meta service;   *)
(* when that fails it ends, and the node never registers.                  *)
Connect(n) ==
  /\ n \in up /\ sender[n] = "starting"
  /\ \/ sender' = [sender EXCEPT ![n] = "running"] /\ UNCHANGED faults
     \/ Fault /\ sender' = [sender EXCEPT ![n] = "gone"]
  /\ UNCHANGED <<metaVars, up, sent, status, plan, mig, changes, astray>>

handle_heartbeat(table, n) == [table EXCEPT ![n] = [age |-> 0, parts |-> @.known /\ @.parts, known |-> TRUE]]

(* A heartbeat that fails is sent again at the next interval.              *)
Heartbeat(n) ==
  /\ n \in up /\ sender[n] = "running" /\ n \notin sent
  /\ sent' = sent \cup {n}
  /\ \/ hosts' = handle_heartbeat(hosts, n) /\ UNCHANGED faults
     \/ Fault /\ UNCHANGED hosts
  /\ UNCHANGED <<space, ring, alloc, up, sender, status, plan, mig, changes, astray>>

(* An interval passes; every running sender has sent its heartbeat.        *)
Tick ==
  /\ \A n \in up : sender[n] = "running" => n \in sent
  /\ sent' = {}
  /\ hosts' = [n \in Nodes |-> [hosts[n] EXCEPT !.age = IF @ = host_timeout THEN @ ELSE @ + 1]]
  /\ UNCHANGED <<space, ring, alloc, up, sender, status, plan, mig, faults, changes, astray>>

Crash(n) ==
  /\ n \in up /\ Fault /\ up' = up \ {n}
  /\ status' = [status EXCEPT ![n] = "NotOwned"] /\ sender' = [sender EXCEPT ![n] = "gone"]
  /\ sent' = sent \ {n}
  /\ UNCHANGED <<metaVars, plan, mig, changes, astray>>

Restart(n) ==
  /\ n \notin up /\ up' = up \cup {n} /\ sender' = [sender EXCEPT ![n] = "starting"]
  /\ UNCHANGED <<metaVars, sent, status, plan, mig, faults, changes, astray>>

-----------------------------------------------------------------------------
(* The space and its ring.                                                 *)

create_space ==
  /\ space = "none" /\ space' = "live"
  /\ ring' = get_active_storage_hosts /\ alloc' = Assigned(ring')
  /\ hosts' = [n \in Nodes |-> [hosts[n] EXCEPT !.parts = @ \/ (hosts[n].known /\ n \in ToSet(alloc'))]]
  /\ UNCHANGED <<nodeVars, plan, mig, faults, changes, astray>>

(* The tracked partitions of the hosts stay; so do the nodes' own tables,  *)
(* and the migrations that were planned go on.                             *)
drop_space ==
  /\ space = "live" /\ changes < MaxChanges /\ changes' = changes + 1
  /\ space' = "dropped" /\ ring' = {} /\ alloc' = <<>>
  /\ UNCHANGED <<hosts, nodeVars, plan, mig, faults, astray>>

(* The allocation becomes the new ring's before any migration has run.     *)
ChangeRing(nodes) ==
  /\ space = "live" /\ changes < MaxChanges /\ changes' = changes + 1
  /\ ring' = nodes /\ alloc' = Assigned(nodes)
  /\ LET old == Assigned(ring)
         new == Assigned(nodes)
     IN  \E first \in P!FirstNew(old, new) : plan' = plan \o P!PartMigrations(1, old, new, first)
  /\ UNCHANGED <<hosts, space, nodeVars, mig, faults, astray>>

add_node_to_rings(n) == n \notin ring /\ ChangeRing(ring \cup {n})
remove_node_from_rings(n) == n \in ring /\ ChangeRing(ring \ {n})

-----------------------------------------------------------------------------
(* execute_rebalance: one migration after another.                         *)

migStep == <<hosts, space, ring, up, sender, sent, changes>>

BeginMigration ==
  /\ mig = Nothing /\ plan # <<>> /\ plan' = Tail(plan)
  /\ mig' = [pc |-> "mark", from |-> Head(plan).from, to |-> Head(plan).to, whole |-> TRUE, hosts |-> <<>>]
  /\ UNCHANGED <<migStep, alloc, status, faults, astray>>

(* The migration fails: it leaves everything as it is.                     *)
GiveUp == mig' = Nothing /\ astray' = astray \cup (Nodes \cap {mig.from, mig.to})

(* A call to a node fails, because it does not run (no node has the        *)
(* address of the local host) or for another reason.                       *)
Fails(n) ==
  /\ (n \notin up /\ UNCHANGED faults) \/ Fault
  /\ GiveUp /\ UNCHANGED <<migStep, alloc, status, plan>>

(* A call is answered, and the migration goes on at pc.                    *)
Step(pc) == mig' = [mig EXCEPT !.pc = pc] /\ UNCHANGED <<migStep, alloc, plan, faults, astray>>

(* The table of a node that is told the status of the partition, which it  *)
(* takes up when it did not have it (update_partition_ownership).          *)
Owns(n, s) == status' = [status EXCEPT ![n] = s]

MarkSource ==
  /\ mig.pc = "mark"
  /\ \/ {mig.from, mig.to} \subseteq up /\ Owns(mig.from, "Transferring") /\ Step("stream")
     \/ Fails(mig.from) \/ Fails(mig.to)

(* The source answers with a stream, if it still knows the partition.      *)
get_partition_data ==
  /\ mig.pc = "stream"
  /\ \/ mig.from \in up /\ status[mig.from] # "NotOwned" /\ Step("copy") /\ UNCHANGED status
     \/ Fails(mig.from)
     \/ /\ mig.from \in up /\ status[mig.from] = "NotOwned"
        /\ GiveUp /\ UNCHANGED <<migStep, alloc, status, plan, faults>>

(* An error of the source's stream ends the forwarding, and with it the    *)
(* stream the target reads, as if it were complete.                        *)
SourceBreaks ==
  /\ mig.pc = "copy" /\ mig.whole
  /\ (mig.from \notin up /\ UNCHANGED faults) \/ Fault
  /\ mig' = [mig EXCEPT !.whole = FALSE]
  /\ UNCHANGED <<migStep, alloc, status, plan, astray>>

(* The end of the stream: the target takes up the partition its chunks     *)
(* named.  Without a chunk that is partition 0 of space 0.                 *)
transfer_partition ==
  /\ mig.pc = "copy"
  /\ \/ /\ mig.to \in up /\ Step("lead")
        /\ IF mig.whole THEN Owns(mig.to, "Follower") ELSE UNCHANGED status
     \/ Fails(mig.to)

(* A chunk the target cannot read or store is answered ETransferFailed.    *)
TransferFails ==
  /\ mig.pc = "copy" /\ mig.to \in up /\ Fault
  /\ mig' = [mig EXCEPT !.pc = "rollback"]
  /\ UNCHANGED <<migStep, alloc, status, plan, astray>>

RollBack ==
  /\ mig.pc = "rollback"
  /\ \/ /\ mig.from \in up /\ Owns(mig.from, "Leader")
        /\ GiveUp /\ UNCHANGED <<migStep, alloc, plan, faults>>
     \/ Fails(mig.from)

(* The ownership of the target, then the source's.  (LeadLess: the target  *)
(* stays a follower.)                                                      *)
LeadLess == mig.pc = "lead" /\ mig.to \in up /\ Step("release") /\ UNCHANGED status
LeadTarget ==
  /\ mig.pc = "lead"
  /\ (mig.to \in up /\ Owns(mig.to, "Leader") /\ Step("release")) \/ Fails(mig.to)

ReleaseSource ==
  /\ mig.pc = "release"
  /\ (mig.from \in up /\ Owns(mig.from, "NotOwned") /\ Step("read")) \/ Fails(mig.from)

(* The hosts are read and written back in two accesses to the metadata; a  *)
(* space without allocation is left alone.                                 *)
get_part_hosts ==
  /\ mig.pc = "read" /\ UNCHANGED <<migStep, alloc, status, plan, faults>>
  /\ \/ alloc # <<>> /\ mig' = [mig EXCEPT !.pc = "write", !.hosts = alloc] /\ UNCHANGED astray
     \/ alloc = <<>> /\ mig' = Nothing /\ astray' = astray \ {mig.from, mig.to}

update_part_allocation ==
  /\ mig.pc = "write" /\ alloc' = P!MovedHosts(mig.hosts, mig) /\ mig' = Nothing
  /\ astray' = astray \ {mig.from, mig.to}
  /\ UNCHANGED <<migStep, status, plan, faults>>

Migrate ==
  \/ BeginMigration \/ MarkSource \/ get_partition_data \/ SourceBreaks
  \/ transfer_partition \/ TransferFails \/ RollBack \/ LeadTarget \/ ReleaseSource
  \/ get_part_hosts \/ update_part_allocation

-----------------------------------------------------------------------------
(* The failure detector: stale hosts leave the registry; the partitions    *)
(* that are looked up for them afterwards go to the first healthy host.    *)
cleanup_stale_hosts == {n \in Known : hosts[n].age >= host_timeout}

(* The order in which the registry lists the healthy hosts is its own.     *)
check_and_recover ==
  /\ cleanup_stale_hosts # {}
  /\ LET removed == cleanup_stale_hosts
         after == [n \in Nodes |-> IF n \in removed THEN Unknown ELSE hosts[n]]
         healthy == get_active_storage_hosts
         affected == {n \in removed : get_host_partitions(after, n)}
     IN  /\ hosts' = after
         /\ IF Cardinality(healthy) < min_healthy_nodes \/ affected = {} \/ healthy = {}
            THEN UNCHANGED <<alloc, status>>
            ELSE \E target \in healthy, failed \in affected :
                   /\ alloc' = P!MovedHosts(alloc, [from |-> failed, to |-> target])
                   /\ status' = IF target \in up THEN [status EXCEPT ![target] = "Leader"] ELSE status
  /\ UNCHANGED <<space, ring, up, sender, sent, plan, mig, faults, changes, astray>>

-----------------------------------------------------------------------------
(* Some hosts are registered; some of the faults and changes are used up.  *)
InitWith(registered, spentFaults, spentChanges) ==
  /\ up = Nodes /\ sent = {}
  /\ sender = [n \in Nodes |-> IF n \in registered THEN "running" ELSE "starting"]
  /\ hosts = [n \in Nodes |-> IF n \in registered THEN [Unknown EXCEPT !.age = 0, !.known = TRUE] ELSE Unknown]
  /\ space = "none" /\ ring = {} /\ alloc = <<>>
  /\ status = [n \in Nodes |-> "NotOwned"]
  /\ plan = <<>> /\ mig = Nothing /\ faults = spentFaults /\ changes = spentChanges /\ astray = {}
Init == InitWith({}, 0, 0)

Topology ==
  \/ \E n \in Nodes : Crash(n) \/ Restart(n) \/ add_node_to_rings(n) \/ remove_node_from_rings(n)
  \/ create_space \/ drop_space \/ Migrate

Registry == Tick \/ check_and_recover \/ \E n \in Nodes : Connect(n) \/ Heartbeat(n)

Next == Topology \/ Registry

(* Timers fire and calls return.                                           *)
Fairness ==
  /\ WF_vars(Tick) /\ WF_vars(check_and_recover) /\ WF_vars(Migrate)
  /\ \A n \in Nodes : WF_vars(Connect(n)) /\ WF_vars(Heartbeat(n))

Spec == Init /\ [][Next]_vars /\ Fairness

-----------------------------------------------------------------------------
TypeOK ==
  /\ up \subseteq Nodes /\ ring \subseteq Nodes /\ astray \subseteq Nodes
  /\ alloc \in Seq(Nodes \cup {Localhost}) /\ (space = "live" => alloc # <<>>)
  /\ sender \in [Nodes -> {"starting", "running", "gone"}]
  /\ \A n \in Nodes : hosts[n].age \in 0 .. host_timeout
  /\ status \in [Nodes -> {"Leader", "Follower", "NotOwned", "Transferring"}]
  /\ faults \in 0 .. MaxFaults /\ changes \in 0 .. MaxChanges

Leaders == {n \in Nodes : status[n] = "Leader"}
Moving == IF mig = Nothing THEN {} ELSE {mig.from, mig.to}

(* Whatever calls fail and whichever nodes crash, a partition's owners go  *)
(* astray only where a migration failed: of the other nodes one leads at   *)
(* most, and one that has the partition leads it and is listed by the      *)
(* metadata, or is about to hand it on (migrate_partition).  So neither a  *)
(* source that crashes in mid-stream and is back, nor a target that does,  *)
(* nor a stream that breaks, leaves a second leader or a partition without *)
(* its leader's entry.  This is for one replica: with more, the target of  *)
(* a secondary replica is made a leader too.                               *)
OwnersKnown ==
  space = "live" /\ replica_factor = 1 =>
    /\ Cardinality(Leaders \ astray) <= 1
    /\ \A n \in Nodes \ (astray \cup Moving) :
         status[n] # "NotOwned" =>
           /\ status[n] = "Leader"
           /\ n \in ToSet(alloc) \/ \E i \in DOMAIN plan : plan[i].from = n

(* Once all migrations have ended, the leader is the one host the metadata *)
(* lists, and SHOW HOSTS counts it where it is, however changes of the     *)
(* ring interleaved with the updates of the metadata.                      *)
LeaderListed ==
  space = "live" /\ replica_factor = 1 /\ mig = Nothing /\ plan = <<>> /\ astray = {} =>
    \A n \in Leaders :
      /\ ToSet(alloc) = {n}
      /\ \A h \in get_all_storage_hosts : (list_hosts_with_counts[h].leaders = 1) <=> h = n

(* A node that runs with a connected sender is registered again and again; *)
(* a host that stays down leaves the registry.                             *)
RegistryFollows ==
  \A n \in Nodes : /\ <>[](n \notin up) => <>[](~hosts[n].known)
                   /\ []<>(n \notin up \/ sender[n] # "running" \/ n \in get_active_storage_hosts)

(* A rebalance ends: no migration runs for ever, whatever nodes crash.     *)
RebalanceEnds == []<>(mig = Nothing)
=============================================================================
