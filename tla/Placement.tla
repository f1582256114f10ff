----------------------------- MODULE Placement -----------------------------
(***************************************************************************)
(* Where a partition lives: the consistent hash ring and its migrations    *)
(* (byoridb-common/src/hash/consistent_ring.rs), the partition strategies  *)
(* (byoridb-common/src/partition.rs), the round-robin allocator            *)
(* (byoridb-meta/src/allocator.rs), the rebalancer's arithmetic and the    *)
(* split of a hot partition (rebalancer.rs, hotspot.rs), and the router of *)
(* the graph service (byoridb-graph/src/partition.rs).                     *)
(*                                                                         *)
(* A node, a partition and a position on the ring are given; the murmur    *)
(* hash is the function point (a node's virtual positions) and the         *)
(* function pos (a partition's position), with no two positions equal.     *)
(***************************************************************************)
EXTENDS Integers, Sequences, FiniteSets, SequencesExt, FiniteSetsExt, TLC

CONSTANTS Localhost  \* the address used when no host is registered

NoHost == ""
NoRoute == [none |-> TRUE]

-----------------------------------------------------------------------------
(* The ring: the points by position, and the nodes in the order they came. *)

EmptyRing == [at |-> << >>, nodes |-> << >>]

add_node(point, ring, n) ==
  IF n \in ToSet(ring.nodes) THEN ring
  ELSE [at |-> [p \in ToSet(point[n]) |-> n] @@ ring.at,
        nodes |-> Append(ring.nodes, n)]

remove_node(point, ring, n) ==
  IF n \notin ToSet(ring.nodes) THEN ring
  ELSE [at |-> [p \in DOMAIN ring.at \ ToSet(point[n]) |-> ring.at[p]],
        nodes |-> SelectSeq(ring.nodes, LAMBDA m : m # n)]

from_hosts(point, hosts) ==
  FoldLeft(LAMBDA r, n : add_node(point, r, n), EmptyRing, hosts)

(* The points met clockwise from p: those at or after p, then all of them. *)
Clockwise(ring, p) ==
  LET sorted(S) == SetToSortSeq(S, LAMBDA a, b : a < b)
  IN  sorted({q \in DOMAIN ring.at : q >= p}) \o sorted(DOMAIN ring.at)

get_node(ring, p) ==
  IF DOMAIN ring.at = {} THEN NoHost ELSE ring.at[Clockwise(ring, p)[1]]

(* The walk stops once it has enough nodes, after it has taken one: a     *)
(* count of zero still gives a node.                                      *)
get_nodes(ring, p, count) ==
  LET wanted == Min({count, Len(ring.nodes)})
      take(seen, q) ==
        IF seen # << >> /\ Len(seen) >= wanted THEN seen
        ELSE IF ring.at[q] \in ToSet(seen) THEN seen
        ELSE Append(seen, ring.at[q])
  IN  FoldLeft(take, << >>, Clockwise(ring, p))

ensure_assignments(ring, pos, replicas) ==
  [part \in DOMAIN pos |->
     IF ring.nodes = << >> THEN <<Localhost>>
     ELSE get_nodes(ring, pos[part], replicas)]

(* Of a removed replica's data the code sends everything to the first new *)
(* replica its hash set yields: any of them, the same for all.            *)
Task(part, from, to, primary) ==
  [part |-> part, from |-> from, to |-> to, primary |-> primary]

(* (PrimaryOnly: replicas are not moved.)                                 *)
PrimaryOnly(part, old, new, first) ==
  IF old[1] = new[1] THEN << >> ELSE <<Task(part, old[1], new[1], TRUE)>>
PartMigrations(part, old, new, first) ==
  LET oldReplicas == ToSet(Tail(old))
      newReplicas == ToSet(Tail(new))
  IN  (IF old[1] = new[1] THEN << >> ELSE <<Task(part, old[1], new[1], TRUE)>>)
      \o (IF newReplicas \subseteq oldReplicas THEN << >>
          ELSE SetToSeq({Task(part, gone, first, FALSE) :
                           gone \in oldReplicas \ newReplicas}))

(* The possible first new replicas of a partition.                        *)
FirstNew(old, new) ==
  LET added == ToSet(Tail(new)) \ ToSet(Tail(old))
  IN  IF added = {} THEN {Localhost} ELSE added

(* The lists of tasks the code may return for two assignments.            *)
compute_migrations(old, new) ==
  LET parts == SetToSortSeq(DOMAIN old, LAMBDA a, b : a < b)
      choices == {f \in [DOMAIN old -> UNION {FirstNew(old[q], new[q]) : q \in DOMAIN old}] :
                    \A q \in DOMAIN old : f[q] \in FirstNew(old[q], new[q])}
  IN  {FoldLeft(LAMBDA acc, q : acc \o PartMigrations(q, old[q], new[q], f[q]),
                << >>, parts) : f \in choices}

(* What a finished task does to a partition's hosts in the metadata.      *)
MovedHosts(hosts, task) ==
  Append(SelectSeq(hosts, LAMBDA n : n # task.from), task.to)

execute_rebalance_metadata_only(alloc, plan) ==
  FoldLeft(LAMBDA a, t : [a EXCEPT ![t.part] = MovedHosts(a[t.part], t)], alloc, plan)

-----------------------------------------------------------------------------
(* Partition strategies and the allocator.                                *)

(* murmur(vid) mod n + 1, with the hash given.                            *)
HashPartition(hash, vid, n) == (hash[vid] % n) + 1

RangePartition(boundaries, vid) ==
  LET above == {i \in DOMAIN boundaries : vid < boundaries[i]}
  IN  IF above = {} THEN Len(boundaries) + 1 ELSE Min(above)

(* The negation of the least integer wraps to itself and is then read as  *)
(* unsigned, which is its magnitude: for every vid the code takes |vid|.  *)
ModuloPartition(vid, n) == ((IF vid < 0 THEN -vid ELSE vid) % n) + 1

compute_partition(strategy, hash, vid, n) ==
  IF n = 0 THEN 1
  ELSE CASE strategy.type = "hash" -> HashPartition(hash, vid, n)
         [] strategy.type = "range" -> RangePartition(strategy.boundaries, vid)
         [] strategy.type = "modulo" -> ModuloPartition(vid, n)

validate(strategy, n) ==
  /\ n > 0
  /\ strategy.type = "range" =>
       /\ Len(strategy.boundaries) = n - 1
       /\ \A i \in 2 .. Len(strategy.boundaries) :
            strategy.boundaries[i - 1] < strategy.boundaries[i]

allocate(n, replicas, hosts) ==
  [part \in 1 .. n |->
     IF hosts = << >> THEN <<Localhost>>
     ELSE [i \in 1 .. Min({replicas, Len(hosts)}) |->
             hosts[((part - 1 + i - 1) % Len(hosts)) + 1]]]

(* The router: the partition of a vertex, its hosts, and its leader.      *)
route(info, hash, vid) ==
  LET part == compute_partition(info.strategy, hash, vid, info.partition_num)
  IN  IF part \notin DOMAIN info.part_hosts THEN NoRoute
      ELSE [part |-> part,
            leader |-> IF info.part_hosts[part] = << >> THEN NoHost
                       ELSE info.part_hosts[part][1],
            replicas |-> info.part_hosts[part]]

compute_partitions(hash, vids, n) ==
  [part \in {HashPartition(hash, v, n) : v \in ToSet(vids)} |->
     SelectSeq(vids, LAMBDA v : HashPartition(hash, v, n) = part)]

-----------------------------------------------------------------------------
(* Balance, hot partitions and their split.                               *)

HostCounts(alloc) ==
  [h \in UNION {ToSet(alloc[p]) : p \in DOMAIN alloc} |->
     MapThenSumSet(LAMBDA p : Cardinality({i \in DOMAIN alloc[p] : alloc[p][i] = h}),
                   DOMAIN alloc)]

(* The variance of the counts exceeds threshold, without division: with   *)
(* n hosts and total s, n^3 times the variance is the sum of (n*c - s)^2.  *)
should_rebalance(alloc, threshold) ==
  LET counts == HostCounts(alloc)
      n == Cardinality(DOMAIN counts)
      s == MapThenSumSet(LAMBDA h : counts[h], DOMAIN counts)
  IN  /\ n > 0
      /\ MapThenSumSet(LAMBDA h : (n * counts[h] - s) * (n * counts[h] - s), DOMAIN counts)
           > threshold * n * n * n

(* A partition is hot when its requests exceed multiplier times the mean. *)
detect_hotspots(count, multiplier) ==
  LET n == Cardinality(DOMAIN count)
      total == MapThenSumSet(LAMBDA p : count[p], DOMAIN count)
  IN  {p \in DOMAIN count : count[p] * n > total * multiplier}

(* Division of Rust: toward zero.                                         *)
Half(x) == IF x >= 0 THEN x \div 2 ELSE -((-x) \div 2)

suggest_split(boundaries, part, least, most) ==
  LET lower == IF part = 1 \/ part - 1 \notin DOMAIN boundaries THEN least
               ELSE boundaries[part - 1]
      upper == IF part \notin DOMAIN boundaries THEN most ELSE boundaries[part]
      width == most - least + 1
      wrapped(x) == ((x - least) % width) + least
  IN  CASE lower = least /\ upper = most -> 0
        [] lower = least /\ upper # most -> Half(upper)
        [] lower # least -> lower + Half(wrapped(upper - lower))

-----------------------------------------------------------------------------
(* What these algorithms promise.                                         *)

(* How far n is from p, clockwise on a ring of the given size.            *)
Distance(ring, n, p, size) ==
  Min({(q - p) % size : q \in {r \in DOMAIN ring.at : ring.at[r] = n}})

(* get_nodes returns the nearest distinct nodes clockwise, nearest first, *)
(* as many as asked for and no more than there are, and get_node the      *)
(* first of them.                                                         *)
NearestNodes(ring, p, count, size) ==
  LET found == get_nodes(ring, p, count)
      far(n) == Distance(ring, n, p, size)
  IN  /\ Len(found) = Min({count, Len(ring.nodes)})
      /\ get_node(ring, p) = IF found = << >> THEN NoHost ELSE found[1]
      /\ \A i, j \in DOMAIN found : i < j => far(found[i]) < far(found[j])
      /\ \A n \in ToSet(ring.nodes) \ ToSet(found), i \in DOMAIN found : far(found[i]) < far(n)

(* Adding a node changes a partition's hosts only by inserting that node  *)
(* (and dropping the last one): consistent hashing moves nothing else.    *)
OnlyTheNewcomerMoves(point, ring, n, pos, replicas) ==
  LET old == ensure_assignments(ring, pos, replicas)
      new == ensure_assignments(add_node(point, ring, n), pos, replicas)
  IN  ring.nodes # << >> /\ n \notin ToSet(ring.nodes) =>
        \A q \in DOMAIN pos : IsPrefix(SelectSeq(new[q], LAMBDA m : m # n), old[q])

(* Removing a node that was added leaves the ring as it was.              *)
LeaveUndoesJoin(point, ring, n) ==
  n \notin ToSet(ring.nodes) => remove_node(point, add_node(point, ring, n), n) = ring

(* The allocations after the tasks of a topology change, which are applied *)
(* to the allocation of the new ring: add_node_to_rings and                *)
(* remove_node_from_rings install it with the ring.                        *)
AllocationsAfter(old, new) ==
  {execute_rebalance_metadata_only(new, plan) : plan \in compute_migrations(old, new)}

(* A topology change names, for every partition, the hosts the new ring    *)
(* assigns to it, its primary first (a host may be listed twice).          *)
ReachesRing(old, new) ==
  \A after \in AllocationsAfter(old, new), q \in DOMAIN old :
    ToSet(after[q]) = ToSet(new[q]) /\ after[q][1] = new[q][1]

(* A topology change leaves every partition with hosts of the new ring     *)
(* only, and with one at least.  It may leave it with fewer than the ring  *)
(* assigns: a task takes its source out of the list although the new ring  *)
(* keeps it in another role, and no task puts it back.                     *)
StaysInRing(old, new) ==
  \A after \in AllocationsAfter(old, new), q \in DOMAIN old :
    after[q] # << >> /\ ToSet(after[q]) \subseteq ToSet(new[q])

(* A valid range strategy is a monotone map onto the partitions.          *)
RangesCover(strategy, hash, vids, n) ==
  strategy.type = "range" /\ validate(strategy, n) =>
    LET at(v) == compute_partition(strategy, hash, v, n)
    IN  /\ \A v, w \in vids : v <= w => at(v) <= at(w)
        /\ \A v \in vids : at(v) = 1 + Cardinality({i \in 1 .. n - 1 : strategy.boundaries[i] <= v})

(* Every vertex of a space with a valid strategy is routed to a partition *)
(* that has hosts, and its replicas are distinct.  A batch of vertices is *)
(* divided among the partitions the vertices are routed to one by one.    *)
EveryVertexRouted(strategy, hash, vids, n, replicas, hosts) ==
  validate(strategy, n) =>
    LET info == [strategy |-> strategy, partition_num |-> n,
                 part_hosts |-> allocate(n, replicas, hosts)]
    IN  \A v \in vids : /\ route(info, hash, v) # NoRoute
                        /\ route(info, hash, v).leader # NoHost
                        /\ IsInjective(route(info, hash, v).replicas)
                        /\ strategy.type = "hash" =>
                             \A part \in DOMAIN compute_partitions(hash, SetToSeq(vids), n) :
                               v \in ToSet(compute_partitions(hash, SetToSeq(vids), n)[part])
                                 <=> part = route(info, hash, v).part

(* A suggested split divides the hot partition into two halves and leaves  *)
(* the vertices of all others together.  This is about ranges of two or    *)
(* more vids whose width does not overflow; and the first range must reach *)
(* above zero, because half of a negative boundary is outside it.          *)
SplitsInside(strategy, vids, n, least, most) ==
  strategy.type = "range" /\ validate(strategy, n) =>
    \A part \in 1 .. n :
      LET b == strategy.boundaries
          lower == IF part = 1 THEN least ELSE b[part - 1]
          upper == IF part = n THEN most ELSE b[part]
          split == suggest_split(b, part, least, most)
          finer == InsertAt(b, part, split)
      IN  (IF part = 1 THEN upper > 0 ELSE upper - lower \in 2 .. most) =>
            /\ validate([strategy EXCEPT !.boundaries = finer], n + 1)
            /\ part # 1 => (upper - split) - (split - lower) \in 0 .. 1
            /\ \A v, w \in vids : RangePartition(b, v) # part =>
                 ((RangePartition(b, v) = RangePartition(b, w)) <=> (RangePartition(finer, v) = RangePartition(finer, w)))

(* A fresh allocation needs no rebalancing, and whatever the load of its   *)
(* partitions, neither all of them nor an idle one is hot.                 *)
AllocationBalanced(strategy, hash, vids, n, replicas, hosts) ==
  validate(strategy, n) =>
    LET alloc == allocate(n, replicas, hosts)
        counts == HostCounts(alloc)
        load == [part \in 1 .. n |-> Cardinality({v \in vids : compute_partition(strategy, hash, v, n) = part})]
    IN  /\ \A h, g \in DOMAIN counts : counts[h] - counts[g] <= 1
        /\ ~should_rebalance(alloc, 1)
        /\ \A m \in 1 .. 2 : \E part \in 1 .. n : part \notin detect_hotspots(load, m)
        /\ \A part \in detect_hotspots(load, 1) : load[part] > 0
=============================================================================
