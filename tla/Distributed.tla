---------------------------- MODULE Distributed ----------------------------
(***************************************************************************)
(* A distributed query: the executor (byoridb-executor/src/distributed.rs) *)
(* asks the meta service where the partitions are, sends one request, or   *)
(* one request per page, to the first host of each partition through the   *)
(* query client (storage_client.rs), and merges the answers of the storage *)
(* nodes (byoridb-storage/src/{rpc,index,partition}.rs).                   *)
(*                                                                         *)
(* While it runs, records are written, a partition is given to another     *)
(* host in the steps of its migration, the space is dropped, nodes restart *)
(* without their partition table, and calls fail.                          *)
(*                                                                         *)
(* A migration moves no record (the source streams the keys that begin     *)
(* with p{part}:s{space}:, and no record's key does): the new host has     *)
(* what is written to it afterwards, and answers with that.                *)
(*                                                                         *)
(* A record is a number, in the order of its key in the store.  What a     *)
(* host has under it is absent, a match of the query, a record of another  *)
(* tag, type or value ("other"), or a record that does not decode ("bad"). *)
(***************************************************************************)
EXTENDS Integers, Sequences, FiniteSets, SequencesExt, FiniteSetsExt

CONSTANTS RecordNum,
          Hosts,
          PartitionNum,
          Hash,        \* Hash[vid] is the partition of a vertex id
          Home,        \* Home[p] is the host that has the records of p at first
          Queries,     \* the queries asked: [kind, req, limit]
          ScanBatch,   \* records a vertex scan reads at a time (256)
          PageSize,    \* records asked for when there is no limit (1024)
          MaxEvents    \* writes, migrations, restarts and failures

Records == 1 .. RecordNum
Parts == 1 .. PartitionNum
EdgeKinds == {"fetch_edges", "go", "lookup_edge"}
KeyedKinds == {"fetch", "fetch_edges", "go", "bloom"}
LookupKinds == {"lookup_tag", "lookup_edge"}
Stored == {"absent", "match", "other", "bad"}

VARIABLES
  store,       \* store[h][r]
  status,      \* status[h][p]: the partition in h's PartitionManager
  registered,  \* hosts that know the number of partitions of the space
  alloc,       \* alloc[p]: the hosts of p, as the meta service lists them
  mig,         \* the migration that runs, or Nothing
  q,           \* the query
  tasks,       \* its tasks, by partition
  answer,
  always,      \* <<h, r>>: h has had r, which the query asks for, since it began
  ever,        \* <<h, r>>: h had it at some time since then
  events

hostVars == <<store, status, registered, alloc, mig>>
queryVars == <<q, tasks, answer>>
vars == <<hostVars, queryVars, always, ever, events>>

VidOf(r) == IF q.kind \in EdgeKinds THEN (r + 1) \div 2 ELSE r
PartOf(r) == Hash[VidOf(r)]
Nothing == [pc |-> "none"]

(* What a stored value means to the query: a fetched vertex is returned    *)
(* with whatever tags it has, and an existence check decodes nothing.      *)
Wanted(v) ==
  CASE q.kind \in {"fetch", "fetch_edges"} -> v \in {"match", "other"}
    [] q.kind = "bloom" -> v # "absent"
    [] OTHER -> v = "match"

Event == events < MaxEvents /\ events' = events + 1

Failed == [ok |-> FALSE]
Task(host, keys) ==
  [pc |-> "call", host |-> host, keys |-> keys, cursor |-> 0, start |-> 0,
   page |-> << >>, got |-> << >>, seen |-> {}]

-----------------------------------------------------------------------------
(* The partition table of a node and the checks of its handlers.           *)

get_status(h, p) == status[h][p]
owns_partition(h, p) == status[h][p] # "NotOwned"
get_partition_num(h) == IF h \in registered THEN PartitionNum ELSE 0

ensure_query_partition(h, p) == get_status(h, p) \in {"Leader", "Follower"}

ensure_fetch_partitions(h, keys) ==
  /\ get_partition_num(h) > 0
  /\ \A k \in ToSet(keys) :
       ensure_query_partition(h, Hash[IF q.kind = "fetch_edges" THEN VidOf(k) ELSE k])

(* A record that is not what its key says is an error, not a missing one.  *)
decode_query_vertex(v) == v # "bad"
decode_query_edge(v) == v # "bad"

(* What a handler has after a read: an error, the end of the answer, or a  *)
(* batch after which it reads on from start.                               *)
Error == [st |-> "error"]
Answer(items, more) == [st |-> "reply", items |-> items, more |-> more]
Reading(items, from) == [st |-> "reading", items |-> items, start |-> from]

There(h, S) == SelectSeq([r \in Records |-> r], LAMBDA r : r \in S /\ store[h][r] # "absent")
Cut(s, n) == SubSeq(s, 1, IF Len(s) < n THEN Len(s) ELSE n)

batch_get_vertices(h, t) ==
  LET found == SelectSeq(t.keys, LAMBDA k : store[h][k] # "absent")
  IN  IF \E k \in ToSet(found) : ~decode_query_vertex(store[h][k]) THEN Error
      ELSE Answer(found, FALSE)

batch_get_edges(h, t) ==
  LET found == SelectSeq(t.keys, LAMBDA k : store[h][k] # "absent")
  IN  IF \E k \in ToSet(found) : ~decode_query_edge(store[h][k]) THEN Error
      ELSE Answer(found, FALSE)

(* The limit of a page of the client.                                      *)
lookup_page_limit(cap, read) ==
  IF cap = 0 THEN PageSize ELSE Min({IF cap > read THEN cap - read ELSE 0, PageSize})

(* One batch of a scan: records of other partitions and tags are passed    *)
(* over; the one beyond the limit only tells that there are more.          *)
ScanBatchOf(h, p, t, limit, stop(_)) ==
  LET batch == Cut(There(h, {r \in Records : r > Max({t.cursor, t.start})}), ScanBatch)
      mine == SelectSeq(batch, LAMBDA r : PartOf(r) = p)
      room == SelectSeq(mine, LAMBDA r : Wanted(store[h][r]))
      items == t.page \o room
      over == IF Len(items) > limit THEN items[limit + 1] ELSE 0
      read == {r \in ToSet(mine) : over = 0 \/ r <= over}
  IN  IF \E r \in read : ~decode_query_vertex(store[h][r]) THEN Error
      ELSE IF over # 0 THEN Answer(Cut(items, limit), TRUE)
      ELSE IF stop(items) \/ Len(batch) < ScanBatch THEN Answer(items, FALSE)
      ELSE Reading(items, Last(batch))

scan_vertices(h, p, t, limit) == ScanBatchOf(h, p, t, limit, LAMBDA items : FALSE)

(* The edges of one source; the handler goes through the sources in turn,  *)
(* t.start of them are done.                                               *)
get_neighbors_by_source(h, t) ==
  LET edges == There(h, {r \in Records : VidOf(r) = t.keys[t.start + 1]})
      items == t.page \o SelectSeq(edges, LAMBDA r : Wanted(store[h][r]))
  IN  IF \E r \in ToSet(edges) : ~decode_query_edge(store[h][r]) THEN Error
      ELSE IF t.start + 1 = Len(t.keys) THEN Answer(items, FALSE)
      ELSE Reading(items, t.start + 1)

(* A page of an index: the entries of the value in the partition, and one  *)
(* more to tell whether the page is the last.                              *)

lookup_page_keys(h, p, t, limit) ==
  LET entries == Cut(There(h, {r \in Records : r > t.cursor /\ PartOf(r) = p
                                               /\ store[h][r] \in {"match", "bad"}}), limit + 1)
  IN  IF \E r \in ToSet(entries) : store[h][r] = "bad" THEN Error
      ELSE Answer(Cut(entries, limit), Len(entries) > limit)

lookup_tag_page(h, p, t, limit) == lookup_page_keys(h, p, t, limit)
lookup_edge_page(h, p, t, limit) == lookup_page_keys(h, p, t, limit)
lookup_tag_index(h, p, t, limit) == lookup_tag_page(h, p, t, IF limit > 0 THEN limit ELSE PageSize)
lookup_edge_index(h, p, t, limit) == lookup_edge_page(h, p, t, IF limit > 0 THEN limit ELSE PageSize)

(* The filter of vertices is a read of their records; the answer is the    *)
(* keys that may exist.                                                    *)
bloom_filter(h, t) == Answer(SelectSeq(t.keys, LAMBDA k : store[h][k] # "absent"), FALSE)

(* The checks before the first read.                                       *)
Admits(h, p, t) ==
  CASE q.kind \in {"fetch", "fetch_edges"} -> ensure_fetch_partitions(h, t.keys)
    [] q.kind = "bloom" -> owns_partition(h, p)
    [] q.kind \in LookupKinds -> ensure_query_partition(h, p) /\ owns_partition(h, p)
    [] OTHER -> ensure_query_partition(h, p) /\ owns_partition(h, p) /\ get_partition_num(h) > 0

-----------------------------------------------------------------------------
(* The query client: a failed connection or call, an error status and an   *)
(* error code in the answer are all errors to the executor.                *)

client_batch_get_vertices(t) == batch_get_vertices(t.host, t)
client_batch_get_edges(t) == batch_get_edges(t.host, t)
client_scan_vertices(p, t) == scan_vertices(t.host, p, t, lookup_page_limit(q.limit, Len(t.got)))
client_get_neighbors_by_source(t) == get_neighbors_by_source(t.host, t)
client_lookup_tag_index(p, t) == lookup_tag_index(t.host, p, t, lookup_page_limit(q.limit, Len(t.got)))
client_lookup_edge_index(p, t) == lookup_edge_index(t.host, p, t, lookup_page_limit(q.limit, Len(t.got)))
client_check_bloom_filter(t) == bloom_filter(t.host, t)

Response(p, t) ==
  CASE q.kind = "fetch" -> client_batch_get_vertices(t)
    [] q.kind = "fetch_edges" -> client_batch_get_edges(t)
    [] q.kind = "scan" -> client_scan_vertices(p, t)
    [] q.kind = "go" -> client_get_neighbors_by_source(t)
    [] q.kind = "lookup_tag" -> client_lookup_tag_index(p, t)
    [] q.kind = "lookup_edge" -> client_lookup_edge_index(p, t)
    [] q.kind = "bloom" -> client_check_bloom_filter(t)

-----------------------------------------------------------------------------
(* The executor.                                                           *)

group_vids_by_partition(vids) ==
  [p \in {Hash[v] : v \in ToSet(vids)} |-> SelectSeq(vids, LAMBDA v : Hash[v] = p)]
group_edges_by_partition(keys) ==
  [p \in {PartOf(k) : k \in ToSet(keys)} |-> SelectSeq(keys, LAMBDA k : PartOf(k) = p)]

(* Every partition must be listed, with a host.                            *)
(* (SkipEmpty: a partition without a host is left out of the query.)       *)
SkipEmpty(listed) == TRUE
validate_allocations(listed) == \A p \in Parts : listed[p] # << >>
partition_hosts == validate_allocations(alloc)

get_partition_host(p) == IF alloc[p] = << >> THEN {} ELSE {alloc[p][1]}

(* What must hold of a page besides its content.                           *)
validate_lookup_page(items, limit, more, cursor, seen) ==
  /\ Len(items) <= limit
  /\ more => items # << >> /\ cursor \notin seen

(* An answer holds what was asked for, from the partition it was asked of. *)
RightItems(p, t, items) ==
  CASE q.kind \in {"fetch", "fetch_edges"} -> ToSet(items) \subseteq ToSet(t.keys)
    [] q.kind \in LookupKinds -> \A r \in ToSet(items) : PartOf(r) = p
    [] OTHER -> TRUE

(* The query ends without an answer.                                       *)
GiveUp == q' = [q EXCEPT !.stage = "done"] /\ tasks' = << >>

Begin ==
  /\ q.stage = "idle" /\ UNCHANGED answer
  /\ always' = {<<h, r>> \in Hosts \X Records : Wanted(store[h][r])} /\ ever' = always'
  /\ UNCHANGED <<hostVars, events>>

(* A task for each group of keys at the first host of its partition.       *)
Dispatch(groups) ==
  IF ~partition_hosts THEN GiveUp
  ELSE q' = [q EXCEPT !.stage = "running"]
       /\ tasks' = [p \in {p \in DOMAIN groups : alloc[p] # << >>} |-> Task(alloc[p][1], groups[p])]

execute_fetch == q.kind = "fetch" /\ Begin /\ Dispatch(group_vids_by_partition(q.req))
execute_fetch_edges == q.kind = "fetch_edges" /\ Begin /\ Dispatch(group_edges_by_partition(q.req))
execute_go == q.kind = "go" /\ Begin /\ Dispatch(group_vids_by_partition(q.req))
execute_scan == q.kind = "scan" /\ Begin /\ Dispatch([p \in Parts |-> << >>])
execute_lookup_tag_index == q.kind = "lookup_tag" /\ Begin /\ Dispatch([p \in Parts |-> << >>])
execute_lookup_edge_index == q.kind = "lookup_edge" /\ Begin /\ Dispatch([p \in Parts |-> << >>])

(* The existence check asks the meta service once for each group, and      *)
(* starts no task before it has every host.                                *)
check_bloom_filter ==
  /\ q.kind = "bloom" /\ Begin /\ q' = [q EXCEPT !.stage = "running"]
  /\ LET groups == group_vids_by_partition(q.req)
     IN  tasks' = [p \in DOMAIN groups |-> [Task(Home[p], groups[p]) EXCEPT !.pc = "route"]]

Route(p) ==
  /\ p \in DOMAIN tasks /\ tasks[p].pc = "route"
  /\ \/ get_partition_host(p) = {} /\ GiveUp
     \/ \E h \in get_partition_host(p) :
          /\ tasks' = [tasks EXCEPT ![p].host = h, ![p].pc = "call"]
          /\ UNCHANGED q
  /\ UNCHANGED <<hostVars, answer, always, ever, events>>

TaskFails(p) == tasks' = [tasks EXCEPT ![p].pc = "failed"]

(* The call reaches the node, which checks that it has the partition.      *)
Call(p) ==
  /\ p \in DOMAIN tasks /\ tasks[p].pc = "call"
  /\ \A o \in DOMAIN tasks : tasks[o].pc # "route"
  /\ IF Admits(tasks[p].host, p, tasks[p])
     THEN tasks' = [tasks EXCEPT ![p].pc = "read", ![p].start = 0, ![p].page = << >>]
     ELSE TaskFails(p)
  /\ UNCHANGED <<hostVars, q, answer, always, ever, events>>

(* Past the budget of a lookup the query is incomplete, and fails.         *)
OverBudget(n, more) ==
  q.kind \in LookupKinds /\ q.limit > 0 /\ (n > q.limit \/ (n = q.limit /\ more))

(* A page is the last, or the limit of a scan is reached.                  *)
LastPage(n, more) == ~more \/ (q.kind = "scan" /\ q.limit > 0 /\ n >= q.limit)

Receive(p, t, r) ==
  LET got == t.got \o r.items
      cursor == IF r.more THEN Last(r.items) ELSE 0
      valid == q.kind \in KeyedKinds
               \/ validate_lookup_page(r.items, lookup_page_limit(q.limit, Len(t.got)),
                                       r.more, cursor, t.seen)
  IN  IF ~valid \/ ~RightItems(p, t, r.items) \/ OverBudget(Len(got), r.more) THEN TaskFails(p)
      ELSE tasks' = [tasks EXCEPT ![p] =
             [t EXCEPT !.got = got, !.cursor = cursor, !.seen = @ \cup {cursor},
                       !.page = << >>, !.start = 0,
                       !.pc = IF q.kind \in KeyedKinds \/ LastPage(Len(got), r.more)
                              THEN "done" ELSE "call"]]

(* A read of the node; with the last of a call its answer comes back.      *)
Read(p) ==
  /\ p \in DOMAIN tasks /\ tasks[p].pc = "read"
  /\ LET t == tasks[p]
         r == Response(p, t)
     IN  CASE r.st = "error" -> TaskFails(p)
           [] r.st = "reading" -> tasks' = [tasks EXCEPT ![p].page = r.items, ![p].start = r.start]
           [] r.st = "reply" -> Receive(p, t, r)
  /\ UNCHANGED <<hostVars, q, answer, always, ever, events>>

(* The connection or the call fails, or its answer is lost.                *)
CallFails(p) ==
  /\ p \in DOMAIN tasks /\ tasks[p].pc \in {"call", "read"}
  /\ \A o \in DOMAIN tasks : tasks[o].pc # "route"
  /\ Event /\ TaskFails(p)
  /\ UNCHANGED <<hostVars, q, answer, always, ever>>

Merged ==
  FoldLeft(LAMBDA acc, p : acc \o tasks[p].got, << >>,
           SelectSeq([p \in Parts |-> p], LAMBDA p : p \in DOMAIN tasks))

(* The merged answer: any failed task fails the query.                     *)
Merge ==
  IF \E p \in DOMAIN tasks : tasks[p].pc = "failed" THEN Failed
  ELSE [ok |-> TRUE, items |-> IF q.kind = "scan" /\ q.limit > 0 THEN Cut(Merged, q.limit) ELSE Merged]

(* The existence check keeps the positive answers it has; only when there  *)
(* is none and a call failed does it say of every key that it may exist.   *)
MergeBloom ==
  IF (\E p \in DOMAIN tasks : tasks[p].pc = "failed") /\ Merged = << >>
  THEN [ok |-> TRUE, items |-> q.req]
  ELSE [ok |-> TRUE, items |-> Merged]

(* (FinishDone: a failed task is waited for.)                              *)
FinishDone ==
  /\ q.stage = "running"
  /\ \A p \in DOMAIN tasks : tasks[p].pc = "done"
  /\ answer' = (IF q.kind = "bloom" THEN MergeBloom ELSE Merge)
  /\ q' = [q EXCEPT !.stage = "done"]
  /\ UNCHANGED <<hostVars, tasks, always, ever, events>>
Finish ==
  /\ q.stage = "running"
  /\ \A p \in DOMAIN tasks : tasks[p].pc \in {"done", "failed"}
  /\ answer' = (IF q.kind = "bloom" THEN MergeBloom ELSE Merge)
  /\ q' = [q EXCEPT !.stage = "done"]
  /\ UNCHANGED <<hostVars, tasks, always, ever, events>>

-----------------------------------------------------------------------------
(* The rest of the system.                                                 *)

(* A record is written, changed or deleted in the store of a host.         *)
Write(h, r, v) ==
  /\ Event /\ q.stage # "done"
  /\ store[h][r] # v
  /\ store' = [store EXCEPT ![h][r] = v]
  /\ IF q.stage = "running"
     THEN IF Wanted(v) THEN always' = always /\ ever' = ever \cup {<<h, r>>}
          ELSE always' = always \ {<<h, r>>} /\ ever' = ever
     ELSE UNCHANGED <<always, ever>>
  /\ UNCHANGED <<status, registered, alloc, mig, queryVars>>

(* A migration in its steps (module Cluster has them with their failures   *)
(* one by one): a change of the ring names the new host in the metadata,   *)
(* the source stops serving, the target takes the partition up and leads   *)
(* it, the source gives it up, the metadata is written again.              *)
Elsewhere == <<store, registered, queryVars, always, ever>>

ChangeRing(p, h) ==
  /\ Event /\ mig = Nothing /\ q.stage # "done" /\ alloc[p] # << >> /\ h # alloc[p][1]
  /\ alloc' = [alloc EXCEPT ![p] = <<h>>]
  /\ mig' = [pc |-> "mark", part |-> p, from |-> alloc[p][1], to |-> h]
  /\ UNCHANGED <<status, Elsewhere>>

Migrating(pc) == mig.pc = pc /\ q.stage # "done"
Goes(pc, h, s) ==
  /\ mig' = [mig EXCEPT !.pc = pc] /\ status' = [status EXCEPT ![h][mig.part] = s]
  /\ UNCHANGED <<alloc, Elsewhere, events>>

MarkSource == Migrating("mark") /\ Goes("copy", mig.from, "Transferring")
transfer_partition ==
  Migrating("copy") /\ status[mig.from][mig.part] # "NotOwned" /\ Goes("lead", mig.to, "Follower")
LeadTarget == Migrating("lead") /\ Goes("release", mig.to, "Leader")
ReleaseSource == Migrating("release") /\ Goes("meta", mig.from, "NotOwned")

UpdateAlloc ==
  /\ Migrating("meta") /\ mig' = Nothing
  /\ alloc' = [alloc EXCEPT ![mig.part] =
                  IF @ = << >> THEN @ ELSE Append(SelectSeq(@, LAMBDA h : h # mig.from), mig.to)]
  /\ UNCHANGED <<status, Elsewhere, events>>

(* A call of a migration fails, and what it has done stays; or the target  *)
(* refuses the stream, and the source leads again.                         *)
MigrationFails ==
  /\ mig.pc \in {"mark", "copy", "lead", "release"} /\ q.stage # "done" /\ mig' = Nothing
  /\ \/ Event /\ UNCHANGED status
     \/ mig.pc = "copy" /\ Event /\ status' = [status EXCEPT ![mig.from][mig.part] = "Leader"]
     \/ mig.pc = "copy" /\ status[mig.from][mig.part] = "NotOwned" /\ UNCHANGED <<status, events>>
  /\ UNCHANGED <<alloc, Elsewhere>>

Migrate == MarkSource \/ transfer_partition \/ LeadTarget \/ ReleaseSource \/ UpdateAlloc \/ MigrationFails

(* The metadata of a dropped space lists no partition.                     *)
drop_space ==
  /\ Event /\ alloc # [p \in Parts |-> << >>] /\ q.stage # "done"
  /\ alloc' = [p \in Parts |-> << >>]
  /\ UNCHANGED <<status, mig, Elsewhere>>

(* A node restarts: its table of partitions is gone, and the calls it was  *)
(* answering fail.                                                         *)
Restart(h) ==
  /\ Event /\ h \in registered /\ q.stage # "done"
  /\ status' = [status EXCEPT ![h] = [p \in Parts |-> "NotOwned"]]
  /\ registered' = registered \ {h}
  /\ tasks' = [p \in DOMAIN tasks |-> IF tasks[p].pc = "read" /\ tasks[p].host = h
                                      THEN [tasks[p] EXCEPT !.pc = "failed"] ELSE tasks[p]]
  /\ UNCHANGED <<store, alloc, mig, q, answer, always, ever>>

-----------------------------------------------------------------------------
(* A query is about to be asked; spent of the events have been used up.    *)
InitWith(queries, spent) ==
  /\ \E a \in queries : q = [kind |-> a.kind, req |-> a.req, limit |-> a.limit, stage |-> "idle"]
  /\ store \in {[h \in Hosts |-> [r \in Records |-> IF Home[PartOf(r)] = h THEN s[r] ELSE "absent"]] :
                  s \in [Records -> {"absent", "match"}]}
  /\ status = [h \in Hosts |-> [p \in Parts |-> IF Home[p] = h THEN "Leader" ELSE "NotOwned"]]
  /\ registered = Hosts /\ mig = Nothing
  /\ alloc = [p \in Parts |-> <<Home[p]>>]
  /\ tasks = << >> /\ answer = Failed
  /\ always = {} /\ ever = {} /\ events = spent
Init == InitWith(Queries, 0)

Start ==
  \/ execute_fetch \/ execute_fetch_edges \/ execute_go \/ execute_scan
  \/ execute_lookup_tag_index \/ execute_lookup_edge_index \/ check_bloom_filter

Query == Start \/ (\E p \in Parts : Route(p) \/ Call(p) \/ Read(p)) \/ Finish

Next ==
  \/ Query
  \/ \E p \in Parts : CallFails(p) \/ \E h \in Hosts : ChangeRing(p, h)
  \/ \E h \in Hosts : Restart(h) \/ \E r \in Records, v \in Stored : Write(h, r, v)
  \/ Migrate \/ drop_space

(* The executor's task and the tasks of the nodes run.                     *)
Spec == Init /\ [][Next]_vars /\ WF_vars(Query)

-----------------------------------------------------------------------------
TypeOK ==
  /\ store \in [Hosts -> [Records -> Stored]]
  /\ status \in [Hosts -> [Parts -> {"Leader", "Follower", "NotOwned", "Transferring"}]]
  /\ registered \subseteq Hosts /\ alloc \in [Parts -> Seq(Hosts)]
  /\ q.stage \in {"idle", "running", "done"} /\ DOMAIN tasks \subseteq Parts
  /\ \A p \in DOMAIN tasks :
       /\ tasks[p].pc \in {"route", "call", "read", "done", "failed"} /\ tasks[p].host \in Hosts
       /\ ToSet(tasks[p].got) \cup ToSet(tasks[p].page) \subseteq Records
  /\ always \subseteq ever /\ ever \subseteq Hosts \X Records

Succeeded == q.stage = "done" /\ answer.ok

(* How often the query asks for a record.                                  *)
Asked(r) ==
  CASE q.kind = "fetch_edges" -> Cardinality({i \in DOMAIN q.req : q.req[i] = r})
    [] q.kind \in {"fetch", "go", "bloom"} -> Cardinality({i \in DOMAIN q.req : q.req[i] = VidOf(r)})
    [] OTHER -> 1
Times(r) == Cardinality({i \in DOMAIN answer.items : answer.items[i] = r})

(* Host h answers for the partition of r, or nobody does.                  *)
Answers(h, r) == PartOf(r) \in DOMAIN tasks => tasks[PartOf(r)].host = h

(* A query that succeeds is complete: every record that matched it from    *)
(* its beginning to its end on the host that was asked for its partition   *)
(* is in the answer as often as it was asked for, whatever was written and *)
(* whichever step of a migration came meanwhile; a scan with a limit may   *)
(* leave records out only when it returns that many.  A missing host, a    *)
(* host that is handing the partition over or has not got it yet, an       *)
(* unreadable record, a node that lost its partitions and a spent budget   *)
(* are errors, never a shorter answer (distributed.rs).  Once a migration  *)
(* has ended the host that is asked is one that never got the records; the *)
(* query then succeeds without them, and the property does not say more.   *)
CompleteOrError ==
  Succeeded /\ q.kind # "bloom" =>
    \/ \A <<h, r>> \in always : Answers(h, r) => Times(r) = Asked(r)
    \/ q.kind = "scan" /\ q.limit > 0 /\ Len(answer.items) = q.limit

(* Nothing else is in it: each record of the answer matched at some time   *)
(* while the query ran on the host that was asked, and none is there twice *)
(* for being read on two pages, in two batches or on two hosts (rpc.rs,    *)
(* lookup_page_keys).                                                      *)
OnlyWhatWasThere ==
  Succeeded /\ q.kind # "bloom" =>
    /\ \A r \in ToSet(answer.items) :
         Times(r) <= Asked(r) /\ \E h \in Hosts : <<h, r>> \in ever /\ Answers(h, r)
    /\ q.kind = "scan" /\ q.limit > 0 => Len(answer.items) <= q.limit
    /\ q.kind \in LookupKinds /\ q.limit > 0 =>
         \A p \in DOMAIN tasks : Len(tasks[p].got) <= q.limit

(* A vertex that the host that was asked had all the time is not reported  *)
(* as absent by an existence check none of whose calls failed, nor by one  *)
(* that learned nothing (check_bloom_filter).                              *)
BloomSound ==
  Succeeded /\ q.kind = "bloom"
  /\ ((\A p \in DOMAIN tasks : tasks[p].pc = "done") \/ Merged = << >>) =>
    \A <<h, r>> \in always : Answers(h, r) /\ r \in ToSet(q.req) => r \in ToSet(answer.items)

(* Every query ends: the pages advance whatever is written between them,   *)
(* and a partition that fails does not keep the others waiting.            *)
QueryEnds == <>(q.stage = "done")

=============================================================================
