# TLA+ specifications of ByoriDB

This directory models the parts of ByoriDB whose correctness depends on the order
in which things happen (statements of several clients on one space, batches and
crashes between them, redundant copies of the same data, times handed out to
concurrent writers, shutdown racing requests, logins racing user statements, the
meta service and its clients, backups, consensus), and the algorithms whose results
can be compared with a shorter definition (queries, scans, encodings, placement).
Every module is written from the Rust source; `PROJECT.json` gives, for each
definition, the file and lines it stands for, the hazards of the code with the
properties that cover them, and the findings.

Modules are checked with TLC on small instances (`tlc -config X.cfg M`). The eight
`*Proofs` modules hold theorems for every value of the constants, checked with
`tlapm`.

## The system

The server is one process (`src/src/main.rs`): gRPC and HTTP front ends call
`GraphService` (sessions, authentication, admission), which parses and plans a
statement and hands it to the `Executor`. The executor works on one `KVStore` (redb),
in which a space is a set of key prefixes. It holds the space's read lock for a
statement that reads and the write lock for one that changes something; a DML
statement is one staged transaction, DDL and the rebuild of inferred facts are
several. The crates for a cluster (`byoridb-storage`, `byoridb-meta`) are libraries
with their own tests: the launcher does not start them as a cluster.

| Part | Modules | What makes it hard | What must hold |
|---|---|---|---|
| Statement execution and inference | `InferenceFence` | a statement is several transactions; blocking writes outlive a cancelled request | a space without the dirty marker has the complete closure; readers see one state; every statement returns |
| Edges | `EdgeViews` | four copies of one fact; index DDL in chunks | the copies agree; LOOKUP by index is LOOKUP by scan |
| Vertices | `VertexViews` | the same, with merges and a vector index that readers rebuild | the copies agree; a search misses nothing |
| String identifiers | `VidMap` | two keys written one after the other, hash collisions | one number a string and back, for ever |
| Bulk loader | `BulkLoad` | crashes between batches, runs on the same files again | whole rows; exactly what the files say |
| History | `AsOf`, `VersionTable`, `VersionHistory` | one counter for all spaces, in memory only | AS OF now is the current view; the past does not change |
| Ontology | `ClassSchema` | statements that name each other's classes | the hierarchy stays sound; the checks report exactly what they should |
| Queries | `Expressions`, `MatchQuery`, `MatchResults`, `Traverse`, `Lookup` | index choice, bounds, partial results | the rows are those of the definition, however they are found |
| Sessions and logins | `Sessions`, `LoginThrottle` | user record, cache and two session tables; attempts that race | roles follow the record; without races no account or source fails more often than its limit |
| Shutdown | `Shutdown` | signal, deadline, clients and blocking writes race | a successful drain is final; a clean exit loses nothing acknowledged |
| Backup and restore | `Backup`, `Database` | directories replaced in turn, crashes, rotten archives | a restore is all or nothing |
| Cluster | `Cluster`, `Placement` | late heartbeats, interrupted migrations, a metadata list read and written back | owners go astray only where a migration failed; the metadata lists the leader |
| Meta service | `MetaCatalog`, `MetaWire` | no lock across a request, retries, caches shared by callers | names resolve; a client reads its own changes, or an overtaken read put the old ones back |
| Storage and distributed reads | `Distributed`, `KVScans`, `IndexKeys`, `Records`, `RowCodec` | partitions move and fail under a query | complete or an error; what is written reads back |
| Raft | `Raft` | lost, late and overtaking calls | one leader a term; committed entries agree and stay |

TLC runs several of these modules in one model where a behaviour is about one of
them at a time: `MCViews`, `MCVersionHistory`, `MCAccess`, `MCOperations`,
`MCStorage` and `MCQueries` have a variable that says which part is running, and the
properties of the other parts hold trivially in its behaviours. `MCInferenceFence`,
`MCMetaCatalog` and `MCRaft` hold the constants of a single module.

## Components

### Inference fence: `InferenceFence`

The first part of the module is the eight rules of `executor/inference.rs` as
operators from a schema, a fact and a store to the justifications that follow, and
what it means for a set of facts to be closed. The second is one space. A request
queues for the fair lock (`Request`, `Grant`), is refused while the marker is there
(`Refuse`), reads page by page (`StartRead`, `EndRead`), or commits its assertions
together with the marker in one batch (`CommitDml`, `CommitDdl`), then clears the
derived facts (`ClearDerived`), pops the worklist (`PopEdge`), writes one derived fact
a transaction (`WriteDerived`) up to the budget (`ExceedBudget`), and deletes the
marker (`ClearMarker`). DROP SPACE deletes in chunks (`StartDrop`, `DropChunk`).
`Abort` is an error or a cancelled request between any two batches; `Detach` and
`LandOrphan` are a batch that was already on a blocking thread when its request was
cancelled and that commits later; `Crash` falls back to `disk`, which under relaxed
durability may be any earlier durable state.

Abstracted: all edges are of ranking 0 (an asserted edge of another ranking is a record next to an
inferred one of the triple) and without properties; statements that change no modelled key are
`NoEffect`; the order in which the derivations of one popped edge are written is left
open, because the code takes it from a hash map; what DROP SPACE deletes after the
edges is one last chunk. The existence of a DOMAIN or RANGE class is not checked.

### Edge views: `EdgeViews`

One edge type with one indexed property: forward records `out`, reverse records
`inn`, counters `outdeg` and `indeg`, index entries `idx`. `InsertEdges` takes several
rows, the last row of an edge wins; `Rebuild` replaces the inferred records by any set
of triples without an asserted record; index DDL (`CreateIndex`, `BackfillChunk`,
`DropIndex`, `DeleteIndexEntry`, ...) is several transactions and `Cut` ends it between
two of them. The variable `cut` remembers that; a completed DROP INDEX resets it.

Left out: a transaction that was on a blocking thread when its request was cancelled and
commits after the lock has passed on; the edges that a sameAs merge rewrites and the recount
of degrees after it (`rebuild_asserted_degree_counters`).

### Vertex views: `VertexViews`

Vertex records, tag-vid keys, entries of one tag index, dense vectors of numeric lists,
the persisted nearest-neighbour index and the pointers that a sameAs merge leaves.
DML and merges are one step each. RECOMMEND holds only the read lock, so several
readers find the index stale, rebuild it and write it in two steps. `Cancel` drops a reader
between any two steps; a write that it had handed to a blocking thread joins `late` and lands
when it likes (`Detach`, `LandLate`), after other statements too. Distances are abstract: a search returns
what is indexed. The backfill of a tag index skips vertex 0, as `backfill_tag_index` does. A DML
transaction that outlives its request is left out.

### String identifiers and the loader: `VidMap`, `BulkLoad`

`VidMap` has one step for each call `resolve_vid` makes to the store: read the mapping,
probe from the hash, claim the reverse key, publish the forward key. Callers either
come one at a time, as statements under the space's write lock do, or interleave.
`BulkLoad` reads rows into batches, commits them with the loader's durability (the first
commit and then every `CHECKPOINT_EVERY`-th reach the disk), builds the counters, verifies,
crashes anywhere and is run on the same files again.

### History: `AsOf`, `VersionTable`, `VersionHistory`

`AsOf` has the version table as a set of rows, its key order (`desc_i64`, times stored in
descending order) and the two ways a pair of times is resolved: the scan of the
`KVStore` trait (`ScanAsOf`) and the seek of the ordered backends (`get_as_of`).
`VersionTable` fills a table with arbitrary rows. `VersionHistory` has spaces whose
statements draw times from the shared `LAST_TX` row by row (`Stamp`), commit view and
versions in one transaction (`Commit`) or are cancelled (`Cancel`), and a process that
restarts with `LAST_TX` at zero (`Restart`). DROP SPACE and DROP EDGE leave history
behind by design (`guide/ngql/spaces.md`) and are not modelled; inferred edges have no
versions.

### Ontology and queries

`ClassSchema` has the statements that create and drop tags, classes, shapes, edge types
and (several a tag) indexes, the walk up the hierarchy, the check of a write, and CHECK SHAPE and CHECK
CONSISTENCY. `Expressions` has the three-valued evaluator and the two-valued filter of
LOOKUP; `MatchQuery` and `MatchResults` MATCH; `Traverse` GO and FIND PATH; `Lookup`
LOOKUP, FETCH, compound statements and EXPLAIN. They are pure operators on one store,
because a query holds the read lock (`ReadersUndisturbed`).

### Access: `Sessions`, `LoginThrottle`

`Sessions` has the stored user records, the cache in front of them, the two session
tables (bearer tokens with roles, graph sessions), logins and requests of clients, and
the user statements of administrators, which write the record, reread it and then
update cache and sessions. User statements take no space lock, so two of them
interleave, and a dropped one may leave its write on a blocking thread, to land later.
`LoginThrottle` has the failure counts for accounts and sources, their windows
and lockouts, the bounded tables with eviction, and the bounded number of password
verifications.

### Operations: `Shutdown`, `Backup`, `Database`, `Cluster`

In `Shutdown`, `word` is the atomic of `graph/shutdown.rs`, a stop bit above a count.
Requests take a slot (`try_admit`), write on a blocking thread (`BeginWrite`, `CommitWrite`),
reply, or are dropped by their client (`Disconnect`), in which case the write goes on.
The launcher stops admission (`StopAdmission`), polls until the count is zero or the deadline has
passed, stops the servers, checkpoints the store and returns (`Exit`).

In `Backup`, `disk` is the set of states a crash may leave of the directories a restore
moves: renames between two synchronisations reach the disk in any order, unsynchronised
files may be torn, archives rot. `Database` is what the operator is promised: one image,
which a restore replaces in one step by an archived one. `AtomicRestore` is `Database`
under the refinement mapping of `Restored`, the image that is in the target, or in
`previous` while the target is missing.

In `Cluster`, hosts register with heartbeats that may fail, and time out; a partition is placed
on the ring of the active hosts, which writes the metadata alone. A change of the ring installs
its allocation at once and appends migration tasks, which run one after another: mark the source,
open its stream, let the target take the partition up, make it the leader, release the source,
read the hosts of the partition and write them back (two accesses). Any call may fail, nodes crash
and return without their partition table, and the space may be dropped in between. The model has no
records: `get_partition_data` scans the prefix `p{part}:s{space}:`, which no key that the storage
service reads or writes has, so the stream of every migration is one empty last chunk.

### Meta service and storage

In `MetaCatalog` every access to a map is a step, because the service holds no lock across
a request; an attempt of a client may fail before, during or after the service ran it, and
its retry starts while the first may still run. The callers have a client each or share one, as
the executor does (`Arc<MetaClient>`); a read fills the cache when it returns. `MetaWire` has the conversion of schemas to
messages and back. `Distributed` is a query over partitions while the records of hosts change,
a migration goes through its steps or fails, the space is dropped and hosts restart; records stay
in the stores they were written to, whoever leads the partition. `KVScans`, `IndexKeys`, `Records`, `RowCodec` and `Placement` are
algorithms over enumerated inputs.

### Raft: `Raft`

The methods of `raft/log.rs` are operators on a log value, a node is a record, each handler
of `raft/node.rs` an operator on it, and an action is what the driver does under the
lock of the group: `Timeout` and `Heartbeat` are outcomes of a tick, `Receive*` a request or
a reply, `Lose` a failed call. Calls in flight are a set, so they overtake each other. Two
deviations: identical calls in flight are one, and `votes_received` is emptied when it is no
longer read. The voters do not change and no snapshots are sent, as in the driver.
`leader_id` is only a hint for clients and is left out. A reply that arrives after its caller
has changed its term or role is dropped unless `LateReplies` is set.

## Runs

Each property is described where it is defined. A run that combines several statements
under one name lists them there.

| Run | Properties | Shows |
|---|---|---|
| `fence` | `CleanMeansComplete`, `RebuildExact`, `ReadersUndisturbed` | without the marker the closure is complete, whatever was cancelled or crashed; the marker is deleted only over a complete closure and the budget counts exactly; no query sees the store change |
| `views` | edges: `IndexInv`, `DegreesExact`, `LookupExact`; vertices: `VertexIndexesExact`, `RecommendExact`, `MergesExact`; names: `NamesSound`, `MappingsStay`; loader: `LoadSound` | everything that repeats a record agrees with it |
| `views_cut` | `LookupComplete` | **violated**: after cut index DDL LOOKUP returns part of the result |
| `history` | versions: `ViewsAgree`, `AppendOnly`, `PastIsFixed`; lock: `EveryStatementReturns` | current view and history agree, in memory and on disk; the past stays; every statement returns |
| `history_restart` | `AppendOnly` | **violated**: after an early restart a version is overwritten |
| `raft` | `ElectionSafety`, `LogsAgree`, `CommitsStay` | one leader a term; logs match, committed entries agree and no node without them can be elected; a commit is on a majority and nothing committed is forgotten |
| `raft_late` | `ElectionSafety` | **violated**: a vote of an earlier election is counted in a later one |
| `access` | sessions: `RolesCurrent`, `AloneConverges`; throttle: `ThrottleExact`; both: `AccessRecovers` | a session has its user's present roles, or that is pending, raced or cut; an undisturbed user statement converges; failures exceed a limit, and a locked account is tried, only by attempts that raced; orphans and abandoned sessions go, and a locked-out user is admitted again |
| `catalog` | `CatalogExact`, `CacheExact` | names resolve; without overlapping changes one record a name, equal on disk; a client sees its own ALTER unless a read it overtook put the old version back, and nothing older than the cache allows |
| `operations` | `ShutdownSafe`, `MovesSafe`, `BackupsSafe`, `AtomicRestore`, `OperationsEnd` | the admission count is exact and a drain final; of the nodes without a failed migration one leads at most, and the metadata lists it; a restore refines `Database`, and cleanup keeps what it shall keep; shutdown and rebalancing end |
| `storage` | `ClusterReadsExact`, `EncodingsExact`, `PlacementExact`, `QueryEnds` | a distributed read has everything the hosts it asked had, or is an error; scans, keys, records, rows and messages keep what they claim; the ring moves only what it must, and migrations of a join end where it says |
| `queries` | `ConditionsAgree`, `MatchExact`, `WalksExact`, `ReadsExact`, `OntologySound`, `SchemaSteps` | every read equals its definition, with indexes that are stale or absent; the three readers of a condition agree, but for null where it says; the hierarchy stays sound and no reference is left behind |

### Bounds

* `fence`: three vertices are the least that give a transitive chain with a derived
  premise, two clients the least that give a reader during a rebuild and a waiter that is
  cancelled. The budget of four is the size of the largest closure. The lock part of
  `history` has two vertices, a symmetric typed relation and a budget of one, below and
  above its closures, with DROP SPACE and one write that outlives its request.
* `views`: two rankings of one triple and a third edge, two values, statements of two rows,
  a candidate budget of one; three vertices, 0 among them, with two tags; two readers and the
  late writes of cancelled ones over two vertices; two strings whose
  hashes collide over three numbers, two callers; a checkpoint every third commit.
* `history`: two spaces with an entity each, statements of two rows, four times: enough for
  statements of two spaces to interleave their times and for a restart between two versions.
* `raft`: three voters, three terms, logs of two, two calls in flight, one entry a request. Three
  terms give a leader, a second leader that overwrites, and the first one back; a log of two has an
  old entry under a new no-op. A commit that is undone takes a fourth term, so `LogsAgree` asks it of
  the logs: a node without a committed entry has too few members that would vote for it. The voters are interchangeable (symmetry).
* `access`: one account with two passwords, one client, two administrators, one session
  number, a lifetime of two ticks; throttle limits of two and three, tables of two keys, two attempts
  and one verification at a time.
* `catalog`: two callers of one client or of two, three calls, one failure and one retry, entries that live one tick.
* `operations`: three requests with a stop bit at 3, so that two fill the count and the third
  meets the limit; two commits, so that archives and the old database differ, two archives with
  one kept, one lost directory; three hosts and one replica, with one fault and one change of the
  ring beside heartbeats, and two faults and three changes without.
* `storage`: two hosts and partitions, pages of one, two events during a query; keys over
  bytes 0..7; rows of three columns. `queries`: stores of up to four vertices, integers -8..7, hierarchies of depth
  two, five ontology statements.

Deadlock is not checked where the bounds (terms, calls, statements, inputs) or the system
itself (after the exit of the process) end behaviours: `raft`, `catalog`, `operations`,
`storage`, `queries`.

### Fairness

* `EveryStatementReturns`: a request that holds the lock keeps running and the queue is
  served (weak fairness of `Proceed` per client), which the async runtime and tokio's fair
  `RwLock` give, and a blocking write ends (`LandOrphan`). Crashes, cancellations and new
  requests are not fair.
* `OperationsEnd`: the launcher's own steps and the passing of time; requests may hang for
  ever. In `Cluster` the clock, the recovery task, the migration worker, and each node's connect
  and heartbeat loops, which are timers of the code. That a migration ends assumes that its calls return or fail: the
  meta service's storage client sets no timeout, so a peer that hangs holds up the rebalance.
* `AccessRecovers`: the clock and the cleanup task.
* `QueryEnds`: the query's own steps; each call of it ends, with an answer or an error.

## What is proved

Each proof module extends its component. The theorems hold for every value of the
constants under the named assumptions of the component, which TLC evaluates in each run
that extends it, and under the hypotheses given here. A safety theorem goes
along an inductive invariant: it holds initially, every action keeps it (one step of
the proof per action), and it implies the property.

| Module | Theorems | Property of a run | Hypotheses |
|---|---|---|---|
| `InferenceFenceProofs` | `FenceHolds`, `RebuildAlwaysExact`, `ReadersSeeOneState`, and `TypeCorrect`, `LockExclusion`, `RebuildComplete` | `CleanMeansComplete`, `RebuildExact`, `ReadersUndisturbed` | no write outlives its request (not for the first two of the second group); for `FenceHolds` the space is not dropped |
| `EdgeViewsProofs` | `IndexInvHolds`, `DegreesAlwaysExact`, `LookupAlwaysExact`, and `MirrorAlwaysExact`, `EntriesAlwaysCurrent` | `IndexInv`, `DegreesExact`, `LookupExact` | |
| `VidMapProofs` | `NamesAlwaysSound`, `MappingsAlwaysStay` | `NamesSound`, `MappingsStay` | |
| `VersionHistoryProofs` | `CurrentAlwaysNewest`, `HistoryAppendOnly`, `PastAlwaysFixed`, and `SeekIsScan` | `ViewsAgree`, `AppendOnly`, `PastIsFixed` | restarts wait until the clock has passed `LAST_TX` |
| `RaftProofs` | `OneLeaderPerTerm`, and `ElectionInvariant` | `ElectionSafety` | no late replies |
| `SessionsProofs` | `RolesAlwaysCurrent`, `AloneAlwaysConverges`, and `SessionsInvariant` | `RolesCurrent`, `AloneConverges` | |
| `ShutdownProofs` | `ShutdownAlwaysSafe` | `ShutdownSafe` | |
| `BackupProofs` | `RestoreIsAtomic`, `BackupsAlwaysSafe`, and `RestoreInvariant` | `AtomicRestore`, `BackupsSafe` | the bounds are natural numbers |

The arguments:

* `InferenceFenceProofs`. `RebuildComplete`: for every schema and every store the worklist
  ends with exactly the least closure and its justifications. The inductive part is
  `Deriving`: everything stored is founded on assertions by a justification, and what follows
  from a stored fact is stored, or that fact is still on the worklist, or the derivation
  is still to be fired. `FenceHolds` then needs the lock (`Exclusion`: a mutation is alone),
  one record a triple, the marker during a rebuild (`RebuildInv`), and the same of the durable state
  (`FenceInv`). `RebuildAlwaysExact` adds `BudgetInv`: what was counted is what has been
  written since the clearing.
* `EdgeViewsProofs`. `IndexInv` is inductive: besides the mirror it says that entries with a
  value are current, that nothing is left of a dropped index, and that the entries together
  with those a backfill still has to write cover every value. `DegreesAlwaysExact` counts with
  the finite-set theorems: a statement's delta is the cardinality of the new asserted edges
  at a vertex.
* `VidMapProofs`. `VidInv` ties each step of a caller to the keys it has seen or written: who is about
  to publish has its string under the number's reverse key, and all numbers that a search has passed
  are used. Callers one at a time never meet a conflict (`Alone`).
* `VersionHistoryProofs`. `SeekIsScan`: the two resolutions agree for every table and all
  times. `HistoryInv` is inductive: all times handed out are at most `LAST_TX` or the clock, a
  statement's times increase and lie after everything its space has committed, and each
  entity's newest version is its current value, in memory and on disk.
* `RaftProofs`. `ElectionInv`: a candidate or leader holds its own vote, a leader the votes of
  a majority, a granted vote that is counted or still in flight is kept by its giver or the giver is
  in a later term. Two majorities meet, and whoever is in both has kept one vote. The case that
  looks dangerous, a candidate that steps down in its own term and forgets its vote, is
  harmless: only itself had that vote.
* `SessionsProofs`. `RolesCurrent` becomes inductive with what a user statement under way knows:
  while no other statement on the user has overlapped it (`AloneIsAlone`), what it is about to
  apply is the stored record (`AloneApplies`).
* `ShutdownProofs`. The count of the word is the number of requests that hold a slot (below
  the stop bit), and after a drain none holds one and none is admitted.
* `BackupProofs`. `RestoreInv` describes, for every step of a restore, all states a crash may
  leave on the disk: each has the current database or an archived one, and the old database is in
  all of them once it has been set aside. Every step then maps to a step of `Database` or to none.
  `CleanupInv` says that a cleanup knows of as many archives as it shall keep, newer than all it
  still has to delete.

Only model-checked:

* Liveness (`EveryStatementReturns`, `OperationsEnd`, `AccessRecovers`, `QueryEnds`): fairness
  and ENABLED are outside what the prover handles.
* What recursive definitions compute for every input (`EncodingsExact`, `PlacementExact`, the
  properties of `queries`): the induction theorems cannot be instantiated with the provers installed.
* `LogsAgree` and `CommitsStay`. That later leaders have what is committed needs an account of past
  elections beside the present state, and the logs are built with `SelectSeq`.
* `VertexIndexesExact`, `RecommendExact`, `MergesExact`, `LoadSound`, `ThrottleExact`, `CatalogExact`,
  `CacheExact`, `MovesSafe`, `ClusterReadsExact`: safety properties with no theorem yet.

## Findings and known disagreements

Three runs state what a comment or a document says and end in a counterexample;
`PROJECT.json` quotes the lines: index DDL that is cut (`views_cut`), a restart before the
clock has caught up (`history_restart`), votes of an earlier election (`raft_late`; that
library is not started by the server).

Specifications that no run uses state what else is known to fail:

* `RestartSpec` of `Raft` adds restarts. Nothing is persisted, so two nodes may lead a term and commit
  different entries. `FairSpec` adds `Apply`; `LeaderApplies` fails under it, because the tick of
  a leader with peers always has heartbeats to send and returns before it applies.
* `DetachSpec` of `VersionHistory` adds commits that outlive their cancelled request; the current view
  then differs from AS OF now.
* With `"DropSpace"` in `Ops`, or with `MaxOrphans` above zero, `CleanMeansComplete` of
  `InferenceFence` fails: an interrupted DROP SPACE leaves a partial closure without marker, and a
  late deletion of the marker hides another statement's commit.

What the code does and a reader might not expect, as modelled:

* Edges: UPDATE EDGE of an inferred edge makes it an assertion and moves the degree counters; one
  that is promoted with a null gets no index entry, so that `LookupExact` is about values other
  than null.
* Vertices: the backfill of a tag index reads vertex id 0 as no id and skips it (`ddl.rs:261`), so that
  LOOKUP by an index misses a vertex 0 that is older than the index; `VertexIndexesExact` makes this one
  exception. The blocking write of a cancelled RECOMMEND that lands after another statement changed
  vectors takes that statement's dirty marker away or puts an old index back; until vectors change
  again a search may miss the change. `RecommendExact` excepts searches after such a write.
* Names: without the space lock two callers that insert one string can meet "conflicting string VID
  mapping" and leave a reverse key without its forward key.
* Loader: identifiers start from 1 in every run, so loading other files into a space with data
  overwrites its first vertices; the backfill sets counters and never deletes one; `--verify` fails
  on files that repeat an edge.
* Classes: CREATE CLASS checks the depth of each parent's walk only, so a class one level deeper is
  accepted and its own walk fails; a class with an EQUIVALENT partner cannot be dropped;
  dropping a plain tag checks no references; the check of a write does not see inferred types,
  CHECK SHAPE does.
* Users: the cache keeps the older record when two statements on one user overlap, the late write of a
  dropped statement included; `AloneConverges` is about statements that nothing overlaps.
* Logins: the throttle checks before it verifies and records after, so logins that race are answered more
  rejections than the limit and may be verified while the account is locked. A rejection that finds its
  window full is not counted, and the excess grows with the number of logins at a time; the comment
  "nothing goes uncounted silently" (`auth.rs:264`) is about the table of keys only. `ThrottleExact`
  counts the logins that did not race.
* Queries: `*0..n` never includes the start vertex; a float literal misses a stored integer in an index
  lookup of MATCH; the distributed FETCH and GO ignore clauses that the local ones honour; the order
  of mixed values is not transitive. Null: `NOT (p < 1)` and `p NOT IN [..]` on a null property pass
  LOOKUP's two-valued filter and not GO's three-valued evaluator (`PushdownAgrees` states exactly when),
  and MATCH accepts `!=`, NOT CONTAINS and NOT IN on null where the evaluator does not
  (`ConditionAgrees`).
* Meta client: callers share one client and its cache. A `get_tag` that read the old version before an
  `alter_tag` and returns after it puts the old version back in the cache, where it stays for its
  time to live (`CacheExact`).
* Partition moves: no migration copies a record that queries read, because the streamed prefix matches
  no served key; after a migration the host that is asked has none of the partition's records, and a
  query succeeds without them. `CompleteOrError` is about the records of the hosts that are asked. A
  source that fails in mid-stream ends the stream as if it were complete, and a target that got no chunk
  registers partition 0 of space 0. A failed call leaves both nodes as they are, without a second
  attempt. The target of a secondary replica is made a leader too, so `MovesSafe` is for one replica.
  The hosts of a partition are read and written back in two accesses, and the allocation of a dropped
  space may come back. The failure detector removes a stale host before it looks up its partitions, so
  that it finds none and reassigns nothing. Outside of tests nothing but a migration registers a
  partition on a node.
* Rows: a null takes no room in the row, while the readers count the width of its column, so that the
  values after a null, and every string of a row with one, are misread (`row.rs:66-72`, `338-343`); a
  column beyond the flag bytes, which are as many as the nullable columns need, takes its flag from the
  data (`row.rs:331`); a negative int8 comes back as an unsigned byte (`row.rs:351`). `RowsReadBack`
  covers nulls and is about the columns the format represents (`Represented` of `RowCodec`).
* Storage: the second page of `scan_edges` is empty; the executor reads only the first host of a
  partition and never retries; the meta messages
  lose the length of fixed strings and empty defaults, and a restarted meta service loads nothing.
* Placement: the tasks of a topology change are applied to the allocation of the new ring. They may list
  a host twice, and a leave, or a join in a ring with fewer nodes than replicas, may end with fewer hosts
  than the ring assigns (`StaysInRing`); only other joins end with its hosts (`ReachesRing`). For a range whose upper boundary is not positive, the suggested split lies outside the
  range. Nothing applies suggestions.

## Not modelled

The parser, formatting, metrics, logging, configuration, command line and transports have no
state that a property here is about. Functions that change strings or round numbers, date functions, SHOW and
graph algorithms other than paths; Raft snapshots and configuration changes; the counting of requests for
hot partitions; the bytes of floats, dates and geography. Hash functions are any function to a small
set. `executor/transaction.rs` is a stub that no statement uses. The components in
`PROJECT.json` give the status of every part.
