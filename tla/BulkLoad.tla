------------------------------ MODULE BulkLoad ------------------------------
(***************************************************************************)
(* The bulk loader: CSV files read row by row into batches that are        *)
(* committed to the database of a stopped server, then the degree counters *)
(* built from the sorted edges, then the optional verification.  With      *)
(* relaxed durability only every CHECKPOINT_EVERY-th commit reaches the    *)
(* disk, and a crash goes back to the last that did; the operator then     *)
(* runs the loader on the same files again.                                *)
(*                                                                         *)
(* A key is the tuple of its segments.  A row gives each column the text   *)
(* of its cell.                                                            *)
(***************************************************************************)
EXTENDS Integers, Sequences, FiniteSets, SequencesExt

CONSTANTS
  Inputs,            \* sequences of files [kind, name, rows] to load
  Configs,           \* [batch, strict, fsync, verify]: the command line
  Declared,          \* the declared type of column "c", by tag or edge type
  Types,             \* the edge types, in the order of their bytes
  CheckpointEvery, CounterBatch

VARIABLES
  kv, disk,          \* what is committed, and what of it a crash keeps
  commits,           \* RedbKVStore::commit_count
  files, cfg,        \* the files and the options of this run
  pc, file, row,     \* what the loader does, and the next row it reads
  id_map, next_vid, pending, stats,
  todo               \* the counters still to be written

vars == <<kv, disk, commits, files, cfg, pc, file, row, id_map, next_vid, pending, stats, todo>>
loader == <<file, row, id_map, next_vid, pending, stats>>

Space == <<"space">>
Transposed(k) == <<"in-edge", k[4], k[3], k[2], k[5]>>
Of(store, table) == {k \in DOMAIN store : k[1] = table}

-----------------------------------------------------------------------------
(* Cells, keys and batches.                                                *)

Numerals == [s \in {"0", "1"} |-> IF s = "0" THEN 0 ELSE 1]
Cell(r, column) == IF column \in DOMAIN r THEN r[column] ELSE ""

cell_to_value(raw, declared) ==
  IF declared = "Int64" /\ raw \in DOMAIN Numerals THEN <<"int", Numerals[raw]>> ELSE <<"string", raw>>

read_column_types(name, column) ==
  IF column = "c" /\ name \in DOMAIN Declared THEN Declared[name] ELSE "none"

\* The columns kept as properties: the empty cells are null, and left out.
properties(r, name, skipped) ==
  [h \in {c \in DOMAIN r \ skipped : r[c] # ""} |-> cell_to_value(r[h], read_column_types(name, h))]

ranking(r) == LET s == Cell(r, "rank") IN IF s \in DOMAIN Numerals THEN Numerals[s] ELSE 0

VertexBlob(tag, r) == <<[k |-> <<"vertex", next_vid>>, v |-> <<tag, properties(r, tag, {})>>],
                        [k |-> <<"tagvid", tag, next_vid>>, v |-> << >>]>>

EdgeBlobs(type, r, src, dst) ==
  LET blob == properties(r, type, {"src", "dst", "rank"})
  IN  <<[k |-> <<"edge", src, type, dst, ranking(r)>>, v |-> blob],
        [k |-> <<"in-edge", dst, type, src, ranking(r)>>, v |-> blob]>>

\* A batch is sorted by key before it is written.  The sort is stable: of two
\* writes of one key the one read later is applied later.
Sorted(batch) ==
  [k \in {w.k : w \in Range(batch)} |-> batch[Max({i \in DOMAIN batch : batch[i].k = k})].v]

Applied(store, batch) ==
  LET new == Sorted(batch)
  IN  [k \in DOMAIN store \cup DOMAIN new |-> IF k \in DOMAIN new THEN new[k] ELSE store[k]]

next_durability == IF cfg.fsync \/ commits % CheckpointEvery = 0 THEN "immediate" ELSE "none"

batch_put(batch) ==
  /\ kv' = Applied(kv, batch)
  /\ disk' = IF next_durability = "immediate" THEN kv' ELSE disk
  /\ commits' = commits + 1

flush(batch) ==
  /\ pending' = << >>
  /\ IF batch = << >> THEN UNCHANGED <<kv, disk, commits>> ELSE batch_put(batch)

\* The mutated flush: exactly a batch is written, even if it ends within a row.
flush_one_batch(batch) ==
  IF Len(batch) >= cfg.batch
    THEN batch_put(SubSeq(batch, 1, cfg.batch)) /\ pending' = SubSeq(batch, cfg.batch + 1, Len(batch))
    ELSE pending' = batch /\ UNCHANGED <<kv, disk, commits>>

maybe_flush(batch) ==
  IF Len(batch) >= cfg.batch
    THEN flush(batch)
    ELSE pending' = batch /\ UNCHANGED <<kv, disk, commits>>

-----------------------------------------------------------------------------
(* One run: the space is looked up, the files are read in order, the nodes *)
(* first.                                                                  *)

Fresh ==
  /\ file' = 1 /\ row' = 1
  /\ id_map' = << >> /\ next_vid' = 1 /\ pending' = << >>
  /\ stats' = [vertices |-> 0, tagvid_entries |-> 0, edges |-> 0, duplicate_ids |-> 0, dangling_edges |-> 0]

Start ==
  /\ pc = "idle"
  /\ cfg' \in Configs
  /\ pc' = IF Space \in DOMAIN kv THEN "load" ELSE "failed"
  /\ commits' = 0
  /\ Fresh
  /\ UNCHANGED <<kv, disk, files, todo>>

Reading == pc = "load" /\ file <= Len(files) /\ row <= Len(files[file].rows)
Current == files[file].rows[row]
Name == files[file].name
ReadingNode == Reading /\ files[file].kind = "node"
ReadingEdge == Reading /\ files[file].kind = "edge" /\ Name # "sameAs"

Skip == row' = row + 1 /\ pc' = IF cfg.strict THEN "failed" ELSE pc

EmptyId ==
  /\ ReadingNode /\ Cell(Current, "id") = ""
  /\ Skip
  /\ UNCHANGED <<kv, disk, commits, files, cfg, file, id_map, next_vid, pending, stats, todo>>

DuplicateId ==
  /\ ReadingNode /\ Cell(Current, "id") \in DOMAIN id_map
  /\ stats' = [stats EXCEPT !.duplicate_ids = @ + 1]
  /\ Skip
  /\ UNCHANGED <<kv, disk, commits, files, cfg, file, id_map, next_vid, pending, todo>>

assign_vid(id) ==
  /\ id_map' = [i \in DOMAIN id_map \cup {id} |-> IF i = id THEN next_vid ELSE id_map[i]]
  /\ next_vid' = next_vid + 1

NewNode ==
  /\ ReadingNode /\ Cell(Current, "id") \notin DOMAIN id_map \cup {""}
  /\ assign_vid(Cell(Current, "id"))
  /\ stats' = [stats EXCEPT !.vertices = @ + 1, !.tagvid_entries = @ + 1]
  /\ maybe_flush(pending \o VertexBlob(Name, Current))
  /\ row' = row + 1
  /\ UNCHANGED <<files, cfg, pc, file, todo>>

Resolved(r) == Cell(r, "src") \in DOMAIN id_map /\ Cell(r, "dst") \in DOMAIN id_map

DanglingEdge ==
  /\ ReadingEdge /\ ~Resolved(Current)
  /\ stats' = [stats EXCEPT !.dangling_edges = @ + 1]
  /\ Skip
  /\ UNCHANGED <<kv, disk, commits, files, cfg, file, id_map, next_vid, pending, todo>>

NewEdge ==
  /\ ReadingEdge /\ Resolved(Current)
  /\ stats' = [stats EXCEPT !.edges = @ + 1]
  /\ maybe_flush(pending \o EdgeBlobs(Name, Current, id_map[Cell(Current, "src")], id_map[Cell(Current, "dst")]))
  /\ row' = row + 1
  /\ UNCHANGED <<files, cfg, pc, file, id_map, next_vid, todo>>

\* owl:sameAs needs stores the loader does not build.
ReservedType ==
  /\ pc = "load" /\ file <= Len(files) /\ files[file].kind = "edge" /\ Name = "sameAs"
  /\ pc' = "failed"
  /\ UNCHANGED <<kv, disk, commits, files, cfg, loader, todo>>

EndOfFile ==
  /\ pc = "load" /\ file <= Len(files) /\ row > Len(files[file].rows)
  /\ files[file].kind = "edge" => Name # "sameAs"
  /\ flush(pending)
  /\ file' = file + 1 /\ row' = 1
  /\ UNCHANGED <<files, cfg, pc, id_map, next_vid, stats, todo>>

-----------------------------------------------------------------------------
(* The degree counters: the keys of a table in order, one counter for each *)
(* run of keys with the same first vertex and the same type.               *)

Precedes(a, b) ==
  LET Segments(k) == [k EXCEPT ![1] = 0, ![3] = CHOOSE n \in DOMAIN Types : Types[n] = k[3]]
      s == Segments(a)
      t == Segments(b)
  IN  \E i \in 2 .. 5 : s[i] < t[i] /\ \A j \in 2 .. i - 1 : s[j] = t[j]

scan_stream(table) == SetToSortSeq(Of(kv, table), Precedes)

SameRun(run, k) == run.vid = k[2] /\ run.type = k[3]

stream_degree_counters(table) ==
  LET Tally(done, k) ==
        IF done # << >> /\ SameRun(Last(done), k)
          THEN [done EXCEPT ![Len(done)].count = @ + 1]
          ELSE Append(done, [vid |-> k[2], type |-> k[3], count |-> 1])
      counter == IF table = "in-edge" THEN "indeg" ELSE "outdeg"
      tallied == FoldLeft(Tally, << >>, scan_stream(table))
  IN  [i \in DOMAIN tallied |-> [k |-> <<counter, tallied[i].type, tallied[i].vid>>, v |-> tallied[i].count]]

finish ==
  /\ pc = "load" /\ file > Len(files)
  /\ flush(pending)
  /\ pc' = "indeg" /\ todo' = stream_degree_counters("in-edge")
  /\ UNCHANGED <<files, cfg, file, row, id_map, next_vid, stats>>

\* --backfill-degree: only the counters, of whatever is there.
StartBackfill ==
  /\ pc = "idle"
  /\ cfg' \in Configs
  /\ IF Space \in DOMAIN kv
       THEN pc' = "indeg" /\ todo' = stream_degree_counters("in-edge")
       ELSE pc' = "failed" /\ UNCHANGED todo
  /\ commits' = 0
  /\ Fresh /\ UNCHANGED <<kv, disk, files>>

WriteCounters ==
  /\ pc \in {"indeg", "outdeg"} /\ todo # << >>
  /\ batch_put(SubSeq(todo, 1, Min({CounterBatch, Len(todo)})))
  /\ todo' = SubSeq(todo, CounterBatch + 1, Len(todo))
  /\ UNCHANGED <<files, cfg, pc, loader>>

OutCounters ==
  /\ pc = "indeg" /\ todo = << >>
  /\ pc' = "outdeg" /\ todo' = stream_degree_counters("edge")
  /\ UNCHANGED <<kv, disk, commits, files, cfg, loader>>

\* A load has read its files; a backfill has not moved.
Loaded == file > Len(files)

checkpoint == disk' = kv

CheckpointCounters ==
  /\ pc = "outdeg" /\ todo = << >>
  /\ checkpoint
  /\ pc' = IF ~Loaded THEN "filled" ELSE IF cfg.verify THEN "verify" ELSE "done"
  /\ UNCHANGED <<kv, commits, files, cfg, loader, todo>>

count_prefix(table) == Cardinality(Of(kv, table))

verify ==
  /\ pc = "verify"
  /\ pc' = IF /\ count_prefix("vertex") = stats.vertices
              /\ count_prefix("tagvid") = stats.tagvid_entries
              /\ count_prefix("edge") = stats.edges
              /\ count_prefix("in-edge") = stats.edges
             THEN "verified" ELSE "mismatch"
  /\ UNCHANGED <<kv, disk, commits, files, cfg, loader, todo>>

\* The process is killed, or it has ended: it may be started again.  A run that
\* failed has written no final checkpoint; closing the store may have.
Ended == {"failed", "done", "verified", "mismatch", "filled"}
Again ==
  /\ pc # "idle"
  /\ IF pc \in Ended THEN kv' \in {kv, disk} ELSE kv' = disk
  /\ disk' = kv'
  /\ pc' = "idle" /\ todo' = << >> /\ commits' = 0
  /\ Fresh
  /\ UNCHANGED <<files, cfg>>

-----------------------------------------------------------------------------
Init ==
  /\ kv \in {<< >>, [k \in {Space} |-> << >>]}
  /\ disk = kv /\ commits = 0
  /\ files \in Inputs /\ cfg \in Configs
  /\ pc = "idle" /\ file = 1 /\ row = 1
  /\ id_map = << >> /\ next_vid = 1 /\ pending = << >>
  /\ stats = [vertices |-> 0, tagvid_entries |-> 0, edges |-> 0, duplicate_ids |-> 0, dangling_edges |-> 0]
  /\ todo = << >>

Next ==
  \/ Start \/ EmptyId \/ DuplicateId \/ NewNode \/ DanglingEdge \/ NewEdge \/ ReservedType \/ EndOfFile
  \/ finish \/ StartBackfill \/ WriteCounters \/ OutCounters \/ CheckpointCounters \/ verify \/ Again

-----------------------------------------------------------------------------
(* What the files say, without batches, maps or order of writing.          *)

RowsOf(kind) ==
  FlattenSeq([f \in 1 .. Len(files) |->
     IF files[f].kind = kind THEN [i \in DOMAIN files[f].rows |-> <<files[f].name, files[f].rows[i]>>] ELSE << >>])
FirstOf(nodes, i) == nodes[i][2].id # "" /\ \A j \in 1 .. i - 1 : nodes[j][2].id # nodes[i][2].id
VidAt(nodes, i) == Cardinality({j \in 1 .. i : FirstOf(nodes, j)})
Ids(nodes) == {nodes[i][2].id : i \in DOMAIN nodes} \ {""}
VidOf(nodes, id) == VidAt(nodes, CHOOSE i \in DOMAIN nodes : nodes[i][2].id = id /\ FirstOf(nodes, i))
Whole(nodes, edges) == {i \in DOMAIN edges : edges[i][2].src \in Ids(nodes) /\ edges[i][2].dst \in Ids(nodes)}
KeyOf(nodes, e) == <<"edge", VidOf(nodes, e[2].src), e[1], VidOf(nodes, e[2].dst), ranking(e[2])>>

ExpectedVertices ==
  LET nodes == RowsOf("node")
  IN  {<<VidAt(nodes, i), nodes[i][1], properties(nodes[i][2], nodes[i][1], {})>>
         : i \in {j \in DOMAIN nodes : FirstOf(nodes, j)}}
ExpectedEdges ==
  LET nodes == RowsOf("node")
      edges == RowsOf("edge")
      whole == Whole(nodes, edges)
  IN  {<<KeyOf(nodes, edges[i]), properties(edges[i][2], edges[i][1], {"src", "dst", "rank"})>>
         : i \in {j \in whole : \A l \in whole : KeyOf(nodes, edges[l]) = KeyOf(nodes, edges[j]) => l <= j}}
Repeated == Cardinality(ExpectedEdges) < Cardinality(Whole(RowsOf("node"), RowsOf("edge")))
Flawed ==
  LET nodes == RowsOf("node")
      edges == RowsOf("edge")
  IN  (\E i \in DOMAIN nodes : ~FirstOf(nodes, i)) \/ Whole(nodes, edges) # DOMAIN edges

\* A row is committed whole or not at all, in memory and on disk: every edge is
\* there in both directions with the same properties and with both its ends,
\* every vertex under its tag (both writes of a row precede maybe_flush, and
\* nodes are flushed before edges are read).
RowsWhole ==
  \A s \in {kv, disk} :
     /\ {Transposed(k) : k \in Of(s, "edge")} = Of(s, "in-edge")
     /\ \A k \in Of(s, "edge") : s[k] = s[Transposed(k)] /\ {<<"vertex", k[2]>>, <<"vertex", k[4]>>} \subseteq DOMAIN s
     /\ {<<"tagvid", s[k][1], k[2]>> : k \in Of(s, "vertex")} = Of(s, "tagvid")

Degrees(s) ==
  \A k \in Of(s, "edge") :
     /\ s[<<"outdeg", k[3], k[2]>>] = Cardinality({l \in Of(s, "edge") : l[2] = k[2] /\ l[3] = k[3]})
     /\ s[<<"indeg", k[3], k[4]>>] = Cardinality({l \in Of(s, "edge") : l[4] = k[4] /\ l[3] = k[3]})

\* A run that ends well has the database the files describe, durably, with exact
\* counters, whatever the batch size and however many runs were cut before it;
\* in strict mode it accepts no flawed file.  A backfill ends with exact counters
\* of whatever was loaded (Loader::finish, backfill_degree_counters).
LoadedExactly ==
  /\ pc \in {"done", "verified", "mismatch"} =>
       /\ {<<k[2], kv[k][1], kv[k][2]>> : k \in Of(kv, "vertex")} = ExpectedVertices
       /\ {<<k, kv[k]>> : k \in Of(kv, "edge")} = ExpectedEdges
       /\ cfg.strict => ~Flawed
  /\ pc \in {"done", "verified", "mismatch", "filled"} => Degrees(kv) /\ disk = kv

\* The verification fails only over an edge that the files give twice: never
\* over what a run that was cut left behind (verify in main.rs).
VerifyHonest == (pc = "mismatch" => Repeated) /\ (pc = "verified" => ~Repeated)
=============================================================================
