------------------------------- MODULE MCViews -------------------------------
(***************************************************************************)
(* Small instances of the data that repeats what the records of a space    *)
(* say: the views of its edges (EdgeViews), the views of its vertices      *)
(* (VertexViews, once for its statements and once for its searches), the   *)
(* numbers that stand for its strings (VidMap), and all of it as the bulk  *)
(* loader writes it (BulkLoad).  A behaviour is one of the five.           *)
(***************************************************************************)
EXTENDS EdgeViews, VidMap, SequencesExt

CONSTANTS v1, v2,
          Vertices, Tag, IndexTag, Scalar, Embedding, Reader, MaxTags, MaxLate, VectorIndexMin,
          r1, r2, s1

VARIABLES vertex, tagvid, vdefined, vidx, vcut, dense, hnsw, stale, sameas, members, class, pc, points,
          skipped, late, disordered,
          kv, disk, commits, files, cfg, stage, file, row, id_map, next_vid, pending, stats, counters, part

vertexVars == <<vertex, tagvid, vdefined, vidx, vcut, dense, hnsw, stale, sameas, members, class, pc, points,
                skipped, late, disordered>>
loadVars == <<kv, disk, commits, files, cfg, stage, file, row, id_map, next_vid, pending, stats, counters>>
allvars == <<vars, vidvars, vertexVars, loadVars, part>>

\* All statements on all vertices, and searches during DML on two of them.
V == INSTANCE VertexViews
       WITH Vid <- Vertices, Reader <- {}, defined <- vdefined, idx <- vidx, cut <- vcut
R == INSTANCE VertexViews
       WITH Vid <- {0, 1}, Tag <- {IndexTag}, defined <- vdefined, idx <- vidx, cut <- vcut

\* Two edges of one triple at different rankings, and the triple's inverse.
TwoRankings == {<<1, 2, 0>>, <<1, 2, 1>>, <<2, 1, 0>>}
OneTriple == {<<1, 2, 0>>, <<1, 2, 1>>}

Readers == Permutations({r1, r2})

\* Three numbers, the strings all hash to the last of them.
Low == -3
Colliding == [s \in Str |-> -1]

-----------------------------------------------------------------------------
(* Files for the loader: ids that are empty or repeated, cells and         *)
(* rankings that do not parse, rows that give one edge twice, an edge      *)
(* without an end, and batches that end within and between files.          *)

File(kind, name, rows) == [kind |-> kind, name |-> name, rows |-> rows]
NodeRow(id, c) == [id |-> id, c |-> c]
EdgeRow(src, dst, rank, c) == [src |-> src, dst |-> dst, rank |-> rank, c |-> c]
NodeFiles ==
  {<<File("node", "A", <<NodeRow("a", "1"), NodeRow("b", "x")>>)>>,
   <<File("node", "A", <<NodeRow("a", ""), NodeRow("", "1"), NodeRow("b", "1"), NodeRow("a", "x")>>)>>,
   <<File("node", "A", <<NodeRow("a", "1")>>), File("node", "B", <<NodeRow("a", "0"), NodeRow("b", "1")>>)>>}
EdgeRows ==
  {EdgeRow("a", "b", "0", "1"), EdgeRow("a", "b", "x", "x"), EdgeRow("a", "b", "1", "0"), EdgeRow("b", "a", "0", ""),
   EdgeRow("a", "c", "0", "1")}
EdgeFiles ==
  {<<File("edge", "t", rows)>> : rows \in SeqOf(EdgeRows, 3)}
    \cup {<<File("edge", "t", <<r>>), File("edge", "s", <<q, EdgeRow("a", "a", "0", "1")>>)>> : r, q \in EdgeRows}
    \cup {<<File("edge", "sameAs", << >>)>>}
Options ==
  {[batch |-> b, strict |-> FALSE, fsync |-> f, verify |-> TRUE] : b \in {1, 3, 100}, f \in BOOLEAN}
    \cup {[batch |-> 3, strict |-> TRUE, fsync |-> FALSE, verify |-> FALSE]}

L == INSTANCE BulkLoad
       WITH Inputs <- {n \o e : n \in NodeFiles, e \in EdgeFiles}, Configs <- Options,
            Declared <- ("A" :> "Int64") @@ ("t" :> "Int64"), Types <- <<"s", "t">>,
            CheckpointEvery <- 3, CounterBatch <- 2, pc <- stage, todo <- counters

-----------------------------------------------------------------------------
Unused ==
  /\ kv = << >> /\ disk = << >> /\ commits = 0 /\ files = << >> /\ cfg = << >>
  /\ stage = "idle" /\ file = 0 /\ row = 0
  /\ id_map = << >> /\ next_vid = 0 /\ pending = << >> /\ stats = << >> /\ counters = << >>

MCInit ==
  /\ part \in {"edges", "vertices", "search", "names", "load"}
  /\ Init /\ VidInit
  /\ IF part = "search" THEN R!Init ELSE V!Init
  /\ IF part = "load" THEN L!Init ELSE Unused
  /\ part # "names" => occupied = {} /\ locked /\ \A c \in Caller : call[c].name = s1

MCNext ==
  \/ part = "edges" /\ Next /\ UNCHANGED <<vidvars, vertexVars, loadVars, part>>
  \/ part = "vertices" /\ (V!Dml \/ V!IndexDdl) /\ UNCHANGED <<vars, vidvars, loadVars, part>>
  \/ part = "search" /\ (R!Dml \/ R!Searches) /\ UNCHANGED <<vars, vidvars, loadVars, part>>
  \/ part = "names" /\ VidNext /\ UNCHANGED <<vars, vertexVars, loadVars, part>>
  \/ part = "load" /\ L!Next /\ UNCHANGED <<vars, vidvars, vertexVars, part>>

MCSpec == MCInit /\ [][MCNext]_allvars

-----------------------------------------------------------------------------
\* A query by label or by indexed property answers what the records say, but for
\* a vertex 0 older than the index, and no tag-vid key or index entry outlives
\* its tag, its value or its index (TagVidExact, LookupExact and EntriesCurrent
\* of VertexViews).
VertexIndexesExact ==
  part = "vertices" => V!TypeOK /\ V!TagVidExact /\ V!LookupExact /\ V!EntriesCurrent

\* RECOMMEND scores the vectors that vertices hold and misses none, while two of
\* them rebuild the persisted index and cancelled ones still write, unless such
\* a write lands after the vectors have changed (DenseExact and SearchComplete
\* of VertexViews).
RecommendExact ==
  /\ part = "vertices" => V!DenseExact
  /\ part = "search" => R!TypeOK /\ R!SearchComplete

\* sameAs merges in any order leave every vertex pointing straight at the least
\* of its class, nothing is stored under a merged name, and a merge is never
\* undone (SameAsExact, MergedAreEmpty and MergedStay of VertexViews).
MergesExact ==
  [][part = "vertices" => V!SameAsExact' /\ V!MergedAreEmpty' /\ V!MergedStay]_vertexVars

\* The bulk loader commits rows whole, a load that ends well has what the files
\* say with exact counters however often it was cut before, and its verification
\* is right (RowsWhole, LoadedExactly and VerifyHonest of BulkLoad).
LoadSound == part = "load" => L!RowsWhole /\ L!LoadedExactly /\ L!VerifyHonest
=============================================================================
