---------------------------- MODULE VertexViews ----------------------------
(***************************************************************************)
(* The redundant views of the vertices of one space, for one property that *)
(* several tags may declare: the vertex record, the tag-vid entries, the   *)
(* entries of a secondary index on one tag, the dense vectors of numeric   *)
(* lists, the persisted nearest-neighbour (HNSW) index over them, and the  *)
(* pointers of vertices merged by owl:sameAs.  They are maintained by      *)
(* INSERT/UPDATE/DELETE VERTEX (executor/dml.rs), by the merge that an     *)
(* inserted sameAs edge causes (executor/sameas.rs), by CREATE/DROP TAG    *)
(* INDEX (executor/ddl.rs) and by RECOMMEND ... BY EMBEDDING, which        *)
(* rebuilds a stale HNSW index (executor/vector_index.rs).                 *)
(*                                                                         *)
(* A DML statement is one transaction under the write lock of its space.   *)
(* RECOMMEND holds only the read lock, so that several of them rebuild at  *)
(* the same time, each with two writes of its own, and any of them may be  *)
(* cancelled.  A write that was already handed to a blocking thread then   *)
(* lands later, when the lock may long be another's (Detach, LandLate).    *)
(* The same would go for the transaction of a cancelled DML statement,     *)
(* which is left out: every statement but RECOMMEND that is cancelled here *)
(* has either committed or never will.                                     *)
(***************************************************************************)
EXTENDS Integers, Sequences, FiniteSets, FiniteSetsExt, TLC

CONSTANTS
  Vid,
  Tag,
  IndexTag,        \* the tag the secondary index is on
  Scalar,          \* values of the property that the index tells apart
  Embedding,       \* values that pack_embedding takes: lists of numbers
  Reader,          \* concurrent RECOMMEND statements
  MaxRows,         \* bound: rows of one INSERT VERTEX
  MaxTags,         \* bound: tags of all vertices together
  MaxLate,         \* bound: writes of cancelled RECOMMENDs not yet landed
  VectorIndexMin   \* config.vector_index_min

None == "none"

\* The property in one tag: not set, an explicit null, or a value.
Assigned == Scalar \cup Embedding \cup {"null"}
Prop == Assigned \cup {"missing"}

\* The tags of a vertex, in order.  A stored vertex has at least one.
TagData == [tag : Tag, prop : Prop]
Absent == <<>>
Record == {r \in UNION {[1..n -> TagData] : n \in 0..Cardinality(Tag)} :
             \A i, j \in DOMAIN r : r[i].tag = r[j].tag => i = j}

VARIABLES
  vertex,    \* {space}:vertex: records
  tagvid,    \* {space}:tagvid: keys
  defined,   \* the tag index has a persisted definition
  idx,       \* its entries
  cut,       \* an index DDL was cut and the index not dropped since (history)
  skipped,   \* vertices that the backfill passed over and no write has reached since (history)
  dense,     \* {space}:vec: vectors, keyed by property and vid but not by tag
  hnsw,      \* {space}:vecidx: the vectors it was built from, at least one; NoVectors if absent
  stale,     \* {space}:vecidx-dirty:
  sameas,    \* {space}:sameas: pointers; the vertex itself where there is no key
  members,   \* {space}:sameas-members: keys
  class,     \* the vertices asserted to be the same as each vertex (history)
  pc,        \* what each RECOMMEND does next
  points,    \* the vectors that it has scanned
  late,      \* writes of cancelled RECOMMENDs that are still to land
  disordered \* one landed after the vectors had changed, and they have not changed since (history)

views == <<vertex, tagvid, idx, dense>>
index == <<defined, cut>>
merges == <<sameas, members, class>>
vector == <<hnsw, stale, late, disordered>>
vars == <<views, index, skipped, vector, merges, pc, points>>

NoVectors == [v \in Vid |-> None]

Init ==
  /\ vertex = [v \in Vid |-> Absent]
  /\ tagvid = {}
  /\ defined = FALSE
  /\ idx = {}
  /\ cut = FALSE
  /\ dense = NoVectors
  /\ hnsw = NoVectors
  /\ stale = FALSE
  /\ sameas = [v \in Vid |-> v]
  /\ members = {}
  /\ class = [v \in Vid |-> {v}]
  /\ pc = [r \in Reader |-> "idle"]
  /\ points = [r \in Reader |-> NoVectors]
  /\ skipped = {}
  /\ late = {}
  /\ disordered = FALSE

\* The write lock of the space is free.
WriteLock == \A r \in Reader : pc[r] = "idle"

-----------------------------------------------------------------------------
(* What the views hold of a record.                                         *)

TagsOf(r) == {r[i].tag : i \in DOMAIN r}
TagVids(v, r) == {<<t, v>> : t \in TagsOf(r)}

\* Mutant: a list is indexed as it is.
IndexValueRaw(p) == IF p = "missing" THEN "null" ELSE p

\* byoridb_value_to_index_value: what is missing and what is a list is indexed
\* as null.
IndexValue(p) == IF p \in Scalar THEN p ELSE "null"

\* vertex_index_keys.
IndexKeys(v, r) ==
  {<<IndexValue(r[i].prop), v>> : i \in {i \in DOMAIN r : r[i].tag = IndexTag}}

\* The tags whose property is mirrored to the dense store, and the vector that
\* is left there: each tag writes the same key.
Packed(r) == {i \in DOMAIN r : r[i].prop \in Embedding}
DenseOf(r) == IF Packed(r) = {} THEN None ELSE r[Max(Packed(r))].prop

\* The dense entry of a vertex whose record is replaced: the old record's
\* entry is deleted unless the new one writes it.
DenseAfter(v, new) ==
  IF Packed(new) # {} THEN DenseOf(new)
  ELSE IF Packed(vertex[v]) # {} THEN None ELSE dense[v]

Bounded(new) == Cardinality(UNION {TagVids(v, new[v]) : v \in Vid}) <= MaxTags

\* Deletes of keys that the same batch puts are left out.
Replace(keys, olds, puts) == (keys \cup puts) \ (olds \ puts)

\* The batch marks the HNSW index stale, after which every write of a cancelled
\* RECOMMEND that is still to land comes too late.
MarkIf(touched) ==
  /\ stale' = (stale \/ touched)
  /\ late' = IF touched THEN {[w EXCEPT !.overtaken = TRUE] : w \in late} ELSE late
  /\ disordered' = (disordered /\ ~touched)

\* Mutant: the tag-vid keys of the old records are not retracted.
RewriteKeeping(vs, new) ==
  /\ vertex' = [v \in Vid |-> IF v \in vs THEN new[v] ELSE vertex[v]]
  /\ Bounded(vertex')
  /\ tagvid' = tagvid \cup UNION {TagVids(v, new[v]) : v \in vs}
  /\ idx' = IF defined
            THEN Replace(idx, UNION {IndexKeys(v, vertex[v]) : v \in vs},
                         UNION {IndexKeys(v, new[v]) : v \in vs})
            ELSE idx
  /\ skipped' = skipped \ vs
  /\ dense' = [v \in Vid |-> IF v \in vs THEN DenseAfter(v, new[v]) ELSE dense[v]]
  /\ MarkIf(\E v \in vs : Packed(vertex[v]) \cup Packed(new[v]) # {})

\* The batch that replaces the records of vs.  Without a definition,
\* mutation_indexes is empty.
Rewrite(vs, new) ==
  /\ vertex' = [v \in Vid |-> IF v \in vs THEN new[v] ELSE vertex[v]]
  /\ Bounded(vertex')
  /\ tagvid' = Replace(tagvid, UNION {TagVids(v, vertex[v]) : v \in vs},
                       UNION {TagVids(v, new[v]) : v \in vs})
  /\ idx' = IF defined
            THEN Replace(idx, UNION {IndexKeys(v, vertex[v]) : v \in vs},
                         UNION {IndexKeys(v, new[v]) : v \in vs})
            ELSE idx
  /\ skipped' = skipped \ vs
  /\ dense' = [v \in Vid |-> IF v \in vs THEN DenseAfter(v, new[v]) ELSE dense[v]]
  /\ MarkIf(\E v \in vs : Packed(vertex[v]) \cup Packed(new[v]) # {})

-----------------------------------------------------------------------------
(* DML.                                                                     *)

\* representative_of: follows pointers until a vertex without one.
Representative(v) ==
  LET follow[u \in Vid] == IF sameas[u] = u THEN u ELSE follow[sameas[u]]
  IN  follow[v]

\* INSERT VERTEX t: the rows name vertices and give the property or not.  A row
\* replaces the whole record, and the last row of a vertex wins.
Row == [vid : Vid, prop : Prop]
Rows == UNION {[1..n -> Row] : n \in 1..MaxRows}
RowsOf(rows, v) == {i \in DOMAIN rows : Representative(rows[i].vid) = v}
Named(rows) == {Representative(rows[i].vid) : i \in DOMAIN rows}

InsertVertices(t, rows) ==
  /\ WriteLock
  /\ Rewrite(Named(rows),
             [v \in Named(rows) |-> <<[tag |-> t, prop |-> rows[Max(RowsOf(rows, v))].prop]>>])
  /\ UNCHANGED <<index, hnsw, merges, pc, points>>

\* SET in a tag of the record, which is added when the vertex lacks it.
Updated(r, t, p) ==
  IF t \in TagsOf(r)
  THEN [i \in DOMAIN r |-> IF r[i].tag = t THEN [r[i] EXCEPT !.prop = p] ELSE r[i]]
  ELSE Append(r, [tag |-> t, prop |-> p])

\* execute_update_vertex, past its no-ops: an upsert.  The old index entries
\* go, then the new ones come.  The dense entry follows the value just set,
\* whatever the other tags hold, and the HNSW index is marked in any case.
UpdateVertex(v, t, p) ==
  LET u == Representative(v)
      new == Updated(vertex[u], t, p)
  IN  /\ WriteLock
      /\ vertex' = [vertex EXCEPT ![u] = new]
      /\ Bounded(vertex')
      /\ tagvid' = tagvid \cup TagVids(u, new)
      /\ idx' = IF defined THEN (idx \ IndexKeys(u, vertex[u])) \cup IndexKeys(u, new)
                ELSE idx
      /\ skipped' = skipped \ {u}
      /\ dense' = [dense EXCEPT ![u] = IF p \in Embedding THEN p ELSE None]
      /\ MarkIf(TRUE)
      /\ UNCHANGED <<index, hnsw, merges, pc, points>>

\* Mutant: only merged vertices are protected, not what they merged into.
DeletableRepresentative(v) == Representative(v) = v

\* DELETE VERTEX refuses vertices that a merge involved.
Deletable(v) == Representative(v) = v /\ \A m \in Vid : <<v, m>> \notin members

DeleteVertices(vs) ==
  /\ WriteLock
  /\ \A v \in vs : Deletable(v)
  /\ Rewrite(vs, [v \in vs |-> Absent])
  /\ UNCHANGED <<index, hnsw, merges, pc, points>>

-----------------------------------------------------------------------------
(* An inserted sameAs edge merges the classes of its endpoints onto the     *)
(* smaller representative.  A statement with several such edges merges one  *)
(* pair after the other in one transaction; what the edges of the merged    *)
(* vertex become is left out.                                               *)

\* merge_vertex_blob: the winner's properties stand, the loser's fill what is
\* not set, and its other tags are appended.
Fill(w, l) ==
  [i \in DOMAIN w |->
     IF w[i].prop = "missing" /\ w[i].tag \in TagsOf(l)
     THEN l[CHOOSE j \in DOMAIN l : l[j].tag = w[i].tag] ELSE w[i]]
MergedRecord(w, l) ==
  Fill(w, l) \o SelectSeq(l, LAMBDA d : d.tag \notin TagsOf(w))

Repoint(winner, loser) ==
  sameas' = [v \in Vid |-> IF v = loser \/ <<loser, v>> \in members THEN winner
                           ELSE sameas[v]]

collapse_node(winner, loser) ==
  /\ IF vertex[loser] = Absent
     THEN UNCHANGED <<views, skipped, stale, late, disordered>>
     ELSE Rewrite({winner, loser},
                  (winner :> MergedRecord(vertex[winner], vertex[loser])) @@ (loser :> Absent))
  /\ Repoint(winner, loser)
  /\ members' = {k \in members : k[1] # loser}
                  \cup {<<winner, m>> : m \in {m \in Vid : <<loser, m>> \in members}}
                  \cup {<<winner, loser>>}

InsertSameAs(a, b) ==
  LET ra == Representative(a)
      rb == Representative(b)
  IN  /\ WriteLock
      /\ ra # rb
      /\ collapse_node(Min({ra, rb}), Max({ra, rb}))
      /\ class' = [v \in Vid |-> IF v \in class[a] \cup class[b] THEN class[a] \cup class[b]
                                 ELSE class[v]]
      /\ UNCHANGED <<index, hnsw, pc, points>>

-----------------------------------------------------------------------------
(* Index DDL holds the write lock throughout, so that what it leaves is all *)
(* that others see.  It writes in several transactions: a crash, an error   *)
(* or a cancelled request leaves some of them.                              *)

\* What backfill_tag_index scans.  It takes vertex 0 for a malformed key.
BackfillEntries == UNION {IndexKeys(v, vertex[v]) : v \in Vid \ {0}}

\* CREATE TAG INDEX persists the definition, then the entries in chunks.
CreateIndex(written) ==
  /\ WriteLock
  /\ ~defined
  /\ defined' = TRUE
  /\ idx' = idx \cup written
  /\ cut' = (written # BackfillEntries)
  /\ skipped' = Vid \cap {0}
  /\ UNCHANGED <<vertex, tagvid, dense, vector, merges, pc, points>>

\* DROP TAG INDEX: the entries go one by one, then the definition.
DropIndex(purged) ==
  /\ WriteLock
  /\ defined
  /\ idx' = idx \ purged
  /\ \/ idx' = {} /\ defined' = FALSE /\ cut' = FALSE
     \/ cut' = TRUE /\ UNCHANGED defined
  /\ UNCHANGED <<vertex, tagvid, dense, skipped, vector, merges, pc, points>>

-----------------------------------------------------------------------------
(* scored_embedding_candidates, under the read lock.                        *)

Go(r, at) == pc' = [pc EXCEPT ![r] = at]
stored == <<views, index, skipped, merges>>
lates == <<late, disordered>>

ReadMarker(r) ==
  /\ pc[r] = "idle"
  /\ Go(r, IF stale THEN "dirty" ELSE "clean")
  /\ UNCHANGED <<stored, lates, hnsw, stale, points>>

\* Mutant: an index that is there is taken to be fresh.
FreshIfPresent(r) == hnsw # NoVectors

\* A clean, present index is searched; otherwise the dense store is scanned.
Fresh(r) == hnsw # NoVectors /\ pc[r] = "clean"

Vectors(f) == {v \in Vid : f[v] # None}

ReadIndex(r) ==
  /\ pc[r] \in {"dirty", "clean"}
  /\ IF Fresh(r) THEN Go(r, "search") /\ UNCHANGED points
     ELSE /\ Go(r, IF Cardinality(Vectors(dense)) > VectorIndexMin THEN "persist" ELSE "drop")
          /\ points' = [points EXCEPT ![r] = dense]
  /\ UNCHANGED <<stored, lates, hnsw, stale>>

PersistIndex(r) ==
  /\ pc[r] = "persist"
  /\ hnsw' = points[r]
  /\ Go(r, "persisted")
  /\ UNCHANGED <<stored, lates, stale, points>>

DropVectorIndex(r) ==
  /\ pc[r] = "drop"
  /\ hnsw' = NoVectors
  /\ Go(r, "dropped")
  /\ UNCHANGED <<stored, lates, stale, points>>

\* After the flat path the statement answers from the scan.
ClearMarker(r) ==
  /\ pc[r] \in {"persisted", "dropped"}
  /\ stale' = FALSE
  /\ Go(r, IF pc[r] = "persisted" THEN "search" ELSE "idle")
  /\ points' = [points EXCEPT ![r] = NoVectors]
  /\ UNCHANGED <<stored, lates, hnsw>>

\* ann_query reads the index again, and answers.
AnnQuery(r) ==
  /\ pc[r] = "search"
  /\ Go(r, "idle")
  /\ UNCHANGED <<stored, lates, hnsw, stale, points>>

\* A cancelled request or a failed write, between two writes.
Cancel(r) ==
  /\ pc[r] # "idle"
  /\ Go(r, "idle")
  /\ points' = [points EXCEPT ![r] = NoVectors]
  /\ UNCHANGED <<stored, lates, hnsw, stale>>

\* The request is cancelled while the blocking thread has its next write: the
\* read lock is free and nothing follows that write, but it goes on.
Write(r) ==
  CASE pc[r] = "persist" -> "put"
    [] pc[r] = "drop" -> "delete"
    [] pc[r] \in {"persisted", "dropped"} -> "clear"

Detach(r) ==
  /\ pc[r] \in {"persist", "drop", "persisted", "dropped"}
  /\ Cardinality(late) < MaxLate
  /\ late' = late \cup {[op |-> Write(r), points |-> points[r], overtaken |-> FALSE]}
  /\ Go(r, "idle")
  /\ points' = [points EXCEPT ![r] = NoVectors]
  /\ UNCHANGED <<stored, hnsw, stale, disordered>>

LandLate(w) ==
  /\ hnsw' = CASE w.op = "put" -> w.points [] w.op = "delete" -> NoVectors [] OTHER -> hnsw
  /\ stale' = (stale /\ w.op # "clear")
  /\ late' = late \ {w}
  /\ disordered' = (disordered \/ w.overtaken)
  /\ UNCHANGED <<stored, pc, points>>

Dml ==
  \/ \E t \in Tag, rows \in Rows : InsertVertices(t, rows)
  \/ \E v \in Vid, t \in Tag, p \in Assigned : UpdateVertex(v, t, p)
  \/ \E vs \in (SUBSET Vid) \ {{}} : DeleteVertices(vs)
  \/ \E a, b \in Vid : InsertSameAs(a, b)

IndexDdl ==
  \/ \E written \in SUBSET BackfillEntries : CreateIndex(written)
  \/ \E purged \in SUBSET idx : DropIndex(purged)

Recommend(r) ==
  \/ ReadMarker(r)
  \/ ReadIndex(r)
  \/ PersistIndex(r)
  \/ DropVectorIndex(r)
  \/ ClearMarker(r)
  \/ AnnQuery(r)
  \/ Cancel(r)
  \/ Detach(r)

Searches ==
  \/ \E r \in Reader : Recommend(r)
  \/ \E w \in late : LandLate(w)

Next == Dml \/ IndexDdl \/ Searches

Spec == Init /\ [][Next]_vars

-----------------------------------------------------------------------------
(* What queries answer.                                                     *)

\* json_vertex_matches_tag: some tag with that name has the value.
Holds(v, t, x) == \E i \in DOMAIN vertex[v] : vertex[v][i] = [tag |-> t, prop |-> x]

\* LOOKUP ON the indexed tag WHERE property == x: by the scan, and by the index
\* with each candidate checked against its record.
ScanMatches(x) == {v \in Vid : Holds(v, IndexTag, x)}
IndexMatches(x) == {v \in Vid : <<x, v>> \in idx /\ Holds(v, IndexTag, x)}

\* MATCH (n:t): the tag-vid keys with each candidate checked, or the scan when
\* none of them is left.
LabelScan(t) == {v \in Vid : t \in TagsOf(vertex[v])}
LabelMatches(t) ==
  LET found == {v \in Vid : <<t, v>> \in tagvid /\ t \in TagsOf(vertex[v])}
  IN  IF found = {} THEN LabelScan(t) ELSE found

-----------------------------------------------------------------------------
(* Properties.                                                              *)

TypeOK ==
  /\ vertex \in [Vid -> Record]
  /\ tagvid \subseteq Tag \X Vid
  /\ defined \in BOOLEAN
  /\ idx \subseteq (Scalar \cup {"null"}) \X Vid
  /\ cut \in BOOLEAN
  /\ dense \in [Vid -> Embedding \cup {None}]
  /\ hnsw \in [Vid -> Embedding \cup {None}]
  /\ stale \in BOOLEAN
  /\ sameas \in [Vid -> Vid]
  /\ members \subseteq Vid \X Vid
  /\ class \in [Vid -> SUBSET Vid]
  /\ pc \in [Reader -> {"idle", "dirty", "clean", "persist", "persisted", "drop",
                        "dropped", "search"}]
  /\ points \in [Reader -> [Vid -> Embedding \cup {None}]]
  /\ skipped \subseteq Vid
  /\ late \subseteq [op : {"put", "delete", "clear"}, points : [Vid -> Embedding \cup {None}],
                     overtaken : BOOLEAN]
  /\ disordered \in BOOLEAN

\* The tag-vid keys are the tags of the stored vertices, through overwrites
\* that drop tags, updates that add them and merges that move them.  So MATCH
\* by a label finds every vertex that has it: it does not fall back to the
\* scan unless no key is valid.
TagVidExact ==
  /\ tagvid = UNION {TagVids(v, vertex[v]) : v \in Vid}
  /\ \A t \in Tag : LabelMatches(t) = LabelScan(t)

\* Unless an index DDL was cut, LOOKUP by a value finds through the tag index
\* the vertices that the scan finds, with one exception: a vertex numbered 0
\* that was there when the index was created is missed until some statement
\* writes it again.
LookupExact ==
  (defined /\ ~cut) => \A x \in Scalar : IndexMatches(x) = ScanMatches(x) \ skipped

\* No entry outlives the value of its vertex, and none outlives its index.
EntriesCurrent ==
  /\ idx \subseteq UNION {IndexKeys(v, vertex[v]) : v \in Vid}
  /\ ~defined => idx = {}

\* RECOMMEND scores no vector but one its vertex holds now, and finds the
\* vector of every vertex with one tag.
DenseExact ==
  \A v \in Vid :
    /\ dense[v] # None => \E i \in DOMAIN vertex[v] : vertex[v][i].prop = dense[v]
    /\ Len(vertex[v]) = 1 => dense[v] = DenseOf(vertex[v])

\* A RECOMMEND that searches the persisted index searches all the vectors of
\* the dense store and no others, whichever statements rebuild the index at the
\* same time, were cancelled while they did, or still have a write to land.  The
\* one exception: a write of a cancelled RECOMMEND that lands only after another
\* statement has changed vectors takes away that statement's marker or puts back
\* an index of the old vectors, and until vectors change again a search may miss
\* the change.
SearchComplete == \A r \in Reader : pc[r] = "search" => hnsw = dense \/ disordered

\* Two vertices have the same representative exactly if sameAs edges connect
\* them; it is the smallest of them, each of the others points straight to it
\* and is listed as its member.
SameAsExact ==
  /\ \A v \in Vid : sameas[v] = Min(class[v])
  /\ members = {<<sameas[v], v>> : v \in {v \in Vid : sameas[v] # v}}

\* Nothing is stored under a merged vertex: every write goes to its
\* representative, and a merge leaves none of the old views behind.
MergedAreEmpty ==
  \A v \in Vid : sameas[v] # v =>
    /\ vertex[v] = Absent
    /\ dense[v] = None
    /\ \A t \in Tag : <<t, v>> \notin tagvid
    /\ \A k \in idx : k[2] # v

\* Vertices that were merged are never deleted: no statement but another merge
\* makes the record of a class disappear.
MergedStay ==
  \A v \in Vid : (vertex[v] # Absent /\ vertex'[v] = Absent) =>
     (Cardinality(class[v]) = 1 \/ sameas'[v] # v)
=============================================================================
