----------------------------- MODULE EdgeViews -----------------------------
(***************************************************************************)
(* The redundant views of the edges of one edge type in one space: the     *)
(* forward record, the reverse (in-edge) record, the degree counters and   *)
(* the entries of a secondary index on one property.  They are maintained  *)
(* by INSERT/UPDATE/DELETE EDGE (executor/dml.rs), by the closure rebuild  *)
(* (executor/inference.rs) and by CREATE/DROP EDGE INDEX                   *)
(* (executor/ddl.rs, byoridb-storage/src/index.rs), and LOOKUP             *)
(* (executor/dql.rs) answers from the index when there is one.             *)
(*                                                                         *)
(* A DML statement is one transaction (dml_atomic.rs) under the space's    *)
(* write lock.  Index DDL holds the lock too but writes in several         *)
(* transactions, so that a crash, an error or a cancelled request cuts it  *)
(* between any two of them.                                                *)
(*                                                                         *)
(* Left out: a transaction already handed to a blocking thread when its    *)
(* request is cancelled, which may commit after the lock has passed on     *)
(* (store.rs runs every write in spawn_blocking; InferenceFence's Detach   *)
(* models it for statements), and the merge of sameAs individuals, which   *)
(* rewrites the edges of both and recounts the degrees (sameas.rs).        *)
(***************************************************************************)
EXTENDS Integers, Sequences, FiniteSets, FiniteSetsExt

CONSTANTS
  Edge,      \* edge keys <<src, dst, ranking>>
  Value,     \* values of the indexed property, other than null
  MaxRows,   \* rows of one INSERT EDGE
  ScanCap    \* max_scan_limit; 0 is unlimited

ASSUME EdgeViewsAssumption ==
  /\ Edge \subseteq Int \X Int \X Int
  /\ IsFiniteSet(Edge)
  /\ MaxRows \in Nat \ {0}
  /\ ScanCap \in Nat
  /\ {"missing", "null", "none"} \cap Value = {}

Src(e) == e[1]
Dst(e) == e[2]
Ranking(e) == e[3]
Vid == {Src(e) : e \in Edge} \cup {Dst(e) : e \in Edge}

\* The property of a stored edge: not among its properties, an explicit null,
\* or a value.
Prop == Value \cup {"missing", "null"}

Asserted(p) == [prop |-> p, inferred |-> FALSE]
Inferred == [prop |-> "missing", inferred |-> TRUE]
Absent == [prop |-> "none", inferred |-> FALSE]
Record == {Asserted(p) : p \in Prop} \cup {Inferred, Absent}

\* Mutant: a missing property gets a key of its own.
IndexValueRaw(p) == p

\* byoridb_value_to_index_value: a property that is missing is indexed as null.
IndexValue(p) == IF p \in Value THEN p ELSE "null"
Entry(e, r) == <<IndexValue(r.prop), e>>
Entries == (Value \cup {"null"}) \X Edge

VARIABLES
  out,      \* {space}:edge: records
  inn,      \* {space}:in-edge: records
  outdeg,   \* {space}:outdeg: counters; 0 when the key is absent
  indeg,    \* {space}:indeg: counters
  defined,  \* the index has a persisted definition
  idx,      \* its entries
  ddl,      \* the index DDL that holds the lock
  todo,     \* entries it has yet to write or delete
  cut,      \* an index DDL was cut and the index not dropped since (history)
  dirty     \* the inference marker: only a rebuild may run

vars == <<out, inn, outdeg, indeg, defined, idx, ddl, todo, cut, dirty>>
data == <<out, inn, outdeg, indeg>>

Stored(e) == out[e] # Absent
IsAsserted(e) == Stored(e) /\ ~out[e].inferred

Init ==
  /\ out = [e \in Edge |-> Absent]
  /\ inn = [e \in Edge |-> Absent]
  /\ outdeg = [v \in Vid |-> 0]
  /\ indeg = [v \in Vid |-> 0]
  /\ defined = FALSE
  /\ idx = {}
  /\ ddl = "none"
  /\ todo = {}
  /\ cut = FALSE
  /\ dirty = FALSE

\* A statement got the write lock and passed ensure_inference_clean.
Admitted == ddl = "none" /\ ~dirty

\* KVStore::add_counters: a count that is not positive removes the key.
AddCounters(counters, delta) ==
  [v \in Vid |-> IF counters[v] + delta[v] > 0 THEN counters[v] + delta[v] ELSE 0]

\* Degree deltas of a set of edges, each counted once.
OutDelta(es) == [v \in Vid |-> Cardinality({e \in es : Src(e) = v})]
InDelta(es) == [v \in Vid |-> Cardinality({e \in es : Dst(e) = v})]
Minus(delta) == [v \in Vid |-> -delta[v]]

\* edge_index_keys: the entries of what is stored under the named keys.
OldEntries(es) == {Entry(e, out[e]) : e \in {e \in es : Stored(e)}}

\* Mutant: a key that the same batch writes is deleted again.
ReindexDropsPuts(olds, puts) == IF defined THEN (idx \cup puts) \ olds ELSE idx

\* A batch puts, then deletes; deletes of keys it has put are left out.
\* Without a definition, mutation_indexes is empty.
Reindex(olds, puts) ==
  IF defined THEN (idx \cup puts) \ (olds \ puts) ELSE idx

-----------------------------------------------------------------------------
(* DML.  Whether the space has semantic edge types, and so whether the      *)
(* statement raises the marker, is left open.                               *)

Row == [edge : Edge, prop : Prop]
Rows == UNION {[1..n -> Row] : n \in 1..MaxRows}
Named(rows) == {rows[i].edge : i \in DOMAIN rows}
RowsOf(rows, e) == {i \in DOMAIN rows : rows[i].edge = e}

\* final_edges: the last row of a key wins.
FinalEdge(rows, e) == Asserted(rows[Max(RowsOf(rows, e))].prop)

\* Mutant: an inferred record is taken for an asserted one.
NewEdgesAbsent(rows) == {e \in Named(rows) : ~Stored(e)}

\* edge_is_new, on the first row of a key: absent, or only inferred so far.
NewEdges(rows) == {e \in Named(rows) : ~IsAsserted(e)}

InsertEdges(rows) ==
  /\ Admitted
  /\ out' = [e \in Edge |-> IF e \in Named(rows) THEN FinalEdge(rows, e) ELSE out[e]]
  /\ inn' = [e \in Edge |-> IF e \in Named(rows) THEN FinalEdge(rows, e) ELSE inn[e]]
  /\ idx' = Reindex(OldEntries(Named(rows)),
                    {Entry(e, FinalEdge(rows, e)) : e \in Named(rows)})
  /\ outdeg' = AddCounters(outdeg, OutDelta(NewEdges(rows)))
  /\ indeg' = AddCounters(indeg, InDelta(NewEdges(rows)))
  /\ dirty' \in BOOLEAN
  /\ UNCHANGED <<defined, ddl, todo, cut>>

\* execute_update_edge, past its no-ops (no such edge, WHEN is false).  SET
\* assigns the property or leaves it; the record becomes an assertion.  The
\* index is left alone when both records have the same index key.
UpdateEdge(e, p) ==
  /\ Admitted
  /\ Stored(e)
  /\ p \in Value \cup {"null", out[e].prop}
  /\ out' = [out EXCEPT ![e] = Asserted(p)]
  /\ inn' = [inn EXCEPT ![e] = Asserted(p)]
  /\ idx' = IF Entry(e, out[e]) = Entry(e, Asserted(p)) THEN idx
            ELSE Reindex({Entry(e, out[e])}, {Entry(e, Asserted(p))})
  /\ LET promoted == IF out[e].inferred THEN {e} ELSE {}
     IN  /\ outdeg' = AddCounters(outdeg, OutDelta(promoted))
         /\ indeg' = AddCounters(indeg, InDelta(promoted))
  /\ dirty' \in BOOLEAN
  /\ UNCHANGED <<defined, ddl, todo, cut>>

\* execute_delete_edge: keys that are not stored are skipped, one that is only
\* inferred fails the statement.
DeleteEdges(es) ==
  /\ Admitted
  /\ \A e \in es : ~out[e].inferred
  /\ out' = [e \in Edge |-> IF e \in es THEN Absent ELSE out[e]]
  /\ inn' = [e \in Edge |-> IF e \in es /\ Stored(e) THEN Absent ELSE inn[e]]
  /\ idx' = Reindex(OldEntries(es), {})
  /\ outdeg' = AddCounters(outdeg, Minus(OutDelta({e \in es : Stored(e)})))
  /\ indeg' = AddCounters(indeg, Minus(InDelta({e \in es : Stored(e)})))
  /\ dirty' \in BOOLEAN
  /\ UNCHANGED <<defined, ddl, todo, cut>>

-----------------------------------------------------------------------------
(* rematerialize_space: inferred records go, the reverse view is rebuilt    *)
(* from the asserted forward records, and the closure is written one pair   *)
(* of records at a time.  What the rules derive is in InferenceFence; here  *)
(* it is any set of triples at ranking 0 that no asserted record states.  A *)
(* rebuild that fails or is cut after some of them leaves the marker.       *)

Derivable ==
  {e \in Edge : /\ Ranking(e) = 0
                /\ \A f \in Edge : Src(f) = Src(e) /\ Dst(f) = Dst(e) => ~IsAsserted(f)}

ForwardView(derived) ==
  [e \in Edge |-> IF IsAsserted(e) THEN out[e]
                  ELSE IF e \in derived THEN Inferred ELSE Absent]

ReverseView(derived) ==
  [e \in Edge |-> IF IsAsserted(e) THEN out[e]
                  ELSE IF e \in derived THEN Inferred ELSE Absent]

Rebuild(derived) ==
  /\ dirty
  /\ out' = ForwardView(derived)
  /\ inn' = ReverseView(derived)
  /\ dirty' \in BOOLEAN
  /\ UNCHANGED <<outdeg, indeg, defined, idx, ddl, todo, cut>>

-----------------------------------------------------------------------------
(* Index DDL.                                                               *)

\* Mutant: only the default ranking is scanned.
BackfillRankingZero ==
  {Entry(e, out[e]) : e \in {e \in Edge : Stored(e) /\ Ranking(e) = 0}}

\* What backfill_edge_index scans: every stored record, inferred ones too.
BackfillEntries == {Entry(e, out[e]) : e \in {e \in Edge : Stored(e)}}

\* CREATE EDGE INDEX persists the definition first.
CreateIndex ==
  /\ Admitted
  /\ ~defined
  /\ defined' = TRUE
  /\ ddl' = "backfill"
  /\ todo' = BackfillEntries
  /\ UNCHANGED <<data, idx, cut, dirty>>

\* One batch_put of the backfill, of any size up to the chunk.
BackfillChunk(chunk) ==
  /\ ddl = "backfill"
  /\ idx' = idx \cup chunk
  /\ todo' = todo \ chunk
  /\ UNCHANGED <<data, defined, ddl, cut, dirty>>

CreateIndexDone ==
  /\ ddl = "backfill"
  /\ todo = {}
  /\ ddl' = "none"
  /\ UNCHANGED <<data, defined, idx, todo, cut, dirty>>

\* drop_index_with_data: the entries go one by one, then the definition.
DropIndex ==
  /\ Admitted
  /\ defined
  /\ ddl' = "purge"
  /\ todo' = idx
  /\ UNCHANGED <<data, defined, idx, cut, dirty>>

DeleteIndexEntry(k) ==
  /\ ddl = "purge"
  /\ idx' = idx \ {k}
  /\ todo' = todo \ {k}
  /\ UNCHANGED <<data, defined, ddl, cut, dirty>>

DeletePersistedDef ==
  /\ ddl = "purge"
  /\ todo = {}
  /\ defined' = FALSE
  /\ ddl' = "none"
  /\ cut' = FALSE
  /\ UNCHANGED <<data, idx, todo, dirty>>

\* A crash, a failed write or a cancelled request ends index DDL early.
Cut ==
  /\ ddl # "none"
  /\ ddl' = "none"
  /\ todo' = {}
  /\ cut' = TRUE
  /\ UNCHANGED <<data, defined, idx, dirty>>

Dml ==
  \/ \E rows \in Rows : InsertEdges(rows)
  \/ \E e \in Edge, p \in Prop : UpdateEdge(e, p)
  \/ \E es \in (SUBSET Edge) \ {{}} : DeleteEdges(es)

IndexDdl ==
  \/ CreateIndex
  \/ \E chunk \in (SUBSET todo) \ {{}} : BackfillChunk(chunk)
  \/ CreateIndexDone
  \/ DropIndex
  \/ \E k \in todo : DeleteIndexEntry(k)
  \/ DeletePersistedDef
  \/ Cut

Next ==
  \/ Dml
  \/ \E derived \in SUBSET Derivable : Rebuild(derived)
  \/ IndexDdl

Spec == Init /\ [][Next]_vars

-----------------------------------------------------------------------------
(* LOOKUP ... WHERE property == v.                                          *)

\* execute_lookup_edge_scan.
ScanMatches(v) == {e \in Edge : Stored(e) /\ out[e].prop = v}

\* lookup_edge: candidates from the index, at most one past the cap.
Candidates(v) == {e \in Edge : <<v, e>> \in idx}

\* ensure_lookup_scan_complete: too many candidates fail the query.
LookupFails(v) == ScanCap # 0 /\ Cardinality(Candidates(v)) > ScanCap

\* build_local_edge_index_result: each candidate is checked against the stored
\* record.
IndexMatches(v) == {e \in Candidates(v) : Stored(e) /\ out[e].prop = v}

-----------------------------------------------------------------------------
(* Properties.                                                              *)

TypeOK ==
  /\ out \in [Edge -> Record]
  /\ inn \in [Edge -> Record]
  /\ outdeg \in [Vid -> Nat]
  /\ indeg \in [Vid -> Nat]
  /\ defined \in BOOLEAN
  /\ idx \subseteq Entries
  /\ ddl \in {"none", "backfill", "purge"}
  /\ todo \subseteq Entries
  /\ cut \in BOOLEAN
  /\ dirty \in BOOLEAN

\* Traversing backwards shows the same edges, with the same payload and
\* origin, as traversing forwards: the in-edge copies that INSERT, UPDATE,
\* DELETE and the rebuild write never disagree with the forward records.
MirrorExact == inn = out

\* The degree counters are the numbers of asserted edges, however often an
\* edge is reinserted, derived, promoted by UPDATE or INSERT, and deleted.
DegreesExact ==
  \A v \in Vid :
    /\ outdeg[v] = Cardinality({e \in Edge : IsAsserted(e) /\ Src(e) = v})
    /\ indeg[v] = Cardinality({e \in Edge : IsAsserted(e) /\ Dst(e) = v})

\* Unless an index DDL was cut, LOOKUP by a value finds through the index
\* exactly the edges that the scan finds, or fails.  After a cut, dropping and
\* recreating the index restores this.
LookupExact ==
  (defined /\ ddl = "none" /\ ~cut) =>
    \A v \in Value : LookupFails(v) \/ IndexMatches(v) = ScanMatches(v)

\* No entry with a value outlives the value: each one is what its edge holds
\* now, so stale entries cannot use up the candidate budget of LOOKUP.  The
\* entries of a dropped index are gone when its definition is.
EntriesCurrent ==
  /\ \A k \in idx : k[1] \in Value => out[k[2]].prop = k[1]
  /\ ~defined => idx = {}

-----------------------------------------------------------------------------
(* The inductive invariant behind them.                                     *)

\* Every value that a record holds has its entry.
Covered(view, entries) ==
  \A e \in Edge : view[e].prop \in Value => Entry(e, view[e]) \in entries

\* Every entry with a value is what its edge holds.
Current(view, entries) ==
  \A k \in entries : k[1] \in Value => view[k[2]].prop = k[1]

\* Forward and reverse records agree at every moment, entries with a value are
\* current, nothing is left of a dropped index, and the entries together with
\* those that a backfill still has to write cover every value, unless an index
\* DDL was cut (execute_insert_edges, rematerialize_space, create_edge_index).
IndexInv ==
  /\ TypeOK
  /\ MirrorExact
  /\ Current(out, idx)
  /\ ~defined => idx = {}
  /\ ddl = "none" => todo = {}
  /\ ddl # "none" => defined /\ ~dirty
  /\ ddl = "backfill" => Current(out, todo)
  /\ ddl = "purge" => idx \subseteq todo
  /\ (defined /\ ~cut /\ ddl # "purge") => Covered(out, idx \cup todo)

-----------------------------------------------------------------------------
(* What the documentation says, and the code does not do.                   *)

\* What docs/PLAN.md QRY-2 asks of every LOOKUP, also after an index DDL that
\* was cut: the complete result or an error.
LookupComplete ==
  (defined /\ ddl = "none") =>
    \A v \in Value : LookupFails(v) \/ IndexMatches(v) = ScanMatches(v)
=============================================================================
