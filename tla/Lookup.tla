------------------------------- MODULE Lookup -------------------------------
(***************************************************************************)
(* LOOKUP and FETCH (executor/dql.rs), EXPLAIN (explain.rs) and statements *)
(* of several clauses (executor/mod.rs).  Besides what the other           *)
(* statements read, the store has                                          *)
(*   schema, eschema    the columns of the tags and of the edge types: a   *)
(*                      function from names to functions from columns to   *)
(*                      types                                              *)
(*   eindexes, estale   the indexes on edge types, and the edges they      *)
(*                      still hold that were deleted                       *)
(*   badv               the vertices whose record does not decode          *)
(*   past               what the history holds: vertices and edges by time *)
(*   cluster            whether a cluster answers                          *)
(***************************************************************************)
EXTENDS Traverse

-----------------------------------------------------------------------------
(* The window, and the budget: one candidate too many is asked for.        *)

lookup_window(g, plan) ==
  [offset |-> IF plan.offset = -1 THEN 0 ELSE plan.offset,
   limit |-> plan.limit,
   fetch |-> IF plan.limit = -1 THEN -1 ELSE (IF plan.offset = -1 THEN 0 ELSE plan.offset) + plan.limit,
   probe |-> IF g.cap = 0 THEN -1 ELSE g.cap + 1]
Truncated(s, n) == IF n = -1 THEN s ELSE SubSeq(s, 1, IF n < Len(s) THEN n ELSE Len(s))
is_satisfied(w, n) == w.fetch # -1 /\ n >= w.fetch
apply(w, rows) == Truncated(SubSeq(rows, w.offset + 1, Len(rows)), w.limit)
ensure_lookup_scan_complete(w, n) == w.probe = -1 \/ n < w.probe

(* Rows are made until the window is full; a candidate that fails before   *)
(* that fails the statement.                                               *)
Taken(w, results) ==
  LET Before(i) == Len(FlattenSeq([j \in 1 .. i - 1 |-> results[j].rows]))
      needed == {i \in DOMAIN results : ~is_satisfied(w, Before(i))}
      rows == Gather([i \in 1 .. Cardinality(needed) |-> results[i]])
  IN  rows
Answer(g, w, results) ==
  LET rows == check_result_budget(g, Taken(w, results)) IN IF rows.err THEN Fail ELSE Ok(apply(w, rows.rows))

-----------------------------------------------------------------------------
(* One vertex or edge.                                                     *)

Named(rec, names) == [n \in {<<p>> : p \in names} |-> rec[n[1]]]
decode_lookup_vertex(g, v) == v \notin g.badv
json_vertex_matches_tag(g, v, tag, filter) ==
  LET carried == SelectSeq(g.vertices[v], LAMBDA t : t.name = tag)
  IN  carried # << >> /\ filter_evaluate(filter, Record(tag, Named(carried[1].props, DOMAIN carried[1].props)))
edge_matches(e, type, filter) ==
  e.type = type /\ filter_evaluate(filter, Record(type, Named(e.props, DOMAIN e.props)))

TagRow(g, v) == RowOf(<<display_match_vid(g, v), <<"tags", g.vertices[v]>>>>)
EdgeRow(g, e) == RowOf(<<display_match_vid(g, e.src), display_match_vid(g, e.dst), IntV(e.rank)>>)
TagCandidate(g, v, tag, filter) ==
  CASE v \notin DOMAIN g.vertices -> Ok(<< >>)
    [] ~decode_lookup_vertex(g, v) -> Fail
    [] OTHER -> IF json_vertex_matches_tag(g, v, tag, filter) THEN TagRow(g, v) ELSE Ok(<< >>)
EdgeCandidate(g, e, type, filter) ==
  CASE e \notin Range(g.edges) -> Ok(<< >>)
    [] e \in g.bad -> Fail
    [] OTHER -> IF edge_matches(e, type, filter) THEN EdgeRow(g, e) ELSE Ok(<< >>)

(* A storage node encodes the values it sends with bincode.                *)
bincode(v) == <<"bincode", v>>
from_bincode(bytes) == bytes[2]
from_json(bytes) == IF bytes[1] = "json" THEN bytes[2] ELSE Null
decode_proto_properties(props) == [p \in DOMAIN props |-> from_bincode(bincode(props[p]))]
decode_proto_vertex(tags) == [i \in DOMAIN tags |-> [tags[i] EXCEPT !.props = decode_proto_properties(@)]]
decode_proto_edge(e) == [e EXCEPT !.props = decode_proto_properties(@)]
Received(g) ==
  [g EXCEPT !.vertices = [v \in DOMAIN @ |-> decode_proto_vertex(@[v])],
            !.edges = [i \in DOMAIN @ |-> decode_proto_edge(@[i])]]

-----------------------------------------------------------------------------
(* Which index serves a condition.                                         *)

lookup_targets_edge(g, plan) == plan.edge \/ (plan.name \notin DOMAIN g.schema /\ plan.name \in DOMAIN g.eschema)

RECURSIVE expression_contains_ordered_range(_)
expression_contains_ordered_range(e) ==
  CASE Kind(e) = "bin" -> \/ e[2] \in Ordered
                          \/ expression_contains_ordered_range(e[3]) \/ expression_contains_ordered_range(e[4])
    [] Kind(e) = "un" -> expression_contains_ordered_range(e[3])
    [] Kind(e) = "fn" -> \E i \in DOMAIN e[3] : expression_contains_ordered_range(e[3][i])
    [] Kind(e) = "items" -> \E i \in DOMAIN e[2] : expression_contains_ordered_range(e[2][i])
    [] OTHER -> FALSE

(* Whether one ordered scan of the index sees every value the comparison   *)
(* may accept.  (AnyNumber: a column of floats is trusted too, though its  *)
(* whole numbers are kept apart.)                                          *)
AnyNumber(schema, name, field, value) ==
  /\ name \in DOMAIN schema
  /\ field \in DOMAIN schema[name]
  /\ \/ schema[name][field] = "bool" /\ T(value) = "bool"
     \/ schema[name][field] \in {"int", "float"} /\ Numeric(value)
range_index_boundary(schema, name, field, value) ==
  /\ name \in DOMAIN schema
  /\ field \in DOMAIN schema[name]
  /\ \/ schema[name][field] = "bool" /\ T(value) = "bool"
     \/ schema[name][field] = "int" /\ T(value) = "int"

OneField(indexes, name, field) == First(indexes, LAMBDA i : i.tag = name /\ i.fields = <<field>>)
equality_index_values(v) == IF T(v) = "float" THEN << >> ELSE <<byoridb_value_to_index_value(v)>>
byoridb_value_to_proto_index_value(v) == byoridb_value_to_index_value(v)
IndexValues(g, v) ==
  IF g.cluster /\ equality_index_values(v) # << >> THEN <<byoridb_value_to_proto_index_value(v)>>
  ELSE equality_index_values(v)
resolve_local_partition_num(g) == g.parts

(* What the indexes hold of one partition.                                 *)
PartOf(g, v) == (v % g.parts) + 1
InRange(held, value, op) == T(held) = T(value) /\ OrderWithBools(held, value) \in Accepts(op)
lookup_tag_range(g, part, index, value, op) ==
  Ascending({v \in DOMAIN g.vertices \cup g.stale :
               /\ PartOf(g, v) = part
               /\ \/ v \in g.stale
                  \/ \E t \in Range(g.vertices[v]) :
                        t.name = index.tag /\ InRange(Held(t, index.fields[1]), value, op)})
HeldByEdge(g, part, index) ==
  SelectSeq(g.edges \o g.estale, LAMBDA e : PartOf(g, e.src) = part /\ e.type = index.tag)
lookup_edge(g, part, index, values) ==
  SelectSeq(HeldByEdge(g, part, index),
            LAMBDA e : e \in Range(g.estale) \/ \A i \in DOMAIN values : Held(e, index.fields[i]) = values[i])
lookup_edge_range(g, part, index, value, op) ==
  SelectSeq(HeldByEdge(g, part, index),
            LAMBDA e : e \in Range(g.estale) \/ InRange(Held(e, index.fields[1]), value, op))

stable_dedupe_vids(vids) == Distinct(vids)
stable_dedupe_edge_refs(refs) == Distinct(refs)

(* The candidates of all partitions, unless one of them has too many.      *)
Candidates(w, parts) ==
  LET found == [p \in DOMAIN parts |-> Truncated(parts[p], w.probe)]
  IN  IF \A p \in DOMAIN found : ensure_lookup_scan_complete(w, Len(found[p])) THEN Ok(FlattenSeq(found)) ELSE Fail
(* A cluster counts the candidates of all partitions together.             *)
RemoteCandidates(g, parts) ==
  LET found == FlattenSeq(parts)
  IN  IF g.cap > 0 /\ Len(found) > g.cap THEN Fail ELSE Ok(found)

build_local_tag_index_result(g, w, tag, filter, candidates) ==
  LET vids == stable_dedupe_vids(candidates.rows)
  IN  IF candidates.err THEN Fail ELSE Answer(g, w, [i \in DOMAIN vids |-> TagCandidate(g, vids[i], tag, filter)])
build_local_edge_index_result(g, w, type, filter, candidates) ==
  LET refs == stable_dedupe_edge_refs(candidates.rows)
  IN  IF candidates.err THEN Fail ELSE Answer(g, w, [i \in DOMAIN refs |-> EdgeCandidate(g, refs[i], type, filter)])

(* None when no index serves a range.                                      *)
try_execute_range_index_lookup(g, plan, w) ==
  LET c == extract_range_condition(plan.where)
      index == OneField(g.indexes, plan.name, c[1])
      parts == [p \in 1 .. resolve_local_partition_num(g) |-> lookup_tag_range(g, p, index, c[2], c[3])]
  IN  IF c = NoRange THEN None
      ELSE IF g.cluster THEN Fail
      ELSE IF index = None \/ ~range_index_boundary(g.schema, plan.name, c[1], c[2]) THEN None
      ELSE build_local_tag_index_result(g, w, plan.name, Compare(c[1], c[3], c[2]), Candidates(w, parts))
try_execute_edge_range_index_lookup(g, plan, w) ==
  LET c == extract_range_condition(plan.where)
      index == OneField(g.eindexes, plan.name, c[1])
      parts == [p \in 1 .. resolve_local_partition_num(g) |-> lookup_edge_range(g, p, index, c[2], c[3])]
  IN  IF c = NoRange THEN None
      ELSE IF g.cluster THEN Fail
      ELSE IF index = None \/ ~range_index_boundary(g.eschema, plan.name, c[1], c[2]) THEN None
      ELSE build_local_edge_index_result(g, w, plan.name, Compare(c[1], c[3], c[2]), Candidates(w, parts))

ScanFilter(plan) == IF plan.where = NoExpr THEN FilterTrue ELSE expr_to_filter_expr(plan.where)
execute_lookup_scan(g, plan, w) ==
  LET all == Truncated(Ascending(DOMAIN g.vertices), w.probe)
      filter == ScanFilter(plan)
  IN  IF g.cluster \/ filter = NoFilter \/ ~ensure_lookup_scan_complete(w, Len(all)) THEN Fail
      ELSE Answer(g, w, [i \in DOMAIN all |-> TagCandidate(g, all[i], plan.name, filter)])
execute_lookup_edge_scan(g, plan, w) ==
  LET all == Truncated(g.edges, w.probe)
      filter == ScanFilter(plan)
  IN  IF g.cluster \/ filter = NoFilter \/ ~ensure_lookup_scan_complete(w, Len(all)) THEN Fail
      ELSE Answer(g, w, [i \in DOMAIN all |-> EdgeCandidate(g, all[i], plan.name, filter)])

EqualityTag(g, plan, w) ==
  LET c == extract_eq_condition(plan.where)
      index == OneField(g.indexes, plan.name, c[1])
      parts == [p \in 1 .. g.parts |-> lookup_tag(g, p, index, IndexValues(g, c[2]))]
      found == IF g.cluster THEN RemoteCandidates(g, parts) ELSE Candidates(w, parts)
  IN  IF c = NoPair THEN None
      ELSE IF index = None THEN None
      ELSE build_local_tag_index_result(IF g.cluster THEN Received(g) ELSE g, w, plan.name, Compare(c[1], "==", c[2]), found)
EqualityEdge(g, plan, w) ==
  LET c == extract_eq_condition(plan.where)
      index == OneField(g.eindexes, plan.name, c[1])
      parts == [p \in 1 .. g.parts |-> lookup_edge(g, p, index, IndexValues(g, c[2]))]
      found == IF g.cluster THEN RemoteCandidates(g, parts) ELSE Candidates(w, parts)
  IN  IF c = NoPair THEN None
      ELSE IF index = None THEN None
      ELSE build_local_edge_index_result(IF g.cluster THEN Received(g) ELSE g, w, plan.name, Compare(c[1], "==", c[2]), found)

Or(r, s) == IF r = None THEN s ELSE r
execute_lookup_edge(g, plan, w) ==
  IF plan.where = NoExpr THEN execute_lookup_edge_scan(g, plan, w)
  ELSE Or(try_execute_edge_range_index_lookup(g, plan, w), Or(EqualityEdge(g, plan, w), execute_lookup_edge_scan(g, plan, w)))
execute_lookup(g, plan) ==
  LET w == lookup_window(g, plan)
  IN  IF Overflows(plan) THEN Fail
      ELSE IF plan.limit = 0 THEN Ok(<< >>)
      ELSE IF lookup_targets_edge(g, plan) THEN execute_lookup_edge(g, plan, w)
      ELSE IF plan.where = NoExpr THEN execute_lookup_scan(g, plan, w)
      ELSE IF g.cluster /\ expression_contains_ordered_range(plan.where) THEN Fail
      ELSE Or(try_execute_range_index_lookup(g, plan, w), Or(EqualityTag(g, plan, w), execute_lookup_scan(g, plan, w)))

-----------------------------------------------------------------------------
(* FETCH.  A plan has vids or var and col, tags, refs for edges, and asof, *)
(* a time or -1.                                                           *)

At(g, asof) == IF asof = -1 THEN g ELSE [g EXCEPT !.vertices = g.past[asof].vertices, !.edges = g.past[asof].edges]
fetch_sources(plan, vars) ==
  LET table == vars[plan.var]
      named == {c \in DOMAIN table.columns : table.columns[c] = plan.col}
      column == IF plan.col = "" \/ named = {} THEN 1 ELSE CHOOSE c \in named : \A d \in named : c <= d
      cells == [i \in DOMAIN table.rows |-> IF column \in DOMAIN table.rows[i] THEN table.rows[i][column] ELSE Missing]
  IN  IF plan.var = "" THEN Ok(plan.vids)
      ELSE IF plan.var \notin DOMAIN vars THEN Fail
      ELSE Ok(SelectSeq(cells, LAMBDA v : T(v) \in {"int", "str"}))
FetchedTags(g, v, tags) ==
  LET asked == SelectSeq(g.vertices[v], LAMBDA t : tags = << >> \/ t.name \in Range(tags))
  IN  IF tags # << >> /\ asked = << >> THEN Ok(<< >>) ELSE RowOf(<<display_match_vid(g, v), <<"tags", asked>>>>)

FetchedEdges(g, type, ref, src, dst, asof) ==
  SelectSeq(At(g, asof).edges,
            LAMBDA e : /\ e.src = src /\ e.dst = dst /\ e \notin g.bad
                       /\ (type = 0 \/ e.type = type)
                       /\ (ref.rank = -1 \/ e.rank = ref.rank))
execute_fetch_edges_local(g, plan) ==
  LET type == IF plan.tags = << >> THEN 0 ELSE plan.tags[1]      \* 0: any type
      Ref(ref) ==
        LET src == resolve_vid(g, ref.src)
            dst == resolve_vid(g, ref.dst)
            found == FetchedEdges(g, type, ref, src.rows[1], dst.rows[1], plan.asof)
            Row(e) == LET v == edge_data_to_value(g, e) IN IF v = Error THEN Fail ELSE Ok(<<v>>)
        IN  IF src.err THEN Fail
            ELSE IF src.rows = << >> THEN Ok(<< >>)
            ELSE IF dst.err THEN Fail
            ELSE IF dst.rows = << >> THEN Ok(<< >>)
            ELSE Gather([i \in DOMAIN found |-> Row(found[i])])
  IN  check_result_budget(g, Gather([i \in DOMAIN plan.refs |-> Ref(plan.refs[i])]))
execute_fetch_local(g, plan, vars) ==
  LET named == fetch_sources(plan, vars)
      found == Gather([i \in DOMAIN named.rows |-> resolve_vid(g, named.rows[i])])
      vids == [i \in DOMAIN found.rows |-> representative_of(g, found.rows[i])]
      h == At(g, plan.asof)
      Row(v) == IF v \notin DOMAIN h.vertices \/ v \in g.badv THEN Ok(<< >>) ELSE FetchedTags(h, v, plan.tags)
  IN  IF plan.refs # << >> THEN execute_fetch_edges_local(g, plan)
      ELSE IF named.err \/ found.err THEN Fail
      ELSE check_result_budget(g, Gather([i \in DOMAIN vids |-> Row(vids[i])]))

(* A cluster is asked for the vertices named in the statement; here the    *)
(* values it sends are read as JSON, and what is not JSON is null.         *)
Remotely(t) == [t EXCEPT !.props = [p \in DOMAIN @ |-> from_json(bincode(@[p]))]]
execute_fetch_distributed(g, plan) ==
  LET found == Gather([i \in DOMAIN plan.vids |-> resolve_vid(g, plan.vids[i])])
      answered == SelectSeq(found.rows, LAMBDA v : v \in DOMAIN g.vertices)
      far == [g EXCEPT !.vertices = [v \in DOMAIN @ |-> [i \in DOMAIN @[v] |-> Remotely(@[v][i])]]]
  IN  IF found.err THEN Fail
      ELSE check_result_budget(g, Gather([i \in DOMAIN answered |-> FetchedTags(far, answered[i], plan.tags)]))
execute_fetch(g, plan, vars) ==
  IF g.cluster THEN execute_fetch_distributed(g, plan) ELSE execute_fetch_local(g, plan, vars)

-----------------------------------------------------------------------------
(* Properties.                                                             *)

Cells(r) == {r.rows[i] : i \in DOMAIN r.rows}
Meets(filter, name, props) == filter_evaluate(filter, Record(name, Named(props, DOMAIN props)))
Due(g, plan) ==
  LET filter == ScanFilter(plan)
      vids == {v \in DOMAIN g.vertices \ g.badv :
                 \E t \in Range(g.vertices[v]) : t.name = plan.name /\ Meets(filter, plan.name, t.props)}
      edges == {e \in Range(g.edges) \ g.bad : e.type = plan.name /\ Meets(filter, plan.name, e.props)}
  IN  IF filter = NoFilter THEN {}
      ELSE IF lookup_targets_edge(g, plan) THEN UNION {Cells(EdgeRow(g, e)) : e \in edges}
      ELSE UNION {Cells(TagRow(g, v)) : v \in vids}

(* A LOOKUP that answers, answers with different rows of the records that  *)
(* pass its filter (PushdownAgrees has how that differs from GO's          *)
(* evaluator), as many as its window leaves, whether an index, a scan or a *)
(* cluster found them, and whatever an index still holds of records that   *)
(* are gone; on one node it fails only if the condition cannot be filtered *)
(* by, a limit is exceeded or a record does not decode.                    *)
LookupExact(g, plan) ==
  LET result == execute_lookup(g, plan)
      due == Due(g, plan)
      left == IF Cardinality(due) > Max({0, plan.offset}) THEN Cardinality(due) - Max({0, plan.offset}) ELSE 0
      size == Cardinality(DOMAIN g.vertices \cup g.stale) + Len(g.edges) + Len(g.estale)
  IN  IF result.err
      THEN g.cluster \/ ScanFilter(plan) = NoFilter \/ Overflows(plan)
             \/ g.bad # {} \/ g.badv # {} \/ (g.cap > 0 /\ size > g.cap) \/ (g.budget > 0 /\ size > g.budget)
      ELSE /\ Cells(result) \subseteq due
           /\ Cardinality(Cells(result)) = Len(result.rows)
           /\ Len(result.rows) = IF plan.limit = -1 \/ left < plan.limit THEN left ELSE plan.limit

(* The three statements that list the vertices of a tag, LOOKUP ON it,     *)
(* MATCH (a:tag) and FETCH PROP ON it of every id, list the same vertices. *)
Everyone(g) == [i \in DOMAIN Ascending(DOMAIN g.vertices) |-> display_match_vid(g, Ascending(DOMAIN g.vertices)[i])]
ByTag(tag) ==
  [name |-> tag, edge |-> FALSE, where |-> NoExpr, offset |-> -1, limit |-> -1]
MatchTag(tag) ==
  [patterns |-> <<Path(Node("a", <<tag>>, FALSE, << >>), << >>, << >>)>>, optional |-> << >>, where |-> NoExpr,
   order |-> << >>, group |-> << >>, ret |-> <<Column(Fn("ID", <<Id("a")>>), "i")>>, offset |-> -1, limit |-> -1]
FetchTag(g, tag) ==
  [vids |-> Everyone(g), var |-> "", col |-> "", tags |-> <<tag>>, refs |-> << >>, asof |-> -1]
FirstCells(r) == {row[1] : row \in Cells(r)}
ReadersAgree(g, tag) ==
  LET looked == execute_lookup(g, ByTag(tag))
      matched == execute_match_unfenced(g, MatchTag(tag))
      fetched == execute_fetch(g, FetchTag(g, tag), << >>)
  IN  ~g.cluster /\ g.badv = {} /\ DOMAIN g.rep = {} /\ ~looked.err /\ ~matched.err /\ ~fetched.err =>
        FirstCells(looked) = FirstCells(matched) /\ FirstCells(matched) = FirstCells(fetched)

(* The three that list the edges of a type do too: LOOKUP ON it, FETCH of  *)
(* every pair of ends at every rank, and one step of GO.                   *)
FetchPairs(g, type) ==
  LET all == [i \in DOMAIN g.edges |-> [src |-> display_match_vid(g, g.edges[i].src),
                                        dst |-> display_match_vid(g, g.edges[i].dst), rank |-> g.edges[i].rank]]
  IN  [vids |-> << >>, var |-> "", col |-> "", tags |-> <<type>>, refs |-> Distinct(all), asof |-> -1]
GoStep(type) ==
  [from |-> << >>, var |-> "", col |-> "", over |-> <<type>>, dir |-> "out", min |-> 1, max |-> 1, where |-> NoExpr,
   yield |-> << >>]
EdgeReadersAgree(g, type) ==
  LET looked == execute_lookup(g, [ByTag(type) EXCEPT !.edge = TRUE])
      fetched == execute_fetch(g, FetchPairs(g, type), << >>)
      gone == go_traversal(g, GoStep(type), Ascending(Places(g)))
      Ends(e) == <<e.src, e.dst, e.rank>>
  IN  ~g.cluster /\ g.bad = {} /\ DOMAIN g.rep = {} /\ ~g.strings /\ ~looked.err /\ ~fetched.err /\ ~gone.err =>
        /\ Len(fetched.rows) = Len(looked.rows)
        /\ {<<V(row[1]), V(row[2]), V(row[3])>> : row \in Cells(looked)} = {Ends(e) : e \in {x \in Range(g.edges) : x.type = type}}
        /\ Cells(fetched) = {edge_data_to_value(g, e) : e \in {x \in Range(g.edges) : x.type = type}}
        /\ {<<r.src, r.dst>> : r \in Range(gone.rows)} = {<<V(row[1]), V(row[2])>> : row \in Cells(looked)}

-----------------------------------------------------------------------------
(* EXPLAIN derives the operators without running them, from its own copies *)
(* of the rules by which the executors choose.  The plan tree of one       *)
(* statement is a chain, given here from the root down as pairs of an      *)
(* operator and its access path.  First the paths.                         *)

IndexPath(index) == <<"index", index>>
TagVidIndex == <<"tag-vid">>
EdgePrefix == <<"edge prefix">>
ReverseEdgeIndex == <<"reverse-edge index">>
PointLookup == <<"point lookup">>
FullScan == <<"full scan">>
NotSupported == <<"unsupported">>
NoAccess == <<"-">>
PlanNode(operator, access) == <<operator, access>>

RECURSIVE literal_value(_)
literal_value(e) ==
  CASE Kind(e) = "lit" -> e[2]
    [] Kind(e) = "un" /\ e[2] = "neg" ->
         LET v == literal_value(e[3])
         IN  IF T(v) = "int" THEN IntV(-V(v)) ELSE IF T(v) = "float" THEN FloatV(-V(v)) ELSE Missing
    [] OTHER -> Missing
range_lookup_literal(e) ==
  IF Kind(e) # "bin" THEN Missing
  ELSE IF e[2] \notin Ordered THEN Missing
  ELSE OrElse(literal_value(e[4]), literal_value(e[3]))

(* The field an index would be asked for, or "none".                       *)
RangeLiteral(e) ==
  \/ Kind(e) = "lit" /\ T(e[2]) \in {"int", "float", "bool"}
  \/ Kind(e) = "un" /\ e[2] = "neg" /\ Kind(e[3]) = "lit" /\ Numeric(e[3][2])
lookup_index_field(e) ==
  IF Kind(e) # "bin" THEN "none"
  ELSE LET Serves(l) == IF e[2] = "==" THEN literal_value(l) # Missing ELSE e[2] \in Ordered /\ RangeLiteral(l)
       IN  IF Serves(e[4]) THEN field_name_of(e[3])
           ELSE IF Serves(e[3]) THEN field_name_of(e[4]) ELSE "none"

distributed_lookup_guard(g, e) == g.cluster /\ expression_contains_ordered_range(e)
lookup_full_scan_access(g) == IF g.cluster THEN NotSupported ELSE FullScan

lookup_access_for_mode(g, plan) ==
  LET edge == lookup_targets_edge(g, plan)
      field == lookup_index_field(plan.where)
      value == range_lookup_literal(plan.where)
      index == OneField(IF edge THEN g.eindexes ELSE g.indexes, plan.name, field)
  IN  IF plan.where = NoExpr THEN lookup_full_scan_access(g)
      ELSE IF distributed_lookup_guard(g, plan.where) THEN NotSupported
      ELSE IF field = "none" THEN lookup_full_scan_access(g)
      ELSE IF value # Missing /\ ~range_index_boundary(IF edge THEN g.eschema ELSE g.schema, plan.name, field, value)
        THEN lookup_full_scan_access(g)
      ELSE IF index = None THEN lookup_full_scan_access(g)
      ELSE IndexPath(index)
lookup_access(g, plan) == lookup_access_for_mode(g, plan)

match_start_access(g, node) ==
  LET literals == [p \in {q \in DOMAIN node.props : literal_value(node.props[q]) # Missing} |-> node.props[p]]
      chosen == pick_index_plan(SelectSeq(g.indexes, LAMBDA i : i.tag = Label(node)), literals)
  IN  IF DOMAIN literals # {}
        THEN IF node.labels = << >> THEN FullScan
             ELSE IF chosen = None THEN FullScan ELSE IndexPath(chosen.index)
        ELSE IF node.labels # << >> /\ \E p \in g.tagvid : p[1] = node.labels[1] THEN TagVidIndex ELSE FullScan

-----------------------------------------------------------------------------
(* The operators of each statement.                                        *)

build_go(plan) ==
  LET access == IF plan.dir = "out" THEN EdgePrefix ELSE ReverseEdgeIndex
      fetches == \E c \in DOMAIN plan.yield : Kind(plan.yield[c]) = "dstprop" \/ plan.yield[c] = Id("vertex")
  IN  <<PlanNode("Project", NoAccess)>>
        \o (IF fetches THEN <<PlanNode("GetVertices", PointLookup)>> ELSE << >>)
        \o <<PlanNode("GetNeighbors", access), PlanNode("StartVids", NoAccess)>>

build_lookup(g, plan) ==
  LET access == lookup_access(g, plan)
      op == CASE access[1] = "index" -> "IndexScan"
              [] access = NotSupported -> "Unsupported"
              [] OTHER -> IF lookup_targets_edge(g, plan) THEN "EdgeScan" ELSE "TagScan"
  IN  <<PlanNode("Project", NoAccess)>>
        \o (IF plan.limit = -1 THEN << >> ELSE <<PlanNode("Limit", NoAccess)>>)
        \o (IF plan.offset = -1 THEN << >> ELSE <<PlanNode("Offset", NoAccess)>>)
        \o <<PlanNode(op, access)>>

(* The end of the one hop whose id the condition gives, or None.           *)
reverse_single_edge_end(plan) ==
  LET path == plan.patterns[1]
  IN  IF plan.optional # << >> \/ Len(plan.patterns) # 1 THEN None
      ELSE IF Len(path.edges) # 1 THEN None
      ELSE IF path.edges[1].dir # "out" \/ path.edges[1].range # << >> \/ path.nodes = << >> THEN None
      ELSE IF plan.where = NoExpr \/ path.nodes[1].var = "" THEN None
      ELSE IF path.nodes[1].var \in DOMAIN extract_id_eq_bindings(plan.where) THEN path.nodes[1] ELSE None

pattern_start(plan) == plan.patterns[1].start
pattern_edge_count(plan) == FoldLeft(LAMBDA n, path : n + Len(path.edges), 0, plan.patterns)
build_match(g, plan) ==
  LET reverse == reverse_single_edge_end(plan) # None
      If(test, op, access) == IF test THEN <<PlanNode(op, access)>> ELSE << >>
  IN  <<PlanNode(IF aggregates(plan) THEN "Aggregate" ELSE "Project", NoAccess)>>
        \o If(plan.offset # -1 \/ plan.limit # -1, "Limit", NoAccess)
        \o If(plan.where # NoExpr, "Filter", NoAccess)
        \o If(plan.optional # << >>, "OptionalJoin", NoAccess)
        \o If(Len(plan.patterns) > 1, "Join", NoAccess)
        \o If(pattern_edge_count(plan) > 0, "Expand", IF reverse THEN ReverseEdgeIndex ELSE EdgePrefix)
        \o <<PlanNode("NodeScan", IF reverse THEN PointLookup ELSE match_start_access(g, pattern_start(plan)))>>

build_find(plan) == <<PlanNode("PathFind", NoAccess), PlanNode("GetNeighbors", EdgePrefix)>>
build_fetch(plan) ==
  IF plan.refs # << >> THEN <<PlanNode("GetEdges", EdgePrefix)>> ELSE <<PlanNode("GetVertices", PointLookup)>>

-----------------------------------------------------------------------------
(* Clauses.  `spaces' are the stores by name.  A clause has the variable   *)
(* it binds (or ""), its kind and its plan; USE has a space.               *)

Table(columns, rows) == [columns |-> columns, rows |-> rows]
Empty == Table(<< >>, << >>)
execute(g, clause, vars) ==
  LET r == CASE clause.kind = "go" -> execute_go(g, clause.plan, vars)
             [] clause.kind = "fetch" -> execute_fetch(g, clause.plan, vars)
             [] clause.kind = "lookup" -> execute_lookup(g, clause.plan)
             [] clause.kind = "match" -> execute_match_unfenced(g, clause.plan)
             [] clause.kind = "find" -> execute_find(g, clause.plan)
  IN  IF r.err THEN Fail ELSE Ok(<<Table(IF clause.kind = "go" THEN <<"src", "dst">> ELSE << >>, r.rows)>>)

Running(space) == [err |-> FALSE, space |-> space, vars |-> << >>, last |-> Empty]
execute_use(spaces, st, clause) ==
  IF clause.space \in DOMAIN spaces THEN [st EXCEPT !.space = clause.space, !.last = Empty] ELSE [st EXCEPT !.err = TRUE]
RunClause(spaces, st, clause) ==
  LET r == execute(spaces[st.space], clause, st.vars)
  IN  IF st.err THEN st
      ELSE IF clause.kind = "use" THEN execute_use(spaces, st, clause)
      ELSE IF r.err THEN [st EXCEPT !.err = TRUE]
      ELSE IF clause.var = "" THEN [st EXCEPT !.last = r.rows[1]]
      ELSE [st EXCEPT !.vars = Override(@, Bind1(clause.var, r.rows[1]))]
execute_compound(spaces, space, clauses) ==
  FoldLeft(LAMBDA st, clause : RunClause(spaces, st, clause), Running(space), clauses)

-----------------------------------------------------------------------------
(* Properties.                                                             *)

(* How the executors reach their data.                                     *)
LookupRoute(g, plan) ==
  LET w == lookup_window(g, plan)
      edge == lookup_targets_edge(g, plan)
      range == IF edge THEN try_execute_edge_range_index_lookup(g, plan, w) ELSE try_execute_range_index_lookup(g, plan, w)
      equal == IF edge THEN EqualityEdge(g, plan, w) ELSE EqualityTag(g, plan, w)
      scan == IF g.cluster THEN "unsupported" ELSE "full scan"
  IN  IF plan.where = NoExpr THEN scan
      ELSE IF ~edge /\ g.cluster /\ expression_contains_ordered_range(plan.where) THEN "unsupported"
      ELSE IF range # None THEN (IF g.cluster THEN "unsupported" ELSE "index")
      ELSE IF equal # None THEN "index" ELSE scan
MatchRoute(g, plan) ==
  LET node == flatten_pattern(plan.patterns[1]).start
  IN  IF UsesReverse(plan, id_bindings(g, plan)) THEN "point lookup"
      ELSE IF find_indexed_node_candidates(g, node) = None THEN "full scan"
      ELSE IF DOMAIN node.props = {} THEN "tag-vid" ELSE "index"

(* EXPLAIN describes the plan the executor runs: the access path it shows  *)
(* for a LOOKUP is the one the executor takes.                             *)
ExplainsLookup(g, plan) == Last(build_lookup(g, plan))[2][1] = LookupRoute(g, plan)
(* And for the first node of a MATCH of one pattern, unless the node has   *)
(* alternative labels or its id is given (the executor then neither scans  *)
(* nor asks the index EXPLAIN names), or the label index holds only what   *)
(* is gone.                                                                *)
ExplainsMatch(g, plan) ==
  LET node == pattern_start(plan)
      ids == id_bindings(g, plan)
  IN  /\ validate_match_expressions(plan)
      /\ Len(plan.patterns) = 1
      /\ ~LabelUnion(node)
      /\ ids # None
      /\ node.var \notin DOMAIN ids
      /\ node.labels # << >> /\ DOMAIN node.props = {} =>
           ((\E p \in g.tagvid : p[1] = Label(node)) => Live(g, Labelled(g, node), node) # << >>)
      => Last(build_match(g, plan))[2][1] = MatchRoute(g, plan)

(* EXPLAIN leaves no access out: GO, FIND and FETCH answer the same on a   *)
(* store without the vertices, or the edges, that no operator shown reads. *)
Shown(nodes, g) ==
  LET ops == {nodes[i][1] : i \in DOMAIN nodes}
  IN  [g EXCEPT !.vertices = IF "GetVertices" \in ops THEN @ ELSE << >>,
                !.edges = IF ops \cap {"GetNeighbors", "GetEdges"} # {} THEN @ ELSE << >>]
ExplainsGo(g, plan, vars) ==
  LET Answered(h) == execute_go(h, plan, vars)
  IN  Answered(Shown(build_go(plan), g)) = Answered(g)
ExplainsFind(g, plan) == execute_find(Shown(build_find(plan), g), plan) = execute_find(g, plan)
ExplainsFetch(g, plan) == execute_fetch(Shown(build_fetch(plan), g), plan, << >>) = execute_fetch(g, plan, << >>)

(* `$x = GO FROM v OVER t; USE s; GO FROM $x.dst OVER t': the second GO    *)
(* runs on s, from exactly the vertices the first found where it ran.      *)
Pipeline(go, target) ==
  <<[var |-> "x", kind |-> "go", plan |-> go],
    [var |-> "", kind |-> "use", space |-> target],
    [var |-> "", kind |-> "go", plan |-> [go EXCEPT !.from = << >>, !.var = "x", !.col = "dst"]]>>
ClausesCompose(spaces, space, target, go) ==
  LET st == execute_compound(spaces, space, Pipeline(go, target))
      first == execute_go(spaces[space], go, << >>)
      From(v) == execute_go(spaces[target], [go EXCEPT !.from = <<v>>], << >>)
      second == Gather([i \in DOMAIN first.rows |-> From(first.rows[i][2])])
  IN  IF target \notin DOMAIN spaces THEN st.err
      ELSE IF first.err \/ second.err THEN st.err
      ELSE ~st.err /\ st.last.rows = second.rows
=============================================================================
