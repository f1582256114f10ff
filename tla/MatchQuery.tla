----------------------------- MODULE MatchQuery -----------------------------
(***************************************************************************)
(* MATCH, as executed on one node: byoridb-executor/src/match_impl and the *)
(* checks plan.rs makes before any data is read.                           *)
(*                                                                         *)
(* The store g the statement reads has                                     *)
(*   vertices  a function from vertex ids to sequences of tags             *)
(*   edges     a sequence of edges, in the order of their keys             *)
(*   tagvid    a set of <<tag, vid>>, the secondary index of labels        *)
(*   indexes   a sequence of property indexes, stale the vids they still   *)
(*             hold of vertices that changed, parts the partitions         *)
(*   rep       the sameAs representative of the ids that were merged away  *)
(*   strings   whether ids are shown as strings, names their strings       *)
(*   cap, steps, nodes, budget  max_scan_limit, max_go_steps,              *)
(*             max_traversal_nodes, and the rows max_memory_mb admits;     *)
(*             0 is no limit.                                              *)
(* Tags and edge types are letters.  A row under construction binds names  *)
(* to ids (values) and to edges (edges).  A step returns its rows, or has  *)
(* failed.                                                                 *)
(***************************************************************************)
EXTENDS Expressions

Ok(rows) == [err |-> FALSE, rows |-> rows]
Fail == [err |-> TRUE, rows |-> << >>]
None == [none |-> TRUE]
Gather(rs) ==
  IF \E i \in DOMAIN rs : rs[i].err THEN Fail ELSE Ok(FlattenSeq([i \in DOMAIN rs |-> rs[i].rows]))
Then(r, next(_)) == IF r.err THEN Fail ELSE next(r.rows)

Node(var, labels, any, props) == [var |-> var, labels |-> labels, any |-> any, props |-> props]
EdgePattern(var, types, dir, range, props) ==
  [var |-> var, types |-> types, dir |-> dir, range |-> range, props |-> props]
Path(start, edges, nodes) == [start |-> start, edges |-> edges, nodes |-> nodes]
Anon == "__anon_0__"
NoExpr == <<"no expression">>
Column(expr, alias) == [expr |-> expr, alias |-> alias]

Ascending(S) ==
  [i \in 1 .. Cardinality(S) |-> CHOOSE v \in S : Cardinality({w \in S : w < v}) = i - 1]
Override(f, h) == [x \in DOMAIN f \cup DOMAIN h |-> IF x \in DOMAIN h THEN h[x] ELSE f[x]]
Bind1(x, v) == [y \in {x} |-> v]

-----------------------------------------------------------------------------
(* What is refused before any row is read.                                 *)

MATCH_GRAPH_FUNCTIONS ==
  {"ID", "SRC", "DST", "TYPE", "RANK", "RANKING", "PROPERTIES", "TAGS", "LABELS", "IS_A", "ISA"}
MATCH_AGGREGATES == {"COUNT", "SUM", "AVG", "MAX", "MIN"}

is_aggregate_expr(e) == Kind(e) = "fn" /\ e[2] \in MATCH_AGGREGATES

RECURSIVE validate_match_scalar(_)
validate_match_scalar(e) ==
  CASE Kind(e) \in {"lit", "prop"} -> TRUE
    [] Kind(e) = "id" -> e[2] # "*"
    [] Kind(e) = "fn" -> /\ e[2] \in MATCH_GRAPH_FUNCTIONS \cup SCALAR_FUNCTIONS
                         /\ \A i \in DOMAIN e[3] : validate_match_scalar(e[3][i])
    [] Kind(e) = "items" -> \A i \in DOMAIN e[2] : validate_match_scalar(e[2][i])
    [] OTHER -> FALSE

Arithmetic == {"+", "-", "*", "/", "%"}
(* (AcceptsNot: a negation is let through, as in a GO filter.)             *)
RECURSIVE AcceptsNot(_)
AcceptsNot(e) ==
  CASE Kind(e) = "bin" /\ e[2] \in {"and", "or"} -> AcceptsNot(e[3]) /\ AcceptsNot(e[4])
    [] Kind(e) = "un" /\ e[2] = "not" -> AcceptsNot(e[3])
    [] Kind(e) = "bin" /\ e[2] \notin Arithmetic -> validate_match_scalar(e[3]) /\ validate_match_scalar(e[4])
    [] OTHER -> validate_match_scalar(e)
RECURSIVE validate_match_condition(_)
validate_match_condition(e) ==
  CASE Kind(e) = "bin" /\ e[2] \in {"and", "or"} ->
         validate_match_condition(e[3]) /\ validate_match_condition(e[4])
    [] Kind(e) = "bin" /\ e[2] \notin Arithmetic -> validate_match_scalar(e[3]) /\ validate_match_scalar(e[4])
    [] OTHER -> validate_match_scalar(e)

validate_match_return(e) ==
  IF is_aggregate_expr(e)
    THEN Len(e[3]) = 1 /\ ((e[2] = "COUNT" /\ e[3][1] = Id("*")) \/ validate_match_scalar(e[3][1]))
    ELSE validate_match_scalar(e)

(* The properties of a pattern are expressions here, and must be literals. *)
Literals(props) == \A p \in DOMAIN props : Kind(props[p]) = "lit"
validate_match_pattern(path) ==
  /\ Literals(path.start.props)
  /\ \A i \in DOMAIN path.nodes : Literals(path.nodes[i].props)
  /\ \A i \in DOMAIN path.edges : Literals(path.edges[i].props)

same_match_expression(a, b) == a = b
(* The column each ORDER BY item sorts by, or Fail.                        *)
match_order_keys(plan) ==
  LET Aliased(item) == {i \in DOMAIN plan.ret : Kind(item.expr) = "id" /\ plan.ret[i].alias = item.expr[2]}
      Same(item) == {i \in DOMAIN plan.ret : same_match_expression(plan.ret[i].expr, item.expr)}
      First(S) == CHOOSE i \in S : \A j \in S : i <= j
      Key(item) == IF Cardinality(Aliased(item)) = 1 THEN Ok(<<[col |-> First(Aliased(item)), desc |-> item.desc]>>)
                   ELSE IF Aliased(item) # {} \/ Same(item) = {} THEN Fail
                   ELSE Ok(<<[col |-> First(Same(item)), desc |-> item.desc]>>)
  IN  Gather([i \in DOMAIN plan.order |-> Key(plan.order[i])])

validate_match_expressions(plan) ==
  /\ \A i \in DOMAIN plan.patterns : validate_match_pattern(plan.patterns[i])
  /\ \A i \in DOMAIN plan.optional : validate_match_pattern(plan.optional[i])
  /\ plan.where # NoExpr => validate_match_condition(plan.where)
  /\ \A i \in DOMAIN plan.ret : validate_match_return(plan.ret[i].expr)
  /\ \A i \in DOMAIN plan.group : validate_match_scalar(plan.group[i])
  /\ ~match_order_keys(plan).err

-----------------------------------------------------------------------------
(* Single vertices and edges.                                              *)

expression_as_value(e) == IF Kind(e) = "lit" THEN e[2] ELSE Missing
byoridb_value_equals(stored, expected) ==
  IF Numeric(stored) /\ Numeric(expected) THEN Units(stored) = Units(expected) ELSE stored = expected

matches_node(g, v, node) ==
  LET tags == Range(g.vertices[v])
      Carries(label) == \E t \in tags : t.name = label
      labels == Range(node.labels)
  IN  /\ labels # {} => IF node.any THEN \E l \in labels : Carries(l) ELSE \A l \in labels : Carries(l)
      /\ \A p \in DOMAIN node.props :
           \E t \in tags : /\ p \in DOMAIN t.props
                           /\ byoridb_value_equals(t.props[p], expression_as_value(node.props[p]))
matches_edge_data(e, ep) ==
  \A p \in DOMAIN ep.props :
     p \in DOMAIN e.props /\ byoridb_value_equals(e.props[p], expression_as_value(ep.props[p]))

strict_neighbors(g, v, types, incoming) ==
  LET found == SelectSeq(g.edges, LAMBDA e : (IF incoming THEN e.dst ELSE e.src) = v
                                              /\ (types = {} \/ e.type \in types))
  IN  [i \in DOMAIN found |-> [dst |-> IF incoming THEN found[i].src ELSE found[i].dst, edge |-> found[i]]]

(* (LoopsTwice: an undirected hop follows a loop once in each direction.)  *)
LoopsTwice(g, v, types, dir) ==
  LET out == strict_neighbors(g, v, types, FALSE)
      in == strict_neighbors(g, v, types, TRUE)
  IN  CASE dir = "out" -> out [] dir = "in" -> in [] dir = "both" -> out \o in
neighbors_for_direction(g, v, types, dir) ==
  LET out == strict_neighbors(g, v, types, FALSE)
      in == strict_neighbors(g, v, types, TRUE)
  IN  CASE dir = "out" -> out
        [] dir = "in" -> in
        [] dir = "both" -> out \o SelectSeq(in, LAMBDA n : \A i \in DOMAIN out : out[i].edge # n.edge)

(* Variable-length hops: depth first over paths that repeat no vertex.     *)
RECURSIVE Walk(_, _, _, _, _)
Walk(g, ep, stack, expansions, terminals) ==
  IF stack = << >> THEN Ok(terminals)
  ELSE LET top == Last(stack)
           rest == Front(stack)
           vid == Last(top)
           depth == Len(top) - 1
           nexts == SelectSeq(neighbors_for_direction(g, vid, ep.types, ep.dir),
                              LAMBDA n : /\ matches_edge_data(n.edge, ep)
                                         /\ n.dst \notin Range(top)
                                         /\ n.dst \in DOMAIN g.vertices)
           found == [i \in DOMAIN nexts |-> nexts[i].dst]
           fresh == SelectSeq([i \in DOMAIN found |-> i],
                              LAMBDA i : found[i] \notin Range(terminals) \cup {found[j] : j \in 1 .. i - 1})
           pushed == IF depth + 1 < ep.range[2] THEN [i \in DOMAIN found |-> Append(top, found[i])] ELSE << >>
       IN  IF g.nodes > 0 /\ expansions + 1 > g.nodes THEN Fail
           ELSE Walk(g, ep, rest \o pushed, expansions + 1,
                     IF depth + 1 >= ep.range[1] THEN terminals \o [i \in DOMAIN fresh |-> found[fresh[i]]]
                     ELSE terminals)
expand_var_length(g, start, ep) ==
  IF \/ ep.var # ""
     \/ ep.range[2] = 0 \/ ep.range[1] > ep.range[2]
     \/ g.steps > 0 /\ ep.range[2] > g.steps
  THEN Fail ELSE Walk(g, ep, <<<<start>>>>, 0, << >>)

-----------------------------------------------------------------------------
(* Where a pattern starts.                                                 *)

check_candidate_scan_size(g, n) == g.cap > 0 /\ n > g.cap
Label(node) == node.labels[1]
LabelUnion(node) == Len(node.labels) > 1 /\ node.any

byoridb_value_to_index_value(v) == IF T(v) \in {"str", "int", "float", "bool"} THEN v ELSE Null
First(s, Test(_)) == LET hits == {i \in DOMAIN s : Test(s[i])}
                     IN  IF hits = {} THEN None ELSE s[CHOOSE i \in hits : \A j \in hits : i <= j]
Bound(idx, props) ==     \* how many leading fields of an index the pattern gives
  Cardinality({i \in DOMAIN idx.fields : \A j \in 1 .. i : idx.fields[j] \in DOMAIN props})
pick_index_plan(indexes, props) ==
  LET Full(idx) == Len(idx.fields) = Cardinality(DOMAIN props) /\ Range(idx.fields) \subseteq DOMAIN props
      Better(a, b) == Bound(a, props) > Bound(b, props)
                      \/ (Bound(a, props) = Bound(b, props) /\ Len(a.fields) < Len(b.fields))
      Best(idx) == Bound(idx, props) > 0 /\ \A j \in DOMAIN indexes : ~Better(indexes[j], idx)
      chosen == IF First(indexes, Full) # None THEN First(indexes, Full) ELSE First(indexes, Best)
      n == IF First(indexes, Full) # None THEN Len(chosen.fields) ELSE Bound(chosen, props)
  IN  IF DOMAIN props = {} \/ chosen = None THEN None
      ELSE [index |-> chosen,
            values |-> [i \in 1 .. n |-> byoridb_value_to_index_value(
                                           expression_as_value(props[chosen.fields[i]]))]]

(* The index itself: what it holds of one partition.                       *)
Held(t, f) == IF f \in DOMAIN t.props THEN t.props[f] ELSE Null
lookup_tag(g, part, index, values) ==
  Ascending({v \in DOMAIN g.vertices \cup g.stale :
               /\ (v % g.parts) + 1 = part
               /\ \/ v \in g.stale
                  \/ \E t \in Range(g.vertices[v]) :
                        t.name = index.tag /\ \A i \in DOMAIN values : Held(t, index.fields[i]) = values[i]})

Live(g, vids, node) == SelectSeq(vids, LAMBDA v : v \in DOMAIN g.vertices /\ matches_node(g, v, node))
Labelled(g, node) == Ascending({p[2] : p \in {q \in g.tagvid : q[1] = Label(node)}})

(* None when no index serves the pattern.                                  *)
find_indexed_node_candidates(g, node) ==
  IF LabelUnion(node) \/ node.labels = << >> THEN None
  ELSE IF DOMAIN node.props = {} THEN
    LET vids == Labelled(g, node)
        live == Live(g, vids, node)
    IN  IF check_candidate_scan_size(g, Len(vids)) THEN Fail
        ELSE IF live = << >> THEN None ELSE Ok(live)
  ELSE
    LET chosen == pick_index_plan(SelectSeq(g.indexes, LAMBDA idx : idx.tag = Label(node)), node.props)
        Part(p) == LET vids == lookup_tag(g, p, chosen.index, chosen.values)
                   IN  IF check_candidate_scan_size(g, Len(vids)) THEN Fail ELSE Ok(vids)
        Loaded(vids) == Ok(Live(g, vids, node))
    IN  IF chosen = None THEN None
        ELSE Then(Gather([p \in 1 .. g.parts |-> Part(p)]), Loaded)

find_node_candidates(g, node) ==
  LET indexed == find_indexed_node_candidates(g, node)
      all == Ascending(DOMAIN g.vertices)
  IN  IF indexed # None THEN indexed
      ELSE IF check_candidate_scan_size(g, Len(all)) THEN Fail
      ELSE Ok(Live(g, all, node))

-----------------------------------------------------------------------------
(* Patterns.                                                               *)

Unbound == [values |-> << >>, edges |-> << >>]

bind_vertex_variable(b, var, vid) ==
  CASE var = "" -> Ok(<<b>>)
    [] var \in DOMAIN b.edges -> Fail
    [] var \in DOMAIN b.values -> Ok(IF b.values[var] = IntV(vid) THEN <<b>> ELSE << >>)
    [] OTHER -> Ok(<<[b EXCEPT !.values = Override(@, Bind1(var, IntV(vid)))]>>)
Identity(e) == <<e.src, e.dst, e.type, e.rank>>
bind_edge_variable(b, var, e) ==
  CASE var = "" -> Ok(<<b>>)
    [] var \in DOMAIN b.edges -> Ok(IF Identity(b.edges[var]) = Identity(e) THEN <<b>> ELSE << >>)
    [] var \in DOMAIN b.values -> IF b.values[var] = Null THEN Ok(<< >>) ELSE Fail
    [] OTHER -> Ok(<<[values |-> Override(b.values, Bind1(var, IntV(e.dst))),
                      edges |-> Override(b.edges, Bind1(var, e))]>>)

flatten_pattern(path) ==
  [path EXCEPT !.nodes = [i \in DOMAIN path.edges |-> IF i <= Len(@) THEN @[i] ELSE path.start]]

(* A row for every way the hops from the i-th on can be taken from vid.    *)
RECURSIVE match_edges(_, _, _, _, _)
match_edges(g, flat, i, vid, b) ==
  IF i > Len(flat.edges) THEN Ok(<<b>>)
  ELSE
    LET ep == flat.edges[i]
        node == flat.nodes[i]
        Onward(dst, rows) == IF rows = << >> THEN Ok(<< >>) ELSE match_edges(g, flat, i + 1, dst, rows[1])
        Enter(dst, b2) == LET r == bind_vertex_variable(b2, node.var, dst)
                          IN  IF r.err THEN Fail ELSE Onward(dst, r.rows)
        Reached(dst) == dst \in DOMAIN g.vertices /\ matches_node(g, dst, node)
        ends == expand_var_length(g, vid, ep)
        hops == SelectSeq(neighbors_for_direction(g, vid, ep.types, ep.dir),
                          LAMBDA n : matches_edge_data(n.edge, ep) /\ Reached(n.dst))
        Hop(n) == LET r == bind_edge_variable(b, ep.var, n.edge)
                  IN  IF r.err THEN Fail ELSE IF r.rows = << >> THEN Ok(<< >>) ELSE Enter(n.dst, r.rows[1])
    IN  IF ep.range = << >> THEN Gather([k \in DOMAIN hops |-> Hop(hops[k])])
        ELSE IF ends.err THEN Fail
        ELSE Gather([k \in DOMAIN ends.rows |->
                       IF Reached(ends.rows[k]) THEN Enter(ends.rows[k], b) ELSE Ok(<< >>)])

(* (Unchecked: the id a WHERE clause gives is not matched with the node.)  *)
Unchecked(g, node, vid) == Ok(vid)
StartAt(g, node, vid) == Ok(Live(g, vid, node))
(* Candidates are taken until `limit' rows are there (-1: all of them).    *)
match_flat_pattern(g, path, b, limit, given) ==
  LET flat == flatten_pattern(path)
      var == flat.start.var
      starts == IF given = << >> THEN find_node_candidates(g, flat.start) ELSE StartAt(g, flat.start, given)
      From(v) ==
        LET r == IF var = "" THEN Ok(<<[b EXCEPT !.values = Override(@, Bind1(Anon, IntV(v)))]>>)
                 ELSE bind_vertex_variable(b, var, v)
        IN  IF r.err THEN Fail ELSE IF r.rows = << >> THEN Ok(<< >>) ELSE match_edges(g, flat, 1, v, r.rows[1])
      Rows(vids) ==
        LET per == [i \in DOMAIN vids |-> From(vids[i])]
            Before(i) == Len(FlattenSeq([j \in 1 .. i - 1 |-> per[j].rows]))
            taken == {i \in DOMAIN vids : limit = -1 \/ Before(i) < limit}
        IN  Gather([i \in 1 .. Cardinality(taken) |-> per[i]])
  IN  IF var # "" /\ var \in DOMAIN b.edges THEN Fail
      ELSE IF var # "" /\ var \in DOMAIN b.values /\ b.values[var] = Null THEN Ok(<< >>)
      ELSE Then(starts, Rows)

match_reverse_single_edge(g, path, end) ==
  LET flat == flatten_pattern(path)
      ep == flat.edges[1]
      hops == SelectSeq(neighbors_for_direction(g, end, ep.types, "in"),
                        LAMBDA n : /\ matches_edge_data(n.edge, ep)
                                   /\ n.dst \in DOMAIN g.vertices
                                   /\ matches_node(g, n.dst, flat.start))
      Row(n) ==
        LET s == bind_vertex_variable(Unbound, IF flat.start.var = "" THEN Anon ELSE flat.start.var, n.dst)
            t == bind_vertex_variable(s.rows[1], flat.nodes[1].var, end)
        IN  IF t.rows = << >> THEN Ok(<< >>) ELSE bind_edge_variable(t.rows[1], ep.var, n.edge)
  IN  IF end \notin DOMAIN g.vertices THEN Ok(<< >>)
      ELSE IF ~matches_node(g, end, flat.nodes[1]) THEN Ok(<< >>)
      ELSE Gather([i \in DOMAIN hops |-> Row(hops[i])])
=============================================================================
