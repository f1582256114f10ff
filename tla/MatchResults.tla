---------------------------- MODULE MatchResults ----------------------------
(***************************************************************************)
(* The second half of MATCH (match_impl/match_executor.rs): the condition, *)
(* the columns, groups, order and window of the rows a pattern gives, and  *)
(* the whole statement.  A plan has                                        *)
(*   patterns, optional    sequences of paths                              *)
(*   where                 a condition, or NoExpr                          *)
(*   ret, group, order     columns, expressions, and items to sort by;     *)
(*                         empty when the clause is not there              *)
(*   offset, limit         -1 when not there.                              *)
(***************************************************************************)
EXTENDS MatchQuery

CONSTANT SizeMax    \* usize::MAX

BadType == <<"null", 3>>
UnknownProp == <<"null", 5>>

-----------------------------------------------------------------------------
(* Expressions over one row.  Error stands for a statement that fails; the *)
(* errors of a scalar function are nulls.                                  *)

(* An id is shown as it is, or as its string; in a space of strings the    *)
(* ids from before strings were mapped, which are not negative, still show *)
(* as numbers while a vertex or an edge has them.                          *)
Occupied(g, vid) == vid \in DOMAIN g.vertices \/ \E i \in DOMAIN g.edges : vid \in {g.edges[i].src, g.edges[i].dst}
display_match_vid(g, vid) ==
  CASE ~g.strings -> IntV(vid)
    [] g.strings /\ vid < 0 -> IF vid \in DOMAIN g.names THEN StrV(g.names[vid]) ELSE Error
    [] g.strings /\ vid >= 0 -> IF vid \notin DOMAIN g.names /\ Occupied(g, vid) THEN IntV(vid) ELSE Error
build_vertex_value(g, vid) ==
  LET tags == IF vid \in DOMAIN g.vertices THEN g.vertices[vid] ELSE << >>
      shown == display_match_vid(g, vid)
  IN  IF shown = Error THEN Error ELSE <<"vertex", [vid |-> shown, tags |-> tags]>>
edge_data_to_value(g, e) ==
  LET src == display_match_vid(g, e.src)
      dst == display_match_vid(g, e.dst)
  IN  IF Error \in {src, dst} THEN Error ELSE <<"edge", [e EXCEPT !.src = src, !.dst = dst]>>

(* properties(v): the names are qualified when there are several tags.     *)
fetch_vertex_props_flat(g, vid) ==
  LET tags == IF vid \in DOMAIN g.vertices THEN g.vertices[vid] ELSE << >>
      Names(t) == {IF Len(tags) = 1 THEN <<p>> ELSE <<t.name, p>> : p \in DOMAIN t.props}
      Flat(t) == [n \in Names(t) |-> t.props[Last(n)]]
  IN  <<"map", FoldLeft(LAMBDA map, t : Override(map, Flat(t)), << >>, tags)>>

fetch_prop_ref(g, object, prop, b) ==
  LET var == object[1]
      holders == SelectSeq(g.vertices[V(b.values[var])],
                           LAMBDA t : (Len(object) = 1 \/ t.name = object[2]) /\ prop \in DOMAIN t.props)
  IN  CASE var \in DOMAIN b.edges -> IF prop \in DOMAIN b.edges[var].props THEN b.edges[var].props[prop] ELSE Null
        [] var \notin DOMAIN b.values -> Null
        [] b.values[var] = Null -> Null
        [] V(b.values[var]) \notin DOMAIN g.vertices -> Null
        [] OTHER -> IF holders = << >> THEN Null ELSE holders[1].props[prop]

vertex_class_set(g, vid) ==
  LET direct == {t.name : t \in Range(g.vertices[vid])} \cup {p[2] : p \in {q \in g.vtypes : q[1] = vid}}
  IN  direct \cup {p[2] : p \in {q \in g.super : q[1] \in direct}}

(* Functions answered from the graph.                                      *)
GraphFunction(g, name, args, b) ==
  LET var == IF args # << >> /\ Kind(args[1]) = "id" THEN args[1][2] ELSE ""
      bound == var \in DOMAIN b.values
      edge == b.edges[var]
      vid == V(b.values[var])
      vertex == bound /\ b.values[var] # Null
      stored == vertex /\ vid \in DOMAIN g.vertices
  IN  CASE name = "ID" -> IF ~bound THEN Null ELSE IF vertex THEN display_match_vid(g, vid) ELSE b.values[var]
        [] name \in {"SRC", "DST", "TYPE", "RANK", "RANKING"} ->
             CASE Len(args) # 1 \/ var = "" -> BadType
               [] ~bound -> UnknownProp
               [] var \notin DOMAIN b.edges -> BadType
               [] name = "SRC" -> display_match_vid(g, edge.src)
               [] name = "DST" -> display_match_vid(g, edge.dst)
               [] name = "TYPE" -> StrV(<<edge.type>>)
               [] OTHER -> IntV(edge.rank)
        [] name = "PROPERTIES" ->
             CASE var \in DOMAIN b.edges -> <<"map", [n \in {<<p>> : p \in DOMAIN edge.props} |-> edge.props[n[1]]]>>
               [] vertex -> fetch_vertex_props_flat(g, vid)
               [] OTHER -> Null
        [] name \in {"TAGS", "LABELS"} ->
             IF stored THEN ListV([i \in DOMAIN g.vertices[vid] |-> StrV(<<g.vertices[vid][i].name>>)]) ELSE Null
        [] name \in {"IS_A", "ISA"} ->
             BoolV(/\ stored
                   /\ Len(args) >= 2 /\ Kind(args[2]) = "lit" /\ T(args[2][2]) = "str"
                   /\ \E c \in vertex_class_set(g, vid) : V(args[2][2]) = <<c>>)

Unsupported == <<"error", 2>>
RECURSIVE eval_return_expr(_, _, _)
eval_return_expr(g, e, b) ==
  LET All(es) == [i \in DOMAIN es |-> eval_return_expr(g, es[i], b)]
      Passed(vs, v) == OrElse(FirstFailure(vs), v)
      OrBadType(v) == IF T(v) = "error" THEN BadType ELSE v
  IN  CASE Kind(e) = "id" ->
             CASE e[2] \in DOMAIN b.edges -> edge_data_to_value(g, b.edges[e[2]])
               [] e[2] \notin DOMAIN b.values -> Null
               [] b.values[e[2]] = Null -> Null
               [] OTHER -> build_vertex_value(g, V(b.values[e[2]]))
        [] Kind(e) = "lit" -> e[2]
        [] Kind(e) = "prop" -> fetch_prop_ref(g, e[2], e[3], b)
        [] Kind(e) = "fn" -> IF e[2] \in MATCH_GRAPH_FUNCTIONS THEN GraphFunction(g, e[2], e[3], b)
                             ELSE LET vs == All(e[3])
                                      bad == FirstFailure(vs)
                                  IN  IF bad = Missing THEN OrBadType(apply_scalar_function(e[2], vs)) ELSE bad
        [] Kind(e) = "items" -> LET vs == All(e[2]) IN Passed(vs, ListV(vs))
        [] OTHER -> Unsupported

RECURSIVE compare_values(_, _, _)
compare_values(l, r, op) ==
  LET ord == OrderWithBools(l, r)
      Listed == T(r) = "list" /\ \E i \in DOMAIN V(r) : compare_values(l, V(r)[i], "==")   \* value_in_list
  IN  CASE op = "in" -> Listed
        [] op = "not in" -> ~Listed
        [] op \in TextOps -> T(l) = "str" /\ T(r) = "str" /\ ((op = "not contains") # TextTest(op, V(l), V(r)))
        [] op = "==" -> ord = "eq"
        [] op = "!=" -> ord \in {"lt", "gt"}
        [] op \in Ordered -> ord \in Accepts(op)
        [] OTHER -> FALSE

(* A truth value, or the failure.                                          *)
RECURSIVE eval_condition(_, _, _)
eval_condition(g, e, b) ==
  LET l == eval_return_expr(g, e[3], b)
      r == eval_return_expr(g, e[4], b)
      L == eval_condition(g, e[3], b)
      R == eval_condition(g, e[4], b)
      v == eval_return_expr(g, e, b)
  IN  CASE Kind(e) = "bin" /\ e[2] = "and" -> IF L = True THEN R ELSE L
        [] Kind(e) = "bin" /\ e[2] = "or" -> IF L = False THEN R ELSE L
        [] Kind(e) = "bin" ->
             CASE FirstFailure(<<l, r>>) # Missing -> FirstFailure(<<l, r>>)
               [] e[2] = "=~" /\ T(l) = "str" /\ T(r) = "str" /\ ~Compiles(V(r)) -> Error
               [] OTHER -> BoolV(compare_values(l, r, e[2]))
        [] OTHER -> IF FirstFailure(<<v>>) # Missing THEN v ELSE BoolV(v = True)

-----------------------------------------------------------------------------
(* Which rows there are.                                                   *)

RECURSIVE extract_id_eq_bindings(_)
extract_id_eq_bindings(e) ==
  LET Try(f, v) == IF /\ Kind(v) = "lit" /\ T(v[2]) \in {"int", "str"}
                      /\ Kind(f) = "fn" /\ f[2] = "ID"
                      /\ f[3] # << >> /\ Kind(f[3][1]) = "id"
                   THEN Bind1(f[3][1][2], v[2]) ELSE << >>
  IN  CASE Kind(e) = "bin" /\ e[2] = "and" ->
             Override(extract_id_eq_bindings(e[3]), extract_id_eq_bindings(e[4]))
        [] Kind(e) = "bin" /\ e[2] = "==" -> IF Try(e[3], e[4]) # << >> THEN Try(e[3], e[4]) ELSE Try(e[4], e[3])
        [] OTHER -> << >>

(* The vertices a WHERE clause names, each as the vertex it was merged     *)
(* into.  A name of the wrong kind fails the statement, one nobody has is  *)
(* dropped.                                                                *)
resolve_vid(g, v) ==
  CASE ~g.strings -> IF T(v) = "int" THEN Ok(<<V(v)>>) ELSE Fail
    [] g.strings /\ T(v) = "int" -> IF V(v) < 0 \/ V(v) \in DOMAIN g.names THEN Fail
                                    ELSE Ok(IF Occupied(g, V(v)) THEN <<V(v)>> ELSE << >>)
    [] OTHER -> Ok(SelectSeq(Ascending(DOMAIN g.names), LAMBDA i : g.names[i] = V(v)))
representative_of(g, vid) == IF vid \in DOMAIN g.rep THEN g.rep[vid] ELSE vid
id_bindings(g, plan) ==
  LET given == IF plan.where = NoExpr THEN << >> ELSE extract_id_eq_bindings(plan.where)
      found == [x \in DOMAIN given |-> resolve_vid(g, given[x])]
      known == {x \in DOMAIN given : found[x].rows # << >>}
  IN  IF \E x \in DOMAIN given : found[x].err THEN None
      ELSE [x \in known |-> representative_of(g, found[x].rows[1])]

check_result_budget(g, r) == IF g.budget > 0 /\ Len(r.rows) > g.budget THEN Fail ELSE r

Overflows(plan) == plan.offset # -1 /\ plan.limit # -1 /\ plan.offset + plan.limit > SizeMax
window(plan) ==
  CASE plan.offset = -1 -> plan.limit
    [] plan.limit = -1 -> -1
    [] OTHER -> plan.offset + plan.limit
aggregates(plan) == plan.group # << >> \/ \E i \in DOMAIN plan.ret : is_aggregate_expr(plan.ret[i].expr)

(* Candidates may be left out only when nothing after them drops, joins or *)
(* sorts rows.                                                             *)
row_limit(plan) ==
  IF plan.where = NoExpr /\ Len(plan.patterns) = 1 /\ plan.order = << >> /\ ~aggregates(plan) /\ plan.optional = << >>
    THEN window(plan) ELSE -1

Known(ids, var) == IF var \in DOMAIN ids THEN <<ids[var]>> ELSE << >>
UsesReverse(plan, ids) ==
  LET path == plan.patterns[1]
  IN  /\ Len(path.edges) = 1
      /\ path.edges[1].range = << >> /\ path.edges[1].dir = "out"
      /\ plan.optional = << >>
      /\ path.nodes[1].var \in DOMAIN ids
first_rows(g, plan, ids) ==
  LET path == plan.patterns[1]
  IN  check_result_budget(g,
        IF UsesReverse(plan, ids) THEN match_reverse_single_edge(g, path, ids[path.nodes[1].var])
        ELSE match_flat_pattern(g, path, Unbound, row_limit(plan), Known(ids, path.start.var)))

BoundVid(b, var) ==
  IF var \in DOMAIN b.values /\ b.values[var] # Null THEN <<V(b.values[var])>> ELSE << >>

(* The further patterns of a list: an inner join.                          *)
join_rows(g, plan, rows) ==
  FoldLeft(LAMBDA r, path :
             IF r.err THEN Fail
             ELSE check_result_budget(g, Gather([i \in DOMAIN r.rows |->
                    match_flat_pattern(g, path, r.rows[i], -1, BoundVid(r.rows[i], path.start.var))])),
           Ok(rows), Tail(plan.patterns))

Variables(path) ==
  ({path.start.var} \cup {path.nodes[i].var : i \in DOMAIN path.nodes}
    \cup {path.edges[i].var : i \in DOMAIN path.edges}) \ {""}
(* OPTIONAL MATCH: a left join, that leaves nulls.                         *)
optional_rows(g, plan, rows) ==
  LET Extended(path, b) ==
        LET found == match_flat_pattern(g, path, b, -1, BoundVid(b, path.start.var))
            nulls == [x \in Variables(path) |-> Null]
            merged == [i \in DOMAIN found.rows |->
                         [values |-> Override(b.values, found.rows[i].values),
                          edges |-> Override(b.edges, found.rows[i].edges)]]
        IN  IF found.err THEN Fail
            ELSE Ok(IF merged = << >> THEN <<[b EXCEPT !.values = Override(nulls, @)]>> ELSE merged)
  IN  check_result_budget(g,
        FoldLeft(LAMBDA r, path : IF r.err THEN Fail
                                  ELSE Gather([i \in DOMAIN r.rows |-> Extended(path, r.rows[i])]),
                 Ok(rows), plan.optional))

(* Every id a row holds must be one that can be shown.                     *)
validate_match_vid_mappings(g, rows) ==
  LET Shown(vid) == display_match_vid(g, vid) # Error
  IN  \A i \in DOMAIN rows :
        /\ \A v \in Range(rows[i].values) : v # Null => Shown(V(v))
        /\ \A e \in Range(rows[i].edges) : Shown(e.src) /\ Shown(e.dst)

where_rows(g, plan, rows) ==
  LET verdicts == [i \in DOMAIN rows |-> eval_condition(g, plan.where, rows[i])]
  IN  IF plan.where = NoExpr THEN Ok(rows)
      ELSE Gather([i \in DOMAIN rows |-> IF FirstFailure(<<verdicts[i]>>) # Missing THEN Fail
                                         ELSE Ok(IF verdicts[i] = True THEN <<rows[i]>> ELSE << >>)])

(* The rows the columns are computed from.                                 *)
binding_rows(g, plan) ==
  LET ids == id_bindings(g, plan)
      Joined(rows) == join_rows(g, plan, rows)
      Optional(rows) == optional_rows(g, plan, rows)
      Filtered(rows) == IF validate_match_vid_mappings(g, rows) THEN where_rows(g, plan, rows) ELSE Fail
  IN  IF ids = None THEN Fail
      ELSE Then(Then(Then(first_rows(g, plan, ids), Joined), Optional), Filtered)

-----------------------------------------------------------------------------
(* Columns.                                                                *)

Evaluated(g, e, rows) == [i \in DOMAIN rows |-> eval_return_expr(g, e, rows[i])]
SumOf(vs) == FoldLeft(LAMBDA n, v : n + Units(v), 0, vs)

(* One aggregate over the rows of a group; Error when it fails.            *)
compute_aggregate(g, e, rows) ==
  LET values == Evaluated(g, e[3][1], rows)
      given == SelectSeq(values, LAMBDA v : T(v) # "null")
      numbers == SelectSeq(values, Numeric)
      ints == \A i \in DOMAIN numbers : T(numbers[i]) = "int"
      sum == SumOf(numbers)
      Best(op) == FoldLeft(LAMBDA best, v : IF best = Missing THEN v
                                            ELSE IF compare_values(v, best, op) THEN v ELSE best,
                           Missing, given)
      OrNull(v) == IF v = Missing THEN Null ELSE v
  IN  CASE e[2] = "COUNT" /\ e[3][1] = Id("*") -> IntV(Len(rows))
        [] FirstFailure(values) # Missing -> Error
        [] e[2] = "COUNT" -> IntV(Len(given))
        [] e[2] = "AVG" -> IF numbers = << >> THEN Null ELSE FloatV(sum \div Len(numbers))
        [] e[2] = "SUM" -> IF ~ints THEN FloatV(sum)
                           ELSE IF sum \div One \in IntMin .. IntMax THEN IntV(sum \div One) ELSE Error
        [] e[2] = "MIN" -> OrNull(Best("<"))
        [] e[2] = "MAX" -> OrNull(Best(">"))

(* The canonical key of a value, in the order groups come out: a sequence  *)
(* of numbers.  Equal keys are equal values, except that a vertex is its   *)
(* id, an edge its identity, and minus zero is zero.                       *)
RECURSIVE match_group_key(_)
match_group_key(v) ==
  LET Keys(vs) == FlattenSeq([i \in DOMAIN vs |-> match_group_key(vs[i])])
  IN  CASE T(v) = "null" -> <<1, V(v)>>
        [] T(v) = "bool" -> <<2, IF V(v) THEN 1 ELSE 0>>
        [] T(v) = "int" -> <<3, V(v)>>
        [] T(v) = "float" -> <<4, IF V(v) < 0 THEN 1 ELSE 0, Abs(V(v))>>
        [] T(v) = "str" -> <<5>> \o V(v) \o <<-1>>
        [] T(v) = "list" -> <<6>> \o Keys(V(v)) \o <<-1>>
        [] T(v) = "vertex" -> <<8>> \o match_group_key(V(v).vid)
        [] T(v) = "edge" -> <<9>> \o match_group_key(V(v).src) \o match_group_key(V(v).dst)
                              \o <<V(v).type, 0, V(v).rank>>

(* One result row per key, in the order of the keys; a column that is no   *)
(* aggregate takes its value from the first row of the group.              *)
group_exprs(plan) ==
  IF plan.group # << >> THEN plan.group
  ELSE LET plain == SelectSeq(plan.ret, LAMBDA c : ~is_aggregate_expr(c.expr))
       IN  [i \in DOMAIN plain |-> plain[i].expr]
RowOf(vs) == IF FirstFailure(vs) # Missing THEN Fail ELSE Ok(<<vs>>)
Cell(g, e, rows) ==
  IF is_aggregate_expr(e) THEN compute_aggregate(g, e, rows)
  ELSE IF rows = << >> THEN Null ELSE eval_return_expr(g, e, rows[1])
ColumnsOf(g, plan, rows) == [c \in DOMAIN plan.ret |-> Cell(g, plan.ret[c].expr, rows)]
grouped(g, plan, rows) ==
  LET exprs == group_exprs(plan)
      values == [i \in DOMAIN rows |-> [k \in DOMAIN exprs |-> eval_return_expr(g, exprs[k], rows[i])]]
      keys == [i \in DOMAIN rows |-> FlattenSeq([k \in DOMAIN exprs |-> match_group_key(values[i][k])])]
      all == Range(keys)
      sorted == [n \in 1 .. Cardinality(all) |->
                   CHOOSE k \in all : Cardinality({j \in all : Precedes(j, k)}) = n - 1]
      Members(k) == LET at == SelectSeq([i \in DOMAIN rows |-> i], LAMBDA i : keys[i] = k)
                    IN  [i \in DOMAIN at |-> rows[at[i]]]
  IN  IF \E i \in DOMAIN rows : FirstFailure(values[i]) # Missing THEN Fail
      ELSE Gather([n \in DOMAIN sorted |-> RowOf(ColumnsOf(g, plan, Members(sorted[n])))])

(* Without RETURN the names the first row binds are the columns.           *)
project(g, plan, rows) ==
  LET names == IF rows = << >> THEN {} ELSE DOMAIN rows[1].values \ {Anon}
  IN  CASE plan.ret = << >> ->
             Ok([i \in DOMAIN rows |-> [x \in names |-> IF x \in DOMAIN rows[i].values THEN rows[i].values[x] ELSE Null]])
        [] plan.ret # << >> /\ aggregates(plan) ->
             IF group_exprs(plan) # << >> THEN grouped(g, plan, rows) ELSE RowOf(ColumnsOf(g, plan, rows))
        [] OTHER ->
             Gather([i \in DOMAIN rows |->
                       RowOf([c \in DOMAIN plan.ret |-> eval_return_expr(g, plan.ret[c].expr, rows[i])])])

value_sort_cmp(a, b) ==
  CASE OrderWithBools(a, b) # "none" -> OrderWithBools(a, b)
    [] T(a) = "null" /\ T(b) # "null" -> "gt"
    [] T(b) = "null" /\ T(a) # "null" -> "lt"
    [] OTHER -> "eq"
Flip(o) == CASE o = "lt" -> "gt" [] o = "gt" -> "lt" [] o = "eq" -> "eq"
RowOrder(a, b, keys) ==
  LET ords == [i \in DOMAIN keys |-> LET o == value_sort_cmp(a[keys[i].col], b[keys[i].col])
                                     IN  IF keys[i].desc THEN Flip(o) ELSE o]
      told == SelectSeq(ords, LAMBDA o : o # "eq")
  IN  IF told = << >> THEN "eq" ELSE told[1]
RECURSIVE sort_rows_by_order(_, _)
sort_rows_by_order(rows, keys) ==
  IF rows = << >> \/ keys = << >> THEN rows
  ELSE LET sorted == sort_rows_by_order(Front(rows), keys)
           row == Last(rows)
           before == SelectSeq(sorted, LAMBDA r : RowOrder(r, row, keys) # "gt")
       IN  SubSeq(sorted, 1, Len(before)) \o <<row>> \o SubSeq(sorted, Len(before) + 1, Len(sorted))

-----------------------------------------------------------------------------
(* The statement.                                                          *)

count_node_matches_bounded(g, node) ==
  LET indexed == DOMAIN node.props = {} /\ ~LabelUnion(node) /\ node.labels # << >>
      vids == IF indexed THEN Labelled(g, node) ELSE << >>
      all == Ascending(DOMAIN g.vertices)
  IN  IF check_candidate_scan_size(g, Len(vids)) THEN Fail
      ELSE IF Live(g, vids, node) # << >> THEN Ok(Live(g, vids, node))
      ELSE IF check_candidate_scan_size(g, Len(all)) THEN Fail
      ELSE Ok(Live(g, all, node))
try_execute_simple_count(g, plan) ==
  LET counted == count_node_matches_bounded(g, plan.patterns[1].start)
      shown == \A i \in DOMAIN counted.rows : display_match_vid(g, counted.rows[i]) # Error
  IN  IF \/ plan.where # NoExpr \/ plan.optional # << >> \/ plan.group # << >>
         \/ Len(plan.ret) # 1
         \/ Len(plan.patterns) # 1 \/ plan.patterns[1].edges # << >>
      THEN None
      ELSE IF plan.ret[1].expr # Fn("COUNT", <<Id("*")>>) THEN None
      ELSE IF counted.err \/ ~shown THEN Fail
      ELSE Ok(IF plan.limit = 0 \/ plan.offset > 0 THEN << >> ELSE <<<<IntV(Len(counted.rows))>>>>)

execute_match_unfenced(g, plan) ==
  LET simple == try_execute_simple_count(g, plan)
      keys == match_order_keys(plan).rows
      Projected(rows) == project(g, plan, rows)
      Windowed(rows) ==
        LET sorted == sort_rows_by_order(rows, keys)
            skipped == IF plan.offset = -1 THEN sorted ELSE SubSeq(sorted, plan.offset + 1, Len(sorted))
        IN  Ok(IF plan.limit = -1 \/ Len(skipped) <= plan.limit THEN skipped ELSE SubSeq(skipped, 1, plan.limit))
  IN  IF ~validate_match_expressions(plan) \/ Overflows(plan) THEN Fail
      ELSE IF simple # None THEN simple
      ELSE Then(Then(binding_rows(g, plan), Projected), Windowed)

-----------------------------------------------------------------------------
(* What the rows should be, without indexes, shortcuts or an order of      *)
(* search: one for every placement of the pattern in the graph.            *)

NoEdge == [none |-> TRUE]
Matching(g, ep) == {e \in Range(g.edges) : (ep.types = {} \/ e.type \in ep.types) /\ matches_edge_data(e, ep)}
Joins(e, dir, v, w) ==
  \/ dir \in {"out", "both"} /\ e.src = v /\ e.dst = w
  \/ dir \in {"in", "both"} /\ e.src = w /\ e.dst = v
Connects(g, ep, v, e, w) ==
  LET Simple(k) == {p \in [0 .. k -> DOMAIN g.vertices] : \A i, j \in 0 .. k : i # j => p[i] # p[j]}
      Leads(p, k) == /\ p[0] = v /\ p[k] = w
                     /\ \A i \in 1 .. k : \E d \in Matching(g, ep) : Joins(d, ep.dir, p[i - 1], p[i])
  IN  IF ep.range = << >> THEN e \in Matching(g, ep) /\ Joins(e, ep.dir, v, w)
      ELSE e = NoEdge /\ \E k \in 1 .. ep.range[2] : k >= ep.range[1] /\ \E p \in Simple(k) : Leads(p, k)
Placements(g, path) ==
  LET n == Len(path.edges)
      NodeAt(i) == IF i = 0 THEN path.start ELSE path.nodes[i]
  IN  {m \in [vs : [0 .. n -> DOMAIN g.vertices], es : [1 .. n -> Range(g.edges) \cup {NoEdge}]] :
         /\ \A i \in 0 .. n : matches_node(g, m.vs[i], NodeAt(i))
         /\ \A i \in 1 .. n : Connects(g, path.edges[i], m.vs[i - 1], m.es[i], m.vs[i])}

(* What a placement gives to the names of the pattern.                     *)
Given(path, m) ==
  {<<path.start.var, <<"vertex", m.vs[0]>>>>}
    \cup {<<path.nodes[i].var, <<"vertex", m.vs[i]>>>> : i \in DOMAIN path.nodes}
    \cup {<<path.edges[i].var, <<"edge", m.es[i]>>>> : i \in DOMAIN path.edges}
NamesIn(pairs) == {p \in pairs : p[1] # ""}
Function(pairs) == [x \in {p[1] : p \in pairs} |-> (CHOOSE p \in pairs : p[1] = x)[2]]
Extends(row, pairs) ==
  /\ \A p, q \in pairs : p[1] = q[1] => p[2] = q[2]
  /\ \A p \in pairs : p[1] \in DOMAIN row => row[p[1]] = p[2]

(* Rows with the placements they came from, so that equal rows of          *)
(* different placements are counted apart.                                 *)
Steps(g, S, path, optional) ==
  UNION {LET found == {m \in Placements(g, path) : Extends(s.row, NamesIn(Given(path, m)))}
         IN  IF optional /\ found = {}
               THEN {[row |-> Override([x \in Variables(path) |-> <<"null", 0>>], s.row), by |-> Append(s.by, NoEdge)]}
               ELSE {[row |-> Override(s.row, Function(NamesIn(Given(path, m)))), by |-> Append(s.by, m)] : m \in found}
         : s \in S}
AsBinding(row) ==
  [values |-> [x \in DOMAIN row |-> CASE row[x][1] = "vertex" -> IntV(row[x][2])
                                      [] row[x][1] = "edge" -> IntV(row[x][2].dst)
                                      [] OTHER -> Null],
   edges |-> [x \in {y \in DOMAIN row : row[y][1] = "edge"} |-> row[x][2]]]
Expected(g, plan) ==
  LET required == FoldLeft(LAMBDA S, path : Steps(g, S, path, FALSE), {[row |-> << >>, by |-> << >>]}, plan.patterns)
      all == FoldLeft(LAMBDA S, path : Steps(g, S, path, TRUE), required, plan.optional)
  IN  {s \in all : plan.where # NoExpr => eval_condition(g, plan.where, AsBinding(s.row)) = True}

Nameless(b) == [b EXCEPT !.values = [x \in DOMAIN @ \ {Anon} |-> @[x]]]

(* The vertices a pattern starts from have its properties on the tag of    *)
(* its label: a property index knows no other tag.                         *)
OnLabel(g, node) ==
  \A v \in DOMAIN g.vertices : matches_node(g, v, node) /\ node.labels # << >> =>
    \E t \in Range(g.vertices[v]) :
       t.name = Label(node) /\ \A p \in DOMAIN node.props : Held(t, p) = expression_as_value(node.props[p])
Served(g, plan) ==
  g.indexes = << >> \/ \A path \in Range(plan.patterns \o plan.optional) : OnLabel(g, path.start)

(* A MATCH that succeeds has a row for every placement of its patterns     *)
(* that satisfies the condition, and no other: whichever of the label      *)
(* index, a property index, the id in the condition or the incoming edges  *)
(* the search starts from, with loops, repeated names, lists of patterns,  *)
(* hops of variable length and OPTIONAL.                                   *)
MatchesExact(g, plan) ==
  LET got == binding_rows(g, [plan EXCEPT !.limit = -1, !.offset = -1])
      rows == [i \in DOMAIN got.rows |-> Nameless(got.rows[i])]
      want == Expected(g, plan)
  IN  ~got.err /\ Served(g, plan) =>
        /\ Len(rows) = Cardinality(want)
        /\ \A r \in Range(rows) :
             Cardinality({i \in DOMAIN rows : rows[i] = r}) = Cardinality({s \in want : AsBinding(s.row) = r})

(* OFFSET and LIMIT cut the rows of the statement without them: stopping   *)
(* the search early, and counting without rows, are not noticed.           *)
WindowExact(g, plan) ==
  LET all == execute_match_unfenced(g, [plan EXCEPT !.limit = -1, !.offset = -1])
      got == execute_match_unfenced(g, plan)
      from == IF plan.offset = -1 THEN 0 ELSE plan.offset
      upto == IF plan.limit = -1 THEN Len(all.rows) ELSE from + plan.limit
  IN  ~got.err /\ ~all.err =>
        got.rows = SubSeq(all.rows, from + 1, IF upto < Len(all.rows) THEN upto ELSE Len(all.rows))

(* COUNT( * ) is the number of rows the statement has without it.           *)
CountsAgree(g, plan) ==
  LET Returning(e) == execute_match_unfenced(g, [plan EXCEPT !.ret = <<Column(e, "c")>>, !.order = << >>, !.group = << >>,
                                                              !.limit = -1, !.offset = -1])
      counted == Returning(Fn("COUNT", <<Id("*")>>))
      rows == Returning(Lit(Null))
  IN  ~counted.err /\ ~rows.err /\ Served(g, plan) => counted.rows = <<<<IntV(Len(rows.rows))>>>>

(* The groups of an aggregate, implied by its other column or named by     *)
(* GROUP BY, are the distinct values of that column; each is counted once  *)
(* for every row that has it.                                              *)
GroupsExact(g, plan, key) ==
  LET plain == [plan EXCEPT !.ret = <<Column(key, "k")>>, !.group = << >>, !.order = << >>, !.limit = -1, !.offset = -1]
      counted == execute_match_unfenced(g, [plain EXCEPT !.ret = <<Column(key, "k"), Column(Fn("COUNT", <<Id("*")>>), "n")>>,
                                                         !.group = plan.group])
      rows == execute_match_unfenced(g, plain)
      Same(v, w) == match_group_key(v) = match_group_key(w)
  IN  plan.group \in {<< >>, <<key>>} /\ ~counted.err /\ ~rows.err =>
        /\ \A i \in DOMAIN counted.rows :
             counted.rows[i][2] = IntV(Cardinality({j \in DOMAIN rows.rows : Same(rows.rows[j][1], counted.rows[i][1])}))
        /\ \A j \in DOMAIN rows.rows :
             Cardinality({i \in DOMAIN counted.rows : Same(rows.rows[j][1], counted.rows[i][1])}) = 1

(* The two-valued condition of MATCH accepts a row exactly when the        *)
(* three-valued evaluator of GO finds it true, for conditions both accept, *)
(* whatever values or nulls the properties have, but for three comparisons *)
(* with values of two kinds or null: MATCH finds `!=' and NOT CONTAINS     *)
(* false where GO finds them true, and NOT IN true where GO finds it       *)
(* unknown.  And a condition the validator accepted is never refused when  *)
(* a row is read.                                                          *)
SameKind(v, w) == T(v) = T(w) \/ (Numeric(v) /\ Numeric(w))
ConditionAgrees(e, props) ==
  LET g == [vertices |-> [v \in {1} |-> <<[name |-> 1, props |-> props]>>], edges |-> << >>, strings |-> FALSE]
      row == [values |-> Bind1("n", IntV(1)), edges |-> << >>]
      ctx == Alone([p \in {<<"n", q>> : q \in DOMAIN props} |-> props[p[2]]])
      here == eval_condition(g, e, row)
      there == evaluate_condition(e, ctx)
      Mixed(a) == \E c \in Compared(a) \ {NoPair} :
                    ~SameKind(props[c[1]], c[2]) /\ (a[2] = "!=" \/ props[c[1]] # Null)
      Differs(a) ==
        /\ Kind(a) = "bin"
        /\ \/ a[2] \in {"!=", "not contains"} /\ Mixed(a)
           \/ a[2] = "not in" /\ evaluate_with_context(a, ctx) = Null
  IN  validate_match_condition(e) =>
        /\ here # Unsupported
        /\ T(here) = "bool" /\ T(there) = "bool" /\ (\A a \in Comparisons(e) : ~Differs(a)) => here = there
=============================================================================
