------------------------------ MODULE Traverse ------------------------------
(***************************************************************************)
(* GO and FIND PATH: execute_go and execute_find of executor/dql.rs over   *)
(* byoridb-executor/src/algo.rs and algo_paths.rs.  The store is the one   *)
(* MATCH reads; besides,                                                   *)
(*   bad    is the set of the edges whose payload does not decode, or does *)
(*          not agree with its key,                                        *)
(*   paths  is max_find_paths,                                             *)
(*   cluster says whether a cluster answers.                               *)
(***************************************************************************)
EXTENDS MatchResults

CONSTANT FloatInf     \* units of a float that is no longer finite

Earlier(s, i, v) == \E j \in 1 .. i - 1 : s[j] = v
Distinct(s) ==
  LET kept == SelectSeq([i \in DOMAIN s |-> i], LAMBDA i : ~Earlier(s, i, s[i]))
  IN  [k \in DOMAIN kept |-> s[kept[k]]]

-----------------------------------------------------------------------------
(* Neighbours.  GO leaves out what it cannot decode, FIND fails.           *)

Wanted(e, types) == types = {} \/ e.type \in types
Neighbour(dst, e) == [dst |-> dst, edge |-> e]
get_neighbors(g, v, types) ==
  LET found == SelectSeq(g.edges, LAMBDA e : e.src = v /\ Wanted(e, types) /\ e \notin g.bad)
  IN  [i \in DOMAIN found |-> Neighbour(found[i].dst, found[i])]
get_incoming_neighbors(g, v, types) ==
  LET found == SelectSeq(g.edges, LAMBDA e : e.dst = v /\ Wanted(e, types) /\ e \notin g.bad)
  IN  [i \in DOMAIN found |-> Neighbour(found[i].src, found[i])]

decode_query_edge(g, e) == IF e \in g.bad THEN Fail ELSE Ok(<<e>>)
collect_neighbor_vids(g, v, types, bidirect) ==
  LET Scan(at(_), end(_)) ==
        LET found == SelectSeq(g.edges, LAMBDA e : at(e) = v /\ Wanted(e, types))
            decoded == Gather([i \in DOMAIN found |-> decode_query_edge(g, found[i])])
        IN  IF decoded.err THEN Fail ELSE Ok([i \in DOMAIN decoded.rows |-> end(decoded.rows[i])])
      Src(e) == e.src
      Dst(e) == e.dst
      both == Gather(<<Scan(Src, Dst)>> \o (IF bidirect THEN <<Scan(Dst, Src)>> ELSE << >>))
  IN  IF both.err THEN Fail ELSE Ok(Distinct(both.rows))

-----------------------------------------------------------------------------
(* GO.  A plan has the ids or the variable it starts from (from, or var    *)
(* and col), over, dir, min, max, where and yield.                         *)

(* vars: the variables earlier clauses bound, each a table.                *)
go_sources(g, plan, vars) ==
  LET table == vars[plan.var]
      column == IF plan.col = "" THEN 1 ELSE CHOOSE c \in DOMAIN table.columns : table.columns[c] = plan.col
      Resolve(v) == IF T(v) \in {"int", "str"} THEN resolve_vid(g, v) ELSE Fail
      cells == SelectSeq(table.rows, LAMBDA row : column \in DOMAIN row)
  IN  CASE plan.from # << >> -> Gather([i \in DOMAIN plan.from |-> Resolve(plan.from[i])])
        [] plan.var \notin DOMAIN vars -> Fail      \* no source, or a variable nobody bound
        [] plan.col # "" /\ plan.col \notin Range(table.columns) -> Fail
        [] OTHER -> Gather([i \in DOMAIN cells |-> Resolve(cells[i][column])])

NoLast == [none |-> TRUE]
Found(src, dst, last) == [src |-> src, dst |-> dst, last |-> last]

(* One neighbour of one vertex of the frontier: whether it gives a row,    *)
(* and whether it is expanded.  (RowPerVertex: a row only for a vertex     *)
(* that was not visited.)                                                  *)
RowPerVertex(st, plan, hop, n) ==
  [st EXCEPT !.rows = IF hop >= plan.min /\ n.dst \notin st.visited THEN Append(@, Found(st.src, n.dst, n.edge)) ELSE @,
             !.visited = @ \cup {n.dst},
             !.next = IF n.dst \in st.visited THEN @ ELSE Append(@, n.dst)]
Reach(st, plan, hop, n) ==
  LET identity == <<n.dst, n.edge.type, n.edge.rank>>
      new == hop >= plan.min /\ identity \notin st.reported
  IN  [st EXCEPT !.rows = IF new THEN Append(@, Found(st.src, n.dst, n.edge)) ELSE @,
                 !.reported = IF new THEN @ \cup {identity} ELSE @,
                 !.visited = @ \cup {n.dst},
                 !.next = IF n.dst \in st.visited THEN @ ELSE Append(@, n.dst)]

GoNeighbours(g, plan, v) ==
  LET out == get_neighbors(g, v, Range(plan.over))
      in == get_incoming_neighbors(g, v, Range(plan.over))
  IN  CASE plan.dir = "out" -> out [] plan.dir = "in" -> in [] plan.dir = "both" -> out \o in

RECURSIVE GoHops(_, _, _, _)
GoHops(g, plan, st, hop) ==
  IF hop > plan.max \/ st.next = << >> THEN st.rows
  ELSE LET reached == FlattenSeq([i \in DOMAIN st.next |-> GoNeighbours(g, plan, st.next[i])])
       IN  GoHops(g, plan, FoldLeft(LAMBDA s, n : Reach(s, plan, hop, n), [st EXCEPT !.next = << >>], reached), hop + 1)
GoFrom(g, plan, src) ==
  GoHops(g, plan,
         [src |-> src, visited |-> {src}, reported |-> {}, next |-> <<src>>,
          rows |-> IF plan.min = 0 THEN <<Found(src, src, NoLast)>> ELSE << >>], 1)

(* A vertex that cannot be read offers no properties.                      *)
vertex_props_flat(g, vid) ==
  LET tags == IF vid \in DOMAIN g.vertices THEN g.vertices[vid] ELSE << >>
      Offer(map, t) == Override([n \in {<<t.name, p>> : p \in DOMAIN t.props} \cup {<<p>> : p \in DOMAIN t.props}
                                   |-> t.props[Last(n)]],
                                map)
  IN  FoldLeft(Offer, << >>, tags)
go_row_matches_where(g, row, where) ==
  LET e == row.last
      names == IF e = NoLast THEN {} ELSE {<<e.type, p>> : p \in DOMAIN e.props} \cup {<<p>> : p \in DOMAIN e.props}
      current == [n \in names |-> e.props[Last(n)]]
  IN  evaluate_condition(where, Context(current, vertex_props_flat(g, row.src), vertex_props_flat(g, row.dst), << >>))

eval_go_yield_expr(g, row, e) ==
  LET last == row.last
      tags == IF row.dst \in DOMAIN g.vertices THEN g.vertices[row.dst] ELSE << >>
      tag == SelectSeq(tags, LAMBDA t : t.name = e[2])
      OfEdge(name) ==
        CASE last = NoLast -> Null
          [] name \in {"dst", "_dst", "dst_id"} -> display_match_vid(g, last.dst)
          [] name \in {"src", "_src", "src_id"} -> display_match_vid(g, last.src)
          [] name \in {"type", "_type"} -> StrV(<<last.type>>)
          [] name \in {"rank", "ranking", "_rank"} -> IntV(last.rank)
          [] OTHER -> Null
  IN  CASE Kind(e) = "id" ->
             CASE e[2] \in {"src", "_src_vid"} -> display_match_vid(g, row.src)
               [] e[2] \in {"dst", "_dst_vid"} -> display_match_vid(g, row.dst)
               [] e[2] = "vertex" -> IF row.dst \in DOMAIN g.vertices THEN build_vertex_value(g, row.dst) ELSE Null
               [] e[2] = "edge" -> IF last = NoLast THEN Null ELSE edge_data_to_value(g, last)
               [] OTHER -> Null
        [] Kind(e) = "prop" ->
             IF e[3] \in {"_dst", "dst_id", "_src", "src_id", "_type", "_rank"} THEN OfEdge(e[3])
             ELSE IF last # NoLast /\ e[3] \in DOMAIN last.props THEN last.props[e[3]] ELSE Null
        [] Kind(e) = "dstprop" -> IF tag # << >> /\ e[3] \in DOMAIN tag[1].props THEN tag[1].props[e[3]] ELSE Null
        [] Kind(e) = "lit" -> e[2]
        [] Kind(e) = "fn" -> IF e[2] \in {"type", "dst", "src", "rank", "ranking"} THEN OfEdge(e[2]) ELSE Null
        [] OTHER -> Null

(* What a vertex was merged into is where the traversal starts.            *)
go_traversal(g, plan, vids) ==
  LET starts == [i \in DOMAIN vids |-> representative_of(g, vids[i])]
      all == FlattenSeq([i \in DOMAIN starts |-> GoFrom(g, plan, starts[i])])
      verdicts == [i \in DOMAIN all |-> IF plan.where = NoExpr THEN True ELSE go_row_matches_where(g, all[i], plan.where)]
  IN  IF g.steps > 0 /\ plan.max > g.steps THEN Fail
      ELSE Gather([i \in DOMAIN all |-> IF T(verdicts[i]) # "bool" THEN Fail
                                        ELSE Ok(IF verdicts[i] = True THEN <<all[i]>> ELSE << >>)])
execute_go_local(g, plan, vids) ==
  LET found == go_traversal(g, plan, vids)
      yield == IF plan.yield = << >> THEN <<Id("src"), Id("dst")>> ELSE plan.yield
      Row(row) == RowOf([c \in DOMAIN yield |-> eval_go_yield_expr(g, row, yield[c])])
      rows == Gather([i \in DOMAIN found.rows |-> Row(found.rows[i])])
  IN  IF found.err THEN Fail
      ELSE IF plan.yield = << >> THEN rows ELSE check_result_budget(g, rows)

(* What DistributedQueryExecutor::execute_go answers when it does not fail *)
(* (module Distributed): the edges of one type, one hop away.              *)
RemoteEdges(g, vids, type) ==
  Ok(FlattenSeq([i \in DOMAIN vids |-> SelectSeq(g.edges, LAMBDA e : e.src = vids[i] /\ e.type = type)]))
execute_go_distributed(g, plan, answer) ==
  IF plan.dir # "out" \/ answer.err THEN Fail
  ELSE Gather([i \in DOMAIN answer.rows |->
                 RowOf(<<display_match_vid(g, answer.rows[i].src), display_match_vid(g, answer.rows[i].dst)>>)])
execute_go(g, plan, vars) ==
  LET vids == go_sources(g, plan, vars)
      over == IF plan.over = << >> THEN 0 ELSE plan.over[1]     \* 0: a name no edge type has
  IN  IF vids.err THEN Fail
      ELSE IF g.cluster THEN execute_go_distributed(g, plan, RemoteEdges(g, vids.rows, over))
      ELSE execute_go_local(g, plan, vids.rows)

-----------------------------------------------------------------------------
(* FIND PATH.                                                              *)

Spent(g, expanded) == g.nodes > 0 /\ expanded >= g.nodes

RECURSIVE reconstruct_path(_, _, _)
reconstruct_path(parent, start, path) ==
  IF path[1] = start \/ path[1] \notin DOMAIN parent THEN path
  ELSE reconstruct_path(parent, start, <<parent[path[1]]>> \o path)

RECURSIVE Bfs(_, _, _, _, _)
Bfs(g, f, queue, parent, expanded) ==
  LET current == queue[1].vid
      step == queue[1].step
      found == collect_neighbor_vids(g, current, f.types, f.bidirect)
      fresh == SelectSeq(found.rows, LAMBDA v : v \notin DOMAIN parent \cup {f.start})
      parents == Override(parent, [v \in Range(fresh) |-> current])
  IN  CASE queue = << >> -> Ok(<< >>)
        [] queue # << >> /\ step >= f.max -> Bfs(g, f, Tail(queue), parent, expanded)
        [] OTHER ->
             IF Spent(g, expanded) \/ found.err THEN Fail
             ELSE IF f.target \in Range(fresh) THEN Ok(<<reconstruct_path(parents, f.start, <<f.target>>)>>)
             ELSE Bfs(g, f, Tail(queue) \o [i \in DOMAIN fresh |-> [vid |-> fresh[i], step |-> step + 1]],
                      parents, expanded + 1)
shortest_path(g, f) ==
  IF f.start = f.target THEN Ok(<<<<f.start>>>>) ELSE Bfs(g, f, <<[vid |-> f.start, step |-> 0]>>, << >>, 0)

(* All shortest paths: the predecessors of every vertex, level by level.   *)
Discover(st, u, v, d) ==
  IF v \notin DOMAIN st.depth
    THEN [st EXCEPT !.depth = Override(@, Bind1(v, d + 1)), !.parents = Override(@, Bind1(v, <<u>>)), !.next = Append(@, v)]
  ELSE IF st.depth[v] = d + 1 THEN [st EXCEPT !.parents[v] = Append(@, u)]
  ELSE st
RECURSIVE Levels(_, _, _, _)
Levels(g, f, st, d) ==
  LET Visit(s, u) ==
        LET found == collect_neighbor_vids(g, u, f.types, f.bidirect)
        IN  IF s.err \/ Spent(g, s.expanded) \/ found.err THEN [s EXCEPT !.err = TRUE]
            ELSE FoldLeft(LAMBDA t, v : Discover(t, u, v, d), [s EXCEPT !.expanded = @ + 1], found.rows)
  IN  IF st.err \/ st.next = << >> \/ d >= f.max \/ f.target \in DOMAIN st.depth THEN st
      ELSE Levels(g, f, FoldLeft(Visit, [st EXCEPT !.next = << >>], st.next), d + 1)
RECURSIVE Enumerate(_, _, _, _, _)
Enumerate(g, f, parents, stack, paths) ==
  IF stack = << >> THEN Ok(paths)
  ELSE LET partial == Last(stack)
           head == partial[1]
       IN  IF head = f.start
             THEN IF g.paths > 0 /\ Len(paths) >= g.paths THEN Fail
                  ELSE Enumerate(g, f, parents, Front(stack), Append(paths, partial))
             ELSE Enumerate(g, f, parents,
                            Front(stack) \o [i \in DOMAIN parents[head] |-> <<parents[head][i]>> \o partial], paths)
all_shortest_paths(g, f) ==
  LET st == Levels(g, f, [depth |-> Bind1(f.start, 0), parents |-> << >>, next |-> <<f.start>>,
                          expanded |-> 0, err |-> FALSE], 0)
  IN  CASE f.start = f.target -> Ok(<<<<f.start>>>>)
        [] f.start # f.target /\ st.err -> Fail
        [] OTHER -> IF f.target \in DOMAIN st.depth THEN Enumerate(g, f, st.parents, <<<<f.target>>>>, << >>)
                    ELSE Ok(<< >>)

(* Dijkstra, on pairs of a vertex and the hops it took when the hops are   *)
(* bounded (f.max # -1), on vertices otherwise.                            *)
Weight(f, e) ==
  IF f.weight \in DOMAIN e.props /\ Numeric(e.props[f.weight]) THEN Units(e.props[f.weight]) ELSE One
HeapBefore(a, b) == Precedes(a, b)      \* DisplayableOrderedFloat: by distance, vertex, hops
Relax(st, f, state, e) ==
  LET cost == st.dist[state] + Weight(f, e)
      next == <<e.dst, IF f.max # -1 THEN state[2] + 1 ELSE 0>>
  IN  CASE st.err \/ Weight(f, e) < 0 \/ Weight(f, e) >= FloatInf \/ cost >= FloatInf -> [st EXCEPT !.err = TRUE]
        [] next \in DOMAIN st.dist /\ cost >= st.dist[next] -> st
        [] OTHER -> [st EXCEPT !.dist = Override(@, Bind1(next, cost)),
                               !.parent = Override(@, Bind1(next, state)),
                               !.heap = @ \cup {<<cost>> \o next}]
RECURSIVE Settle(_, _, _)
Settle(g, f, st) ==
  LET top == CHOOSE a \in st.heap : \A b \in st.heap \ {a} : HeapBefore(a, b)
      state == Tail(top)
      rest == [st EXCEPT !.heap = @ \ {top}]
      found == SelectSeq(g.edges, LAMBDA e : e.src = state[1] /\ Wanted(e, f.types))
      decoded == Gather([i \in DOMAIN found |-> decode_query_edge(g, found[i])])
  IN  CASE st.heap = {} \/ st.err -> st
        [] OTHER ->
             IF top[1] > st.dist[state] THEN Settle(g, f, rest)
             ELSE IF state[1] = f.target
               THEN Settle(g, f, IF st.best = << >> \/ top[1] < st.best[1] THEN [rest EXCEPT !.best = top] ELSE rest)
             ELSE IF f.max # -1 /\ state[2] >= f.max THEN Settle(g, f, rest)
             ELSE IF Spent(g, st.expanded) \/ decoded.err THEN [st EXCEPT !.err = TRUE]
             ELSE Settle(g, f, FoldLeft(LAMBDA s, e : Relax(s, f, state, e), [rest EXCEPT !.expanded = @ + 1], decoded.rows))
dijkstra_shortest_path_with_steps(g, f) ==
  LET initial == <<f.start, 0>>
      st == Settle(g, f, [dist |-> Bind1(initial, 0), parent |-> << >>, heap |-> {<<0>> \o initial},
                          best |-> << >>, expanded |-> 0, err |-> FALSE])
      states == reconstruct_path(st.parent, initial, <<Tail(st.best)>>)
  IN  CASE f.start = f.target -> Ok(<<<<f.start>>>>)
        [] f.start # f.target /\ st.err -> Fail
        [] OTHER -> Ok(IF st.best = << >> THEN << >> ELSE <<[i \in DOMAIN states |-> states[i][1]]>>)

execute_find(g, plan) ==
  LET Ends(e) == IF T(expr_to_value(e)) \in {"int", "str"} THEN resolve_vid(g, expr_to_value(e)) ELSE Fail
      from == Ends(plan.from)
      to == Ends(plan.to)
      f == [start |-> from.rows[1], target |-> to.rows[1], types |-> plan.over, bidirect |-> plan.bidirect,
            weight |-> plan.weight,
            max |-> IF plan.upto = -1 /\ plan.weight = "" THEN 10 ELSE plan.upto]
      Shown(path) == RowOf([i \in DOMAIN path |-> display_match_vid(g, path[i])])
      Rows(paths) == Gather([i \in DOMAIN paths |-> Shown(paths[i])])
  IN  IF \/ plan.where # NoExpr \/ plan.yield # << >>
         \/ g.steps > 0 /\ plan.upto > g.steps
         \/ plan.weight # "" /\ (plan.bidirect \/ plan.all)
         \/ from.err \/ T(expr_to_value(plan.to)) \notin {"int", "str"} THEN Fail
      ELSE IF from.rows = << >> THEN Ok(<< >>)
      ELSE IF to.err THEN Fail
      ELSE IF to.rows = << >> THEN Ok(<< >>)
      ELSE Then(IF plan.weight # "" THEN dijkstra_shortest_path_with_steps(g, f)
                ELSE IF plan.all THEN all_shortest_paths(g, f) ELSE shortest_path(g, f),
                Rows)

-----------------------------------------------------------------------------
(* Properties.                                                             *)

(* The pairs one hop leads from and to.                                    *)
Leads(g, types, dir, e, v, w) ==
  /\ Wanted(e, types)
  /\ \/ dir \in {"out", "both"} /\ e.src = v /\ e.dst = w
     \/ dir \in {"in", "both"} /\ e.dst = v /\ e.src = w
Places(g) == DOMAIN g.vertices \cup UNION {{g.edges[i].src, g.edges[i].dst} : i \in DOMAIN g.edges}
(* Vertices by their distance from src: layers[n][1] at distance n, and    *)
(* layers[n][2] no further away.                                           *)
Layers(g, types, dir, src, k) ==
  LET Next(S) == {w \in Places(g) : \E v \in S, i \in DOMAIN g.edges : Leads(g, types, dir, g.edges[i], v, w)}
      layers[n \in 0 .. k] == IF n = 0 THEN <<{src}, {src}>>
                              ELSE LET new == Next(layers[n - 1][1]) \ layers[n - 1][2]
                                   IN  <<new, layers[n - 1][2] \cup new>>
  IN  layers

(* GO gives, for each start, one row for each destination, edge type and   *)
(* rank of an edge that leaves a vertex whose distance from the start is   *)
(* one less than a hop count asked for, and no other; the start itself     *)
(* when no hop at all is asked for too.  Edges reached over several paths  *)
(* are not repeated, cycles end.                                           *)
GoExact(g, plan, vids) ==
  LET r == go_traversal(g, [plan EXCEPT !.where = NoExpr], vids)
      src(i) == representative_of(g, vids[i])
      over == Range(plan.over)
      Leaving(v) == {<<x[1], x[2].type, x[2].rank>> :
                       x \in {y \in Places(g) \X Range(g.edges) : Leads(g, over, plan.dir, y[2], v, y[1])}}
      Due(s) == LET layers == Layers(g, over, plan.dir, s, plan.max)
                    asked == {h \in plan.min .. plan.max : h > 0}
                IN  UNION {Leaving(v) : v \in UNION {layers[h - 1][1] : h \in asked}}
      due == [i \in DOMAIN vids |-> Due(src(i))]
      Count(i) == Cardinality(due[i]) + IF plan.min = 0 THEN 1 ELSE 0
  IN  ~r.err /\ g.bad = {} =>
        /\ Len(r.rows) = FoldLeft(LAMBDA n, i : n + Count(i), 0, [i \in DOMAIN vids |-> i])
        /\ \A i \in DOMAIN vids : \A x \in due[i] :
             \E k \in DOMAIN r.rows : /\ r.rows[k].src = src(i) /\ r.rows[k].dst = x[1]
                                      /\ r.rows[k].last # NoLast
                                      /\ r.rows[k].last.type = x[2] /\ r.rows[k].last.rank = x[3]

(* A cluster answers a GO of one hop over one edge type as one node does,  *)
(* or refuses it: the same pairs, as often.                                *)
RemoteGoAgrees(g, plan, vars) ==
  LET one == [plan EXCEPT !.min = 1, !.max = 1, !.where = NoExpr, !.yield = << >>]
      near == execute_go([g EXCEPT !.cluster = FALSE], one, vars)
      far == execute_go([g EXCEPT !.cluster = TRUE], one, vars)
      Times(rows, x) == Cardinality({i \in DOMAIN rows : rows[i] = x})
  IN  Len(plan.over) = 1 /\ g.bad = {} /\ g.rep = << >> /\ ~far.err =>
        ~near.err /\ \A x \in Range(near.rows) \cup Range(far.rows) : Times(near.rows, x) = Times(far.rows, x)

(* The paths there are between two vertices, and what they cost.           *)
Direction(plan) == IF plan.bidirect THEN "both" ELSE "out"
Between(g, plan, v, w) == {i \in DOMAIN g.edges : Leads(g, plan.over, Direction(plan), g.edges[i], v, w)}
PathsOf(g, plan, s, t, max) ==
  LET Onward(p) == {w \in Places(g) : Last(p) # t /\ w \notin Range(p) /\ Between(g, plan, Last(p), w) # {}}
      paths[n \in 0 .. max] == IF n = 0 THEN {<<s>>} ELSE UNION {{Append(p, w) : w \in Onward(p)} : p \in paths[n - 1]}
  IN  {p \in UNION {paths[n] : n \in 0 .. max} : Last(p) = t}
Cost(g, plan, p) ==
  LET Cheapest(v, w) == CHOOSE c \in {Weight(plan, g.edges[i]) : i \in Between(g, plan, v, w)} :
                          \A i \in Between(g, plan, v, w) : c <= Weight(plan, g.edges[i])
  IN  FoldLeft(LAMBDA n, i : n + Cheapest(p[i], p[i + 1]), 0, [i \in 1 .. Len(p) - 1 |-> i])
Joined(g, plan, p) == \A i \in 1 .. Len(p) - 1 : Between(g, plan, p[i], p[i + 1]) # {}

(* FIND never answers in part: SHORTEST PATH gives a path with the fewest  *)
(* hops within the bound, ALL SHORTEST PATHS every one of them once, and   *)
(* WEIGHT BY a path within the bound than which none is cheaper, however   *)
(* the hop bound and the costs pull apart; and no row only when there is   *)
(* no path.  It fails instead only for a limit on vertices, paths or       *)
(* steps, an edge that does not decode, or a weight that is negative or    *)
(* not finite.                                                             *)
PathsExact(g, plan) ==
  LET r == execute_find(g, plan)
      s == V(plan.from[2])
      t == V(plan.to[2])
      max == IF plan.upto # -1 THEN plan.upto ELSE Cardinality(Places(g)) + 1
      found == [i \in DOMAIN r.rows |-> [k \in DOMAIN r.rows[i] |-> V(r.rows[i][k])]]
      there == PathsOf(g, plan, s, t, max)
      fewest == {p \in there : \A q \in there : Len(p) <= Len(q)}
      odd == plan.weight # "" /\ \E i \in DOMAIN g.edges : Weight(plan, g.edges[i]) \notin 0 .. FloatInf - 1
  IN  IF r.err THEN g.nodes # 0 \/ g.paths # 0 \/ (g.steps # 0 /\ plan.upto > g.steps) \/ g.bad # {} \/ odd
      ELSE odd \/ g.bad # {} \/
        /\ found = << >> <=> there = {}
        /\ plan.all => Range(found) = fewest /\ Len(found) = Cardinality(fewest)
        /\ ~plan.all /\ plan.weight = "" => Range(found) \subseteq fewest
        /\ plan.weight # "" => \A i \in DOMAIN found :
             /\ found[i][1] = s /\ Last(found[i]) = t
             /\ Len(found[i]) - 1 <= max
             /\ Joined(g, plan, found[i])
             /\ \A p \in there : Cost(g, plan, found[i]) <= Cost(g, plan, p)
=============================================================================
