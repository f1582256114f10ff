----------------------------- MODULE MCQueries ------------------------------
(***************************************************************************)
(* The statements that read, on small stores: every input is picked, and   *)
(* what the algorithms make of it is compared, when it is answered, with   *)
(* what it should be.  And the ontology whose class sets is_a, CHECK SHAPE *)
(* and CHECK CONSISTENCY read, after every short sequence of statements    *)
(* that change it.  A behaviour picks inputs or changes the ontology.      *)
(***************************************************************************)
EXTENDS Lookup

VARIABLES input,
          tagSchemas, classSchemas, shapeSchemas, edgeSchemas, tagIndexes, records, links, statements

ontology == <<tagSchemas, classSchemas, shapeSchemas, edgeSchemas, tagIndexes, records, links, statements>>

-----------------------------------------------------------------------------
(* Conditions over two properties of a record.                             *)

Values ==
  {IntV(0), IntV(1), IntV(IntMin), FloatV(One), FloatV(One + 1), StrV(<<1>>), StrV(<<2, 1>>), BoolV(TRUE), Null}
P == Prop(<<"n">>, "p")
Q == Prop(<<"n">>, "q")
Operators == {"==", "!=", "<", "<=", ">", ">="}
Atoms ==
  {Bin(op, P, Lit(v)) : op \in Operators, v \in {IntV(1), FloatV(One), StrV(<<1>>), BoolV(TRUE)}}
    \cup {Bin(op, Lit(v), Q) : op \in Operators, v \in {IntV(1), FloatV(One + 1), StrV(<<1>>)}}
    \cup {Bin(op, P, Lit(StrV(s))) : op \in TextOps, s \in {<<1>>, <<0>>}}
    \cup {Bin(op, P, Items(<<Lit(IntV(1)), Lit(v)>>)) : op \in {"in", "not in"}, v \in {StrV(<<1>>), Null}}
    \cup {Bin("==", Fn(f, <<P>>), Lit(v)) : f \in {"LENGTH", "ABS", "IS_NULL"}, v \in {IntV(1), BoolV(TRUE)}}
    \cup {Bin(">", Bin(op, P, Q), Lit(IntV(0))) : op \in Arithmetic}
    \cup {Bin("<", Un("neg", Lit(IntV(1))), P), Fn("IS_A", <<Lit(StrV(<<1>>))>>), Fn("STARTS_WITH", <<P, Q>>)}
Paired ==
  {Bin("<", P, Lit(IntV(1))), Bin(">=", Lit(IntV(1)), Q), Bin("in", Q, Items(<<Lit(IntV(0)), Lit(Null)>>)),
   Bin("starts", P, Lit(StrV(<<1>>))), Bin("!=", P, Lit(IntV(0))), Lit(BoolV(FALSE))}
Conditions ==
  Atoms \cup {Un("not", e) : e \in Atoms \cup {Bin(op, a, b) : op \in {"and", "or"}, a, b \in Paired}}
    \cup {Bin(op, a, b) : op \in {"and", "or"}, a, b \in Paired}

RECURSIVE Asks(_)     \* conditions that ask about null itself
Asks(e) ==
  CASE Kind(e) = "bin" -> e[2] \in {"==", "!="} \/ Asks(e[3]) \/ Asks(e[4])
    [] Kind(e) = "un" -> Asks(e[3])
    [] Kind(e) = "fn" -> e[2] \in {"IS_NULL", "ISNULL", "IS_NOT_NULL", "ISNOTNULL", "COALESCE"}
    [] OTHER -> FALSE
Props(p, q) == [x \in {<<"n", "p">>, <<"n", "q">>} |-> IF x[2] = "p" THEN p ELSE q]

-----------------------------------------------------------------------------
(* Stores of three vertices for MATCH.                                     *)

A == 1
B == 2
TagData(name, props) == [name |-> name, props |-> props]
Flat(v) == [x \in {"p"} |-> v]
Alpha(n) == <<TagData(A, Flat(IntV(n)))>>
Beta == <<TagData(B, << >>)>>
Both == <<TagData(A, Flat(IntV(2))), TagData(B, Flat(IntV(1)))>>
Vertices == {<<Alpha(1), Alpha(1), Beta>>, <<Both, Alpha(1), Alpha(2)>>, <<Alpha(1), Both>>}
E(s, t, type, rank, w) ==
  [src |-> s, dst |-> t, type |-> type, rank |-> rank, props |-> [x \in {"w"} |-> IntV(w)]]
Edges ==
  {<< >>,
   <<E(1, 2, 1, 0, 1), E(1, 2, 1, 1, 2), E(2, 1, 1, 0, 1)>>,
   <<E(1, 2, 1, 0, 1), E(2, 2, 1, 0, 1), E(2, 3, 2, 0, 1)>>,
   <<E(1, 2, 1, 0, 1), E(2, 3, 1, 0, 1), E(3, 1, 1, 0, 2), E(3, 3, 2, 0, 1)>>,
   <<E(1, 3, 1, 0, 1), E(3, 2, 1, 0, 2), E(2, 1, 2, 0, 1)>>}
LabelsOf(vertices) == {<<t.name, v>> : t \in {TagData(A, << >>), TagData(B, << >>)}, v \in DOMAIN vertices}
TagVids(vertices) == {p \in LabelsOf(vertices) : \E t \in Range(vertices[p[2]]) : t.name = p[1]}
Store(vertices, edges, tagvid, indexes, stale) ==
  [vertices |-> vertices, edges |-> edges, tagvid |-> tagvid, indexes |-> indexes, stale |-> stale, parts |-> 2,
   rep |-> << >>, strings |-> FALSE, names |-> << >>, cap |-> 4, steps |-> 3, nodes |-> 20, budget |-> 12, paths |-> 0, bad |-> {},
   schema |-> (A :> ("p" :> "int")) @@ (B :> ("p" :> "int")), eschema |-> (1 :> ("w" :> "int")) @@ (3 :> ("w" :> "int")),
   eindexes |-> << >>, estale |-> << >>, badv |-> {}, past |-> << >>, cluster |-> FALSE,
   vtypes |-> {<<3, A>>}, super |-> {<<A, B>>}]
Index(tag, fields) == [tag |-> tag, fields |-> fields]
Stores ==
  {Store(vs, es, {}, << >>, {}) : vs \in Vertices, es \in Edges}
    \cup {Store(vs, es, TagVids(vs) \cup {<<A, 3>>, <<B, 4>>}, <<Index(A, <<"p", "q">>), Index(A, <<"p">>)>>, {3, 4})
            : vs \in Vertices, es \in Edges}

Free(var) == Node(var, << >>, FALSE, << >>)
Of(var, label) == Node(var, <<label>>, FALSE, << >>)
With(var, label, n) == Node(var, <<label>>, FALSE, [x \in {"p"} |-> Lit(IntV(n))])
Hop(var, dir) == EdgePattern(var, {}, dir, << >>, << >>)
Star(dir, min, max) == EdgePattern("", {}, dir, <<min, max>>, << >>)
One2(a, h, b) == Path(a, <<h>>, <<b>>)
Shapes ==
  {<<<<Path(n, << >>, << >>)>>, << >>>> :
      n \in {Free("a"), Of("a", A), Of("a", B), With("a", A, 1), Node("a", <<A, B>>, TRUE, << >>),
             Node("a", <<B, A>>, FALSE, << >>)}}
  \cup {<<<<One2(Free("a"), h, b)>>, << >>>> :
      h \in {Hop("e", "out"), Hop("e", "both"), EdgePattern("", {1}, "in", << >>, [x \in {"w"} |-> Lit(IntV(1))])},
      b \in {Free("b"), Of("b", A), Free("a")}}
  \cup {<<<<One2(a, h, Free("b"))>>, << >>>> : a \in {Free(""), Of("a", A)},
      h \in {Star("out", 1, 2), Star("both", 2, 3), Star("in", 0, 1), Star("out", 1, 4)}}
  \cup {<<<<Path(Free("a"), <<Hop("e", "out"), Hop(f, "both")>>, <<Free("b"), Free("c")>>)>>, << >>>> : f \in {"e", "f"}}
  \cup {<<<<One2(Free("a"), Hop("e", "out"), Free("b")), p>>, << >>>> :
      p \in {One2(Free("b"), Hop("", "out"), Of("c", A)), One2(Free(""), Hop("e", "out"), Free("c")), Path(Of("a", A), << >>, << >>)}}
  \cup {<<<<Path(Of("a", A), << >>, << >>)>>, o>> :
      o \in {<<One2(Free("a"), Hop("f", "out"), Of("c", B))>>,
             <<One2(Free("a"), Hop("f", "in"), Of("c", A)), One2(Free("c"), Hop("", "out"), Free("d"))>>}}
IdIs(var, n) == Bin("==", Fn("ID", <<Id(var)>>), Lit(IntV(n)))
Wheres ==
  {NoExpr, IdIs("a", 1), IdIs("b", 2), Bin("and", IdIs("b", 2), IdIs("a", 3)),
   Bin("or", IdIs("b", 2), Bin("==", Prop(<<"a">>, "p"), Lit(IntV(1))))}
Sorted == <<[expr |-> Fn("ID", <<Id("a")>>), desc |-> TRUE]>>
Windows == {<<-1, 2>>, <<1, 1>>, <<1, 0>>}
Plan(shape, where, order, w) ==
  [patterns |-> shape[1], optional |-> shape[2], where |-> where, order |-> order, group |-> << >>,
   ret |-> <<Column(Fn("ID", <<Id("a")>>), "i"), Column(Id("e"), "e")>>, offset |-> w[1], limit |-> w[2]]

-----------------------------------------------------------------------------
(* Graphs of four vertices for GO and FIND.  The direct way is dear, the   *)
(* cheap way is long.                                                      *)

W(s, t, type, rank, v) == [src |-> s, dst |-> t, type |-> type, rank |-> rank, props |-> [x \in {"w"} |-> v]]
Pool ==
  <<W(1, 2, 1, 0, IntV(1)), W(1, 2, 2, 0, FloatV(1)), W(1, 3, 1, 0, FloatV(2)), W(1, 4, 1, 0, IntV(5)),
    W(2, 3, 1, 0, IntV(0)), W(2, 4, 1, 0, IntV(3)), W(3, 4, 1, 0, StrV(<<1>>)), W(3, 1, 2, 0, IntV(1))>>
Chosen(kept) == SelectSeq(Pool, LAMBDA e : e \in kept)
Four == <<Alpha(1), Both, Beta, Alpha(2)>>
Graph(kept, nodes, paths, steps) ==
  [Store(Four, Chosen(kept), {}, << >>, {}) EXCEPT !.nodes = nodes, !.paths = paths, !.steps = steps]
Graphs ==
  {Graph(kept, 0, 0, 0) : kept \in SUBSET Range(Pool)}
    \cup {Graph(kept, n, p, 2) : kept \in {k \in SUBSET Range(Pool) : Cardinality(k) \in {4, 8}}, n \in {0, 2}, p \in {0, 1}}
    \cup {[Graph(kept, 0, 0, 0) EXCEPT !.bad = {Pool[1]}, !.rep = (2 :> 3)] : kept \in {k \in SUBSET Range(Pool) : Cardinality(k) = 7}}
GoPlan(from, over, dir, steps, where, yield) ==
  [from |-> from, var |-> IF from = << >> THEN "t" ELSE "", col |-> "b", over |-> over, dir |-> dir,
   min |-> steps[1], max |-> steps[2], where |-> where, yield |-> yield]
Tables == [x \in {"t"} |-> [columns |-> <<"a", "b">>, rows |-> <<<<Null, IntV(1)>>, <<Null, IntV(3)>>>>]]
GoPlans ==
  {GoPlan(from, over, dir, steps, NoExpr, << >>) :
      from \in {<<IntV(3), IntV(2)>>, << >>}, over \in {<< >>, <<1>>},
      dir \in {"out", "in", "both"}, steps \in {<<1, 1>>, <<0, 2>>, <<2, 3>>}}
Yields == {<< >>, <<Id("edge")>>, <<Id("vertex")>>, <<DstProp(A, "p")>>}
FindPlan(s, t, over, all, bidirect, weight, upto) ==
  [from |-> Lit(IntV(s)), to |-> Lit(IntV(t)), over |-> over, all |-> all, bidirect |-> bidirect, weight |-> weight,
   upto |-> upto, where |-> NoExpr, yield |-> << >>]
FindPlans ==
  {FindPlan(p[1], p[2], over, k[1], k[2], k[3], upto) :
      p \in {<<1, 4>>, <<2, 1>>}, over \in {{}, {1}},
      k \in {<<FALSE, FALSE, "">>, <<FALSE, TRUE, "">>, <<TRUE, FALSE, "">>, <<TRUE, TRUE, "">>, <<FALSE, FALSE, "w">>},
      upto \in {-1, 2, 3}}

-----------------------------------------------------------------------------
(* Records for LOOKUP and FETCH: numbers of both kinds under a column of   *)
(* floats, indexes that still hold what is gone.  Tag 2 and edge type 3    *)
(* are of their kind only; 1 is a tag and an edge type.                    *)

Valued(v) == <<TagData(A, Flat(v)), TagData(B, << >>)>>
Mixed == <<Valued(IntV(1)), Valued(FloatV(One)), Valued(FloatV(2)), Beta>>
Whole == <<Valued(IntV(0)), Alpha(1), Both, Alpha(1)>>
Ranked == <<E(1, 2, 1, 0, 1), E(1, 2, 1, 1, 2), E(1, 3, 3, 0, 1), E(2, 2, 3, 0, 0), E(2, 2, 3, 1, 1)>>
Gone == E(3, 1, 3, 0, 1)
Base(vertices, type) ==
  [Store(vertices, Ranked, TagVids(vertices), << >>, {}) EXCEPT !.schema[A] = ("p" :> type), !.cap = 0]
Indexed(g) ==
  [g EXCEPT !.indexes = <<Index(A, <<"p">>)>>, !.stale = {2, 5}, !.eindexes = <<Index(3, <<"w">>)>>, !.estale = <<Gone>>]
Records ==
  LET plain == {Base(Mixed, "float"), Base(Whole, "int")}
      all == plain \cup {Indexed(g) : g \in plain}
  IN  all \cup {[g EXCEPT !.cluster = TRUE] : g \in all}
          \cup {[g EXCEPT !.cap = c] : g \in all, c \in {1, 3, 5}}
          \cup {[g EXCEPT !.badv = {3}, !.bad = {Ranked[4]}] : g \in all}
Compared1 ==
  {Bin(op, f, Lit(v)) : op \in {"==", "<", ">="}, f \in {Id("p"), Prop(<<"n">>, "p"), Id("w")},
                        v \in {IntV(0), IntV(1), FloatV(One), BoolV(TRUE), StrV(<<1>>)}}
    \cup {Bin(op, Lit(IntV(1)), Id(f)) : op \in {"==", "<=", ">"}, f \in {"p", "w"}}
LookupWheres ==
  {NoExpr, Bin("contains", Id("p"), Lit(StrV(<<1>>))), Bin("<", Id("w"), Un("neg", Lit(IntV(1)))),
   Bin("and", Bin("<", Id("p"), Lit(IntV(1))), Bin("==", Id("p"), Lit(IntV(0)))),
   Un("not", Bin("==", Id("w"), Lit(IntV(1))))} \cup Compared1
LookupPlan(name, edge, where, w) == [name |-> name, edge |-> edge, where |-> where, offset |-> w[1], limit |-> w[2]]
LookupPlans ==
  {LookupPlan(n[1], n[2], where, w) : n \in {<<A, FALSE>>, <<A, TRUE>>, <<B, FALSE>>, <<3, FALSE>>}, where \in LookupWheres,
                                     w \in {<<-1, -1>>, <<-1, 1>>, <<1, 2>>, <<2, 0>>, <<1, SizeMax>>}}

-----------------------------------------------------------------------------
(* Ontologies of four names.  The third level of a chain of superclasses   *)
(* is one too deep to be walked, a fourth is refused.                      *)

Labels == {"A", "B", "C", "D"}
Declared(superclasses, disjoint, equivalent) ==
  [superclasses |-> superclasses, disjoint |-> disjoint, equivalent |-> equivalent]
ClassDefs ==
  {Declared({}, {}, {}), Declared({"A"}, {}, {"B"}), Declared({"A", "B"}, {}, {})}
    \cup {Declared({n}, {}, {}) : n \in Labels} \cup {Declared({}, {n}, {}) : n \in {"A", "B"}}
    \cup {Declared({}, {}, {n}) : n \in {"A", "D"}}
ShapeDefs == {{<<"required", "p">>}, {<<"type", "p", "double">>, <<"check", "p", "int">>}}
Inserted ==
  {<<TagData("A", "p" :> "int")>>, <<TagData("A", << >>)>>, <<TagData("A", "p" :> "int"), TagData("B", "p" :> "string")>>,
   <<TagData("B", "p" :> "null"), TagData("A", "p" :> "int")>>}

O == INSTANCE ClassSchema
       WITH Tag <- Labels, Shape <- {"s"}, EdgeType <- {"e"}, IndexName <- {"i", "j"}, Vid <- {1},
            Declarations <- ClassDefs, Constraints <- ShapeDefs, Rows <- Inserted,
            MaxClassDepth <- 2, MaxTags <- 2, MaxStatements <- 5,
            tags <- tagSchemas, classes <- classSchemas, shapes <- shapeSchemas, edges <- edgeSchemas,
            indexes <- tagIndexes, vertices <- records, graph <- links

-----------------------------------------------------------------------------
None0 == [kind |-> "none"]
Init == input = None0 /\ O!Init
PickCondition == /\ input = None0
                 /\ \E e \in Conditions : input' = [kind |-> "condition", e |-> e]
PickRecord == /\ input.kind = "condition"
              /\ \E p, q \in Values : input' = [kind |-> "record", e |-> input.e, p |-> p, q |-> q]
PickStore == /\ input = None0
             /\ \E g \in Stores : input' = [kind |-> "store", g |-> g]
PickMatch == /\ input.kind = "store"
             /\ \E shape \in Shapes, where \in Wheres, order \in {<< >>, Sorted}, w \in Windows :
                  input' = [kind |-> "match", g |-> input.g, plan |-> Plan(shape, where, order, w)]
PickGraph == /\ input = None0
             /\ \E g \in Graphs : input' = [kind |-> "graph", g |-> g]
PickGo == /\ input.kind = "graph"
          /\ \E plan \in GoPlans : input' = [kind |-> "go", g |-> input.g, plan |-> plan]
PickFind == /\ input.kind = "graph"
            /\ \E plan \in FindPlans : input' = [kind |-> "find", g |-> input.g, plan |-> plan]
PickRecords == /\ input = None0
               /\ \E g \in Records : input' = [kind |-> "records", g |-> g]
PickLookup == /\ input.kind = "records"
              /\ \E plan \in LookupPlans : input' = [kind |-> "lookup", g |-> input.g, plan |-> plan]
PickClauses == /\ input.kind = "graph"
               /\ \E g \in {Graph({Pool[i] : i \in S}, 0, 0, 2) : S \in {{1, 5, 7, 8}, {2, 3, 4, 6, 8}}}, plan \in {p \in GoPlans : p.from # << >> /\ p.min = 1},
                     target \in {"t", "none"} :
                    input' = [kind |-> "clauses", g |-> input.g, h |-> g, plan |-> plan, target |-> target]
\* What was picked is answered.
Done == input # None0 /\ input' = None0
Pick == \/ PickCondition \/ PickRecord \/ PickStore \/ PickMatch \/ PickGraph \/ PickGo \/ PickFind
        \/ PickRecords \/ PickLookup \/ PickClauses \/ Done
Next == \/ statements = 0 /\ Pick /\ UNCHANGED ontology
        \/ input = None0 /\ O!Next /\ UNCHANGED input
Spec == Init /\ [][Next]_<<input, ontology>>

-----------------------------------------------------------------------------
(* What is checked of each kind of input; the properties themselves are in *)
(* the modules.                                                            *)

(* GO's evaluator never decides a condition on a null property in a way    *)
(* some value of the property would contradict (Evaluator::eval_or and     *)
(* eval_and are three-valued).                                             *)
QNullIsUnknown ==
  input.kind = "record" /\ ~Asks(input.e) =>
     NullIsUnknown(input.e, Props(Null, input.q), Props(input.p, input.q))
(* The filter LOOKUP extracts from a condition (expr_to_filter_expr and    *)
(* extract_range_condition) passes what the evaluator would.               *)
QPushdownAgrees ==
  input.kind = "record" =>
     LET rec == Record("n", Props(input.p, input.q))
     IN  PushdownAgrees(input.e, rec) /\ \A field \in {"p", "q"} : NullTestsAgree(field, rec)
(* MATCH's eval_condition and GO's evaluator accept the same rows, and a   *)
(* condition validate_match_condition let through is never refused later.  *)
QConditionAgrees ==
  input.kind = "record" => ConditionAgrees(input.e, [x \in {"p", "q"} |-> Props(input.p, input.q)[<<"n", x>>]])
(* execute_match_unfenced finds every placement of its patterns once,      *)
(* whichever index or end of the pattern it starts from.                   *)
QMatchesExact == input.kind = "match" => MatchesExact(input.g, input.plan)
(* The early exit of MATCH (row_limit) leaves OFFSET and LIMIT exact.      *)
QWindowExact == input.kind = "match" => WindowExact(input.g, input.plan)
(* The shortcut for COUNT( * ) (try_execute_simple_count) counts the rows  *)
(* the statement has.                                                      *)
QCountsAgree == input.kind = "match" => CountsAgree(input.g, input.plan)
(* Explicit and implied groups of MATCH count every row once.              *)
QGroupsExact == input.kind = "match" => GroupsExact(input.g, input.plan, Prop(<<"a">>, "p"))
(* execute_go_local reaches the edges at the hop counts asked for, once    *)
(* each, on graphs with cycles, loops and several paths to a vertex.       *)
QGoExact ==
  input.kind = "go" =>
     LET vids == go_sources(input.g, input.plan, Tables) IN ~vids.err => GoExact(input.g, input.plan, vids.rows)
(* execute_go_distributed answers one hop as execute_go_local, or fails.   *)
QRemoteGoAgrees == input.kind = "go" => RemoteGoAgrees(input.g, input.plan, Tables)
(* execute_find is exact about shortest, all shortest and cheapest paths.  *)
QPathsExact == input.kind = "find" => PathsExact(input.g, input.plan)
(* execute_lookup answers with the records that meet the condition, within *)
(* its window, whichever index, scan or cluster serves it.                 *)
QLookupExact == input.kind = "lookup" => LookupExact(input.g, input.plan)
(* LOOKUP, MATCH and FETCH find the same vertices of a tag.                *)
QReadersAgree == input.kind \in {"store", "graph", "records"} => \A tag \in {A, B} : ReadersAgree(input.g, tag)
(* LOOKUP, FETCH and GO find the same edges of a type, rank for rank.      *)
QEdgeReadersAgree == input.kind \in {"store", "graph", "records"} => \A type \in 1 .. 3 : EdgeReadersAgree(input.g, type)
(* EXPLAIN (build_lookup, build_match) shows the access path the executor  *)
(* takes, and leaves out none (build_go, build_find, build_fetch).         *)
QExplainAgrees ==
  /\ input.kind = "lookup" => ExplainsLookup(input.g, input.plan)
  /\ input.kind = "match" => ExplainsMatch(input.g, input.plan)
  /\ input.kind = "go" => \A yield \in Yields : ExplainsGo(input.g, [input.plan EXCEPT !.yield = yield], Tables)
  /\ input.kind = "find" => ExplainsFind(input.g, input.plan)
  /\ input.kind = "graph" => /\ \A tag \in {A, B} : ExplainsFetch(input.g, FetchTag(input.g, tag))
                             /\ \A type \in {1, 2} : ExplainsFetch(input.g, FetchPairs(input.g, type))
(* In a compound statement (execute_compound) a variable carries rows      *)
(* across USE, and later clauses run on the space USE names.               *)
QClausesCompose ==
  input.kind = "clauses" => ClausesCompose(("s" :> input.g) @@ ("t" :> input.h), "s", input.target, input.plan)

-----------------------------------------------------------------------------
(* A condition means one thing to the evaluator, to the filter LOOKUP      *)
(* extracts and to MATCH, null included, but where PushdownAgrees and      *)
(* ConditionAgrees say how they differ: a negated comparison with null     *)
(* passes LOOKUP's filter and not GO's evaluator (QNullIsUnknown,          *)
(* QPushdownAgrees, QConditionAgrees).                                     *)
ConditionsAgree ==
  [][Done => QNullIsUnknown /\ QPushdownAgrees /\ QConditionAgrees]_input

(* MATCH finds every placement once, in exact windows, groups and counts,  *)
(* and EXPLAIN shows how (QMatchesExact, QWindowExact, QCountsAgree,       *)
(* QGroupsExact, QExplainAgrees).                                          *)
MatchExact ==
  [][Done => QMatchesExact /\ QWindowExact /\ QCountsAgree /\ QGroupsExact /\ QExplainAgrees]_input

(* GO and FIND PATH are exact on one node, and GO's one hop on a cluster   *)
(* (QGoExact, QRemoteGoAgrees, QPathsExact).                               *)
WalksExact ==
  [][Done => QGoExact /\ QRemoteGoAgrees /\ QPathsExact]_input

(* LOOKUP is exact, the readers of vertices and edges agree with each      *)
(* other, and clauses compose (QLookupExact, QReadersAgree,                *)
(* QEdgeReadersAgree, QClausesCompose).                                    *)
ReadsExact ==
  [][Done => QLookupExact /\ QReadersAgree /\ QEdgeReadersAgree /\ QClausesCompose]_input

(* The class hierarchy is sound after any CREATE and DROP, and ancestors   *)
(* and inconsistencies are exact (HierarchySound, AncestorsExact and       *)
(* InconsistenciesExact of ClassSchema).                                   *)
OntologySound == O!HierarchySound /\ O!AncestorsExact /\ O!InconsistenciesExact

(* A class goes only when nothing names it, and a vertex written conforms  *)
(* to the shapes of its tags by CHECK SHAPE too (NothingLeftBehind and     *)
(* WritesConform of ClassSchema).                                          *)
SchemaSteps == [][O!NothingLeftBehind /\ O!WritesConform]_ontology
=============================================================================
